----------------------------- MODULE HostDaemon -----------------------------
(***************************************************************************)
(* The host daemon sbatchd around its SIGCHLD handler child_handler() of   *)
(* src/lsbatch/daemons/sbd.misc.c, composed with the core table of Cores.  *)
(*                                                                         *)
(* The main loop links a job card on jobQueHead with inList() of           *)
(* src/lsf/intlib/list.c, starts the job's process and binds it to cores   *)
(* (Cores!StartJob), and, once the handler has flagged need_checkfinish,   *)
(* finishes the collected jobs: their cores are freed (Cores!FinishJob)    *)
(* and the card is unlinked with offList().  The main loop is not under    *)
(* src/; it is modelled from spec 4.3 and 5.                               *)
(*                                                                         *)
(* child_handler() interrupts the main loop between any two of its stores, *)
(* the list stores included, and runs to completion before the main loop  *)
(* goes on.  SIGCHLD is not queued: children that exit while one is        *)
(* pending, or while the handler runs, raise no further signal.  The       *)
(* handler drains every zombie with wait3(WNOHANG) before it returns.      *)
(* Each wait3() is one step; children may exit between two of them.        *)
(***************************************************************************)
EXTENDS Integers, FiniteSets, SequencesExt

CONSTANTS
  NumCores, Queues, Pids, PidQueue, NumCpu, Shares, MaxRestarts,
  jobQueHead,       \* the sentinel of the card list
  Null,             \* NULL link of a card not allocated
  MbdStatuses,      \* wait statuses of mbatchd: [sig |-> BOOLEAN, val]
  MasterReconfig,   \* MASTER_RECONFIG
  MasterNull,       \* MASTER_NULL, the initial lastMbdExitVal
  MaxMbdExits       \* bound on mbatchd exits

VARIABLES
  bound, shareTab, pstate, held, restarts,   \* Cores
  forw, back,       \* the links of the card list
  mpc,              \* the main loop inside inList()/offList(), or idle
  proc,             \* the job processes: "none", "alive", "zombie"
  collected,        \* jobCard->collectedChild
  notReported,      \* jobCard->notReported
  needCheckfinish,  \* need_checkfinish
  seen,             \* the collected cards the finish pass took
  sigPending,       \* SIGCHLD pending
  inHandler,        \* child_handler() is running
  mbd,              \* mbatchd: "alive", "zombie" (with mbdStatus), "down"
  mbdStatus,        \* the wait status mbatchd exited with
  mbdExitVal, lastMbdExitVal, mbdExitCnt,
  mbdExits          \* mbatchd exits so far

C == INSTANCE Cores

Nodes == Pids \cup {jobQueHead}

coreVars == <<bound, shareTab, pstate, held, restarts>>
listVars == <<forw, back>>
cardVars == <<collected, notReported>>
mbdVars == <<mbd, mbdStatus, mbdExitVal, lastMbdExitVal, mbdExitCnt, mbdExits>>
vars == <<coreVars, listVars, mpc, proc, cardVars, needCheckfinish, seen,
          sigPending, inHandler, mbdVars>>

Idle == [op |-> "none", p |-> jobQueHead, k |-> 0]

-----------------------------------------------------------------------------
(* The card list.                                                          *)

\* The cards reached from jobQueHead along forw, in order, the way the
\* handler's loop walks them; the walk stops at jobQueHead or a NULL link.
RECURSIVE CardWalk(_, _)
CardWalk(n, fuel) ==
  IF n = jobQueHead \/ n = Null \/ fuel = 0 THEN <<>>
  ELSE <<n>> \o CardWalk(forw[n], fuel - 1)

Cards == CardWalk(forw[jobQueHead], Cardinality(Pids) + 1)

\* Where that walk stops: jobQueHead, or NULL, where the handler's loop,
\* which tests only for jobQueHead, dereferences a NULL card.
RECURSIVE WalkEnd(_, _)
WalkEnd(n, fuel) ==
  IF n = jobQueHead \/ n = Null \/ fuel = 0 THEN n
  ELSE WalkEnd(forw[n], fuel - 1)

\* Mutant: the predecessor is linked forward to the entry first.
InListStoreEarlyLink(k, pred, e, l) ==
  CASE k = 1 -> [l EXCEPT !.f[l.b[pred]] = e]
    [] k = 2 -> [l EXCEPT !.b[e] = l.b[pred]]
    [] k = 3 -> [l EXCEPT !.f[e] = pred]
    [] k = 4 -> [l EXCEPT !.b[pred] = e]

\* Mutant: the last two stores of inList() swapped.
InListStoreSwapped(k, pred, e, l) ==
  CASE k = 1 -> [l EXCEPT !.f[e] = pred]
    [] k = 2 -> [l EXCEPT !.b[e] = l.b[pred]]
    [] k = 3 -> [l EXCEPT !.b[pred] = e]
    [] k = 4 -> [l EXCEPT !.f[l.b[pred]] = e]

\* The k-th store of inList(pred, entry) on the links l = [f, b]:
\* entry->forw = pred; entry->back = pred->back; pred->back->forw = entry;
\* pred->back = entry.
InListStore(k, pred, e, l) ==
  CASE k = 1 -> [l EXCEPT !.f[e] = pred]
    [] k = 2 -> [l EXCEPT !.b[e] = l.b[pred]]
    [] k = 3 -> [l EXCEPT !.f[l.b[pred]] = e]
    [] k = 4 -> [l EXCEPT !.b[pred] = e]

\* The k-th store of offList(entry): entry->back->forw = entry->forw;
\* entry->forw->back = entry->back.
OffListStore(k, e, l) ==
  CASE k = 1 -> [l EXCEPT !.f[l.b[e]] = l.f[e]]
    [] k = 2 -> [l EXCEPT !.b[l.f[e]] = l.b[e]]

Links == [f |-> forw, b |-> back]

SetLinks(l) == forw' = l.f /\ back' = l.b

-----------------------------------------------------------------------------

\* mkListHeader(): the sentinel linked to itself; no card allocated.
Init ==
  /\ C!Init
  /\ forw = [n \in Nodes |-> IF n = jobQueHead THEN jobQueHead ELSE Null]
  /\ back = [n \in Nodes |-> IF n = jobQueHead THEN jobQueHead ELSE Null]
  /\ mpc = Idle
  /\ proc = [p \in Pids |-> "none"]
  /\ collected = [p \in Pids |-> FALSE]
  /\ notReported = [p \in Pids |-> 0]
  /\ needCheckfinish = FALSE
  /\ seen = {}
  /\ sigPending = FALSE
  /\ inHandler = FALSE
  /\ mbd = "alive"
  /\ mbdStatus = CHOOSE s \in MbdStatuses : TRUE
  /\ mbdExitVal = 0
  /\ lastMbdExitVal = MasterNull
  /\ mbdExitCnt = 0
  /\ mbdExits = 0

-----------------------------------------------------------------------------
(* The main loop: it runs only while the handler does not.                 *)

MainIdle == ~inHandler /\ mpc = Idle

\* The finish pass goes through every card it took before the main loop
\* turns to anything else.
Between == MainIdle /\ seen = {}

\* A job is dispatched to the host: its card is allocated and linked at
\* the back of jobQueHead, inList(jobQueHead, card), one store per step.
NewCard(p) ==
  /\ Between
  /\ forw[p] = Null /\ proc[p] = "none" /\ pstate[p] = "idle"
  /\ SetLinks(InListStore(1, jobQueHead, p, Links))
  /\ mpc' = [op |-> "in", p |-> p, k |-> 2]
  /\ UNCHANGED <<coreVars, proc, cardVars, needCheckfinish, seen, sigPending,
                 inHandler, mbdVars>>

\* The next store of the inList() or offList() in progress.  The last
\* store of offList() is followed by the free of the card.
ListStep ==
  /\ ~inHandler /\ mpc # Idle
  /\ \/ /\ mpc.op = "in"
        /\ SetLinks(InListStore(mpc.k, jobQueHead, mpc.p, Links))
        /\ mpc' = IF mpc.k = 4 THEN Idle ELSE [mpc EXCEPT !.k = @ + 1]
        /\ UNCHANGED cardVars
     \/ /\ mpc.op = "off"
        /\ LET l == OffListStore(2, mpc.p, Links)
           IN SetLinks([f |-> [l.f EXCEPT ![mpc.p] = Null],
                        b |-> [l.b EXCEPT ![mpc.p] = Null]])
        /\ mpc' = Idle
        /\ collected' = [collected EXCEPT ![mpc.p] = FALSE]
        /\ notReported' = [notReported EXCEPT ![mpc.p] = 0]
  /\ UNCHANGED <<coreVars, proc, needCheckfinish, seen, sigPending, inHandler,
                 mbdVars>>

\* The job's process is forked from its card, once the card is linked,
\* and bound to cores.
StartJob(p) ==
  /\ Between
  /\ forw[p] # Null /\ proc[p] = "none" /\ ~collected[p]
  /\ C!StartJob(p)
  /\ proc' = [proc EXCEPT ![p] = "alive"]
  /\ UNCHANGED <<listVars, mpc, cardVars, needCheckfinish, seen, sigPending,
                 inHandler, mbdVars>>

\* The finish pass, on need_checkfinish: the flag is cleared, then the
\* collected cards are taken.
CheckFinish ==
  /\ Between /\ needCheckfinish
  /\ needCheckfinish' = FALSE
  /\ seen' = seen \cup {p \in Pids : collected[p]}
  /\ UNCHANGED <<coreVars, listVars, mpc, proc, cardVars, sigPending, inHandler,
                 mbdVars>>

\* A collected job is finished: its cores are freed and offList() starts.
FinishJob(p) ==
  /\ MainIdle /\ p \in seen
  /\ C!FinishJob(p)
  /\ SetLinks(OffListStore(1, p, Links))
  /\ mpc' = [op |-> "off", p |-> p, k |-> 2]
  /\ seen' = seen \ {p}
  /\ UNCHANGED <<proc, cardVars, needCheckfinish, sigPending, inHandler, mbdVars>>

\* sbatchd restarts (Cores!RestartSbd) from its main loop.
RestartSbd ==
  /\ Between
  /\ C!RestartSbd
  /\ UNCHANGED <<listVars, mpc, proc, cardVars, needCheckfinish, seen,
                 sigPending, inHandler, mbdVars>>

\* mbatchd is started again by the daemon's policy after an exit.
MbdRestart ==
  /\ Between /\ mbd = "down"
  /\ mbd' = "alive"
  /\ UNCHANGED <<coreVars, listVars, mpc, proc, cardVars, needCheckfinish, seen,
                 sigPending, inHandler, mbdStatus, mbdExitVal, lastMbdExitVal,
                 mbdExitCnt, mbdExits>>

-----------------------------------------------------------------------------
(* The children exit; the kernel marks SIGCHLD pending.                    *)

ProcExit(p) ==
  /\ proc[p] = "alive"
  /\ proc' = [proc EXCEPT ![p] = "zombie"]
  /\ sigPending' = TRUE
  /\ UNCHANGED <<coreVars, listVars, mpc, cardVars, needCheckfinish, seen,
                 inHandler, mbdVars>>

MbdExit ==
  /\ mbd = "alive" /\ mbdExits < MaxMbdExits
  /\ \E s \in MbdStatuses : mbdStatus' = s
  /\ mbd' = "zombie"
  /\ mbdExits' = mbdExits + 1
  /\ sigPending' = TRUE
  /\ UNCHANGED <<coreVars, listVars, mpc, proc, cardVars, needCheckfinish, seen,
                 inHandler, mbdExitVal, lastMbdExitVal, mbdExitCnt>>

-----------------------------------------------------------------------------
(* child_handler().                                                        *)

Zombies == {p \in Pids : proc[p] = "zombie"}

\* The pending SIGCHLD is delivered.
HandlerEnter ==
  /\ ~inHandler /\ sigPending
  /\ sigPending' = FALSE
  /\ inHandler' = TRUE
  /\ UNCHANGED <<coreVars, listVars, mpc, proc, cardVars, needCheckfinish, seen,
                 mbdVars>>

\* wait3() returns mbatchd: the exit value, or the signal, is compared
\* with the last one and the count of equal ones (kept at most 150 before
\* the increment) goes up or restarts at 0; MASTER_RECONFIG starts
\* mbatchd again at once.
ReapMbd ==
  /\ inHandler /\ mbd = "zombie"
  /\ LET v == mbdStatus.val
         cnt0 == IF mbdExitCnt > 150 THEN 150 ELSE mbdExitCnt
     IN /\ mbdExitVal' = v
        /\ mbdExitCnt' = IF v = lastMbdExitVal THEN cnt0 + 1 ELSE 0
        /\ lastMbdExitVal' = v
        /\ mbd' = IF ~mbdStatus.sig /\ v = MasterReconfig THEN "alive" ELSE "down"
  /\ UNCHANGED <<coreVars, listVars, mpc, proc, cardVars, needCheckfinish, seen,
                 sigPending, inHandler, mbdStatus, mbdExits>>

\* Mutant: need_checkfinish is not set.
ReapJobNoFlag(p) ==
  /\ inHandler /\ p \in Zombies
  /\ proc' = [proc EXCEPT ![p] = "none"]
  /\ IF p \in ToSet(Cards)
     THEN /\ collected' = [collected EXCEPT ![p] = TRUE]
          /\ notReported' = [notReported EXCEPT ![p] = @ + 1]
     ELSE UNCHANGED cardVars
  /\ UNCHANGED <<coreVars, listVars, mpc, needCheckfinish, seen, sigPending,
                 inHandler, mbdVars>>

\* Mutant: the loop is an if; one child is reaped per signal.
ReapJobOnce(p) ==
  /\ inHandler /\ p \in Zombies
  /\ proc' = [proc EXCEPT ![p] = "none"]
  /\ IF p \in ToSet(Cards)
     THEN /\ collected' = [collected EXCEPT ![p] = TRUE]
          /\ notReported' = [notReported EXCEPT ![p] = @ + 1]
          /\ needCheckfinish' = TRUE
     ELSE UNCHANGED <<cardVars, needCheckfinish>>
  /\ inHandler' = FALSE
  /\ UNCHANGED <<coreVars, listVars, mpc, seen, sigPending, mbdVars>>

\* wait3() returns job process p: the walk of jobQueHead finds the first
\* card with jobPid == pid, marks it collected and not reported, and sets
\* need_checkfinish; a pid with no card is dropped.
ReapJob(p) ==
  /\ inHandler /\ p \in Zombies
  /\ proc' = [proc EXCEPT ![p] = "none"]
  /\ IF p \in ToSet(Cards)
     THEN /\ collected' = [collected EXCEPT ![p] = TRUE]
          /\ notReported' = [notReported EXCEPT ![p] = @ + 1]
          /\ needCheckfinish' = TRUE
     ELSE UNCHANGED <<cardVars, needCheckfinish>>
  /\ UNCHANGED <<coreVars, listVars, mpc, seen, sigPending, inHandler, mbdVars>>

\* wait3() returns 0: no zombie is left and the handler returns.
HandlerExit ==
  /\ inHandler /\ Zombies = {} /\ mbd # "zombie"
  /\ inHandler' = FALSE
  /\ UNCHANGED <<coreVars, listVars, mpc, proc, cardVars, needCheckfinish, seen,
                 sigPending, mbdVars>>

Handler == HandlerEnter \/ ReapMbd \/ (\E p \in Pids : ReapJob(p)) \/ HandlerExit

MainLoop ==
  \/ ListStep \/ CheckFinish \/ RestartSbd \/ MbdRestart
  \/ \E p \in Pids : NewCard(p) \/ StartJob(p) \/ FinishJob(p)

Next ==
  \/ MainLoop
  \/ Handler
  \/ MbdExit
  \/ \E p \in Pids : ProcExit(p)

\* A pending SIGCHLD is delivered and the handler runs on to its return;
\* the select() loop of the main loop comes back to the list stores and
\* the finish pass.  Dispatch, job exits and mbatchd exits are not forced.
Fairness ==
  /\ WF_vars(Handler)
  /\ WF_vars(ListStep)
  /\ WF_vars(CheckFinish)
  /\ \A p \in Pids : WF_vars(FinishJob(p))

Spec == Init /\ [][Next]_vars /\ Fairness

-----------------------------------------------------------------------------
(* Properties.                                                             *)

TypeOK ==
  /\ C!TypeOK
  /\ forw \in [Nodes -> Nodes \cup {Null}] /\ back \in [Nodes -> Nodes \cup {Null}]
  /\ proc \in [Pids -> {"none", "alive", "zombie"}]
  /\ collected \in [Pids -> BOOLEAN] /\ notReported \in [Pids -> 0..1]
  /\ needCheckfinish \in BOOLEAN /\ seen \subseteq Pids
  /\ sigPending \in BOOLEAN /\ inHandler \in BOOLEAN
  /\ mbd \in {"alive", "zombie", "down"} /\ mbdStatus \in MbdStatuses
  /\ mbdExitCnt \in 0..151 /\ mbdExits \in 0..MaxMbdExits

BoundMatchesBindings == C!BoundMatchesBindings

\* Spec 5: child_handler() may interrupt the main loop between any two
\* stores of inList()/offList(), and still the walk of jobQueHead reaches
\* the card of every job whose process exists, so a reaped job is marked
\* collected and not dropped.  It rests on inList() linking the new card
\* forward only after the card's own links are set, and on a card being
\* unlinked only after its process was reaped.
LiveJobCardReachable ==
  \A p \in Pids : proc[p] # "none" => p \in ToSet(Cards)

\* Spec 5: whatever store of inList()/offList() the handler interrupts,
\* its walk of jobQueHead->forw comes back to jobQueHead without meeting
\* a NULL link or cycling, so the loop ends without a fault.  A new card
\* must point to jobQueHead before its predecessor points to it.
WalkEndsAtHead ==
  WalkEnd(forw[jobQueHead], Cardinality(Pids) + 1) = jobQueHead

\* Spec 4.3.2: every child that exits is reaped.  SIGCHLD is not queued,
\* so one delivery may stand for several exits; it rests on the handler's
\* loop calling wait3() until no zombie is left.
ExitedEventuallyReaped ==
  /\ \A p \in Pids : proc[p] = "zombie" ~> proc[p] = "none"
  /\ mbd = "zombie" ~> mbd # "zombie"

\* Spec 4.3.2: the cores of a job whose process exited are eventually
\* freed: the handler's need_checkfinish brings the main loop to the
\* finish pass, which frees the cores and unlinks the card.
JobExitFreesCores ==
  \A p \in Pids : proc[p] = "zombie" ~> pstate[p] = "idle"

====
