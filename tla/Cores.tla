------------------------------- MODULE Cores -------------------------------
(***************************************************************************)
(* CPU-core binding and per-queue core shares of the host daemon sbatchd,  *)
(* src/lsbatch/daemons/sbd.misc.c (non-NUMA build): the core table cores[] *)
(* with its bound counters, the queue share table coreSharesTab, and the   *)
(* job processes bound to cores.                                           *)
(*                                                                         *)
(* The table routines (find_free_core, bind_to_core, free_core,            *)
(* find_bound_core, get_core_shares, set_core_shares) are operators.  The  *)
(* job start, job exit and daemon restart paths that call them are not     *)
(* under src/; they are actions modelled from the spec (4.3.3): a job of a *)
(* queue with shares is bound to its queue's share cores, any other job to *)
(* NumCpu free cores; on restart the bindings of the running jobs are      *)
(* reclaimed from their affinity masks and the share entries restored.     *)
(* sbatchd is single threaded and the tables are touched only from its     *)
(* main loop, so each action is atomic.                                    *)
(***************************************************************************)
EXTENDS Integers, FiniteSets, SequencesExt

CONSTANTS
  NumCores,     \* num_cores, ls_get_numcpus()
  Queues,       \* queue names
  Pids,         \* job processes of this host
  PidQueue,     \* Pids -> Queues
  NumCpu,       \* Pids -> Nat \ {0}, cores a job without shares asks for
  Shares,       \* Queues -> SUBSET 0..100, the share (percent) the queue's
                \* configuration may give; 0 is no share
  MaxRestarts   \* bound on daemon restarts

Cores == 0..NumCores - 1

\* find_free_core() returns NULL.
NoCores == {}

NoEntry == [shares |-> 0, cores |-> {}]

ASSUME /\ NumCores \in Nat \ {0}
       /\ PidQueue \in [Pids -> Queues]
       /\ NumCpu \in [Pids -> Nat \ {0}]
       /\ \A q \in Queues : Shares[q] \subseteq 0..100 /\ Shares[q] # {}
       /\ MaxRestarts \in Nat

VARIABLES
  bound,     \* cores[c].bound
  shareTab,  \* coreSharesTab: queue -> [shares, cores], NoEntry if absent
  pstate,    \* "idle" or "run": the job process is running
  held,      \* the cores the job was bound to, {} if it runs unbound
  restarts   \* daemon restarts so far

vars == <<bound, shareTab, pstate, held, restarts>>

-----------------------------------------------------------------------------
(* The core table routines.                                                *)

\* find_free_core(num): NULL when fewer than num cores have bound == 0,
\* else the num lowest numbered of them.
FindFreeCore(b, num) ==
  LET F == {c \in Cores : b[c] = 0}
  IN IF Cardinality(F) < num THEN NoCores
     ELSE {c \in F : Cardinality({d \in F : d < c}) < num}

\* bind_to_core() once sched_setaffinity() succeeded: bound++ on each
\* selected core.
BindToCore(b, cs) == [c \in Cores |-> IF c \in cs THEN b[c] + 1 ELSE b[c]]

\* Mutant: the core_num[j] comparison dropped, every core is released.
FreeCoreAll(b, cs, reset) ==
  [c \in Cores |-> IF reset THEN 0 ELSE b[c] - 1]

\* free_core(num, core_num, reset): bound-- on each core, or bound = 0 when
\* reset.
FreeCore(b, cs, reset) ==
  [c \in Cores |-> IF c \in cs THEN (IF reset THEN 0 ELSE b[c] - 1) ELSE b[c]]

\* Mutant: the affinity mask is read but bound is not incremented.
FindBoundCoreNoCount(b, aff) == b

\* find_bound_core(pid): bound++ on every core of the process's affinity
\* mask that is below num_cores.
FindBoundCore(b, aff) == [c \in Cores |-> IF c \in aff THEN b[c] + 1 ELSE b[c]]

\* deserve = (int) ceil(shares * total), shares given in percent.
Deserve(s) == (s * NumCores + 99) \div 100

\* get_core_shares(queue, shares): the new table, the new bound counters
\* and the cores returned (NoCores for NULL).  An entry with the same
\* shares is returned as it is; a changed one has its cores released with
\* reset and is selected again; selection tries find_free_core(deserve),
\* then deserve - 1, ... down to 1; if nothing is found the entry is
\* removed.
GetCoreShares(q, s) ==
  LET e    == shareTab[q]
      same == e # NoEntry /\ e.shares = s
      b1   == IF e # NoEntry THEN FreeCore(bound, e.cores, TRUE) ELSE bound
      ok   == {a \in 1..Deserve(s) : FindFreeCore(b1, a) # NoCores}
      cs   == IF ok = {} THEN NoCores ELSE FindFreeCore(b1, Max(ok))
  IN IF same THEN [tab |-> shareTab, bound |-> bound, cores |-> e.cores]
     ELSE [tab   |-> [shareTab EXCEPT ![q] =
                         IF cs = NoCores THEN NoEntry
                         ELSE [shares |-> s, cores |-> cs]],
           bound |-> b1,
           cores |-> cs]

\* set_core_shares(queue, shares, num, cores): install an entry unless the
\* arguments are empty or the queue already has one.
SetCoreShares(tab, q, s, cs) ==
  IF s <= 0 \/ cs = {} \/ tab[q] # NoEntry THEN tab
  ELSE [tab EXCEPT ![q] = [shares |-> s, cores |-> cs]]

-----------------------------------------------------------------------------
(* Actions.                                                                *)

Init ==
  /\ bound = [c \in Cores |-> 0]
  /\ shareTab = [q \in Queues |-> NoEntry]
  /\ pstate = [p \in Pids |-> "idle"]
  /\ held = [p \in Pids |-> {}]
  /\ restarts = 0

\* A job starts: with its queue's current share s > 0 it gets the queue's
\* share cores, else NumCpu free cores; if cores were found it is bound to
\* them unless sched_setaffinity() fails (bind_to_core() returns -1 and the
\* job runs unbound).
StartJob(p) ==
  /\ pstate[p] = "idle"
  /\ \E s \in Shares[PidQueue[p]], bindOk \in BOOLEAN :
       LET r  == IF s > 0 THEN GetCoreShares(PidQueue[p], s)
                 ELSE [tab |-> shareTab, bound |-> bound,
                       cores |-> FindFreeCore(bound, NumCpu[p])]
           cs == IF bindOk THEN r.cores ELSE NoCores
       IN /\ shareTab' = r.tab
          /\ bound' = IF cs # NoCores THEN BindToCore(r.bound, cs) ELSE r.bound
          /\ held' = [held EXCEPT ![p] = cs]
  /\ pstate' = [pstate EXCEPT ![p] = "run"]
  /\ UNCHANGED restarts

\* A job's process exits: its cores are released, free_core(.., false).
FinishJob(p) ==
  /\ pstate[p] = "run"
  /\ bound' = FreeCore(bound, held[p], FALSE)
  /\ held' = [held EXCEPT ![p] = {}]
  /\ pstate' = [pstate EXCEPT ![p] = "idle"]
  /\ UNCHANGED <<shareTab, restarts>>

\* A share configuration of all queues.
ShareConfigs ==
  {f \in [Queues -> UNION {Shares[q] : q \in Queues}] : \A q \in Queues : f[q] \in Shares[q]}

\* The recovery of one running bound job p on restart, with s the queues'
\* shares: find_bound_core() on its affinity mask (the cores it was bound
\* to), then set_core_shares() for its queue from the cores found.
RecoverJob(acc, p, s) ==
  [b   |-> FindBoundCore(acc.b, held[p]),
   tab |-> SetCoreShares(acc.tab, PidQueue[p], s[PidQueue[p]], held[p])]

\* sbatchd restarts: init_cores() allocates a zeroed core table, the share
\* table starts empty, and the running bound jobs are recovered one by one
\* in the order of the job list.
RestartSbd ==
  /\ restarts < MaxRestarts
  /\ \E ord \in SetToSeqs({p \in Pids : pstate[p] = "run" /\ held[p] # {}}),
        s \in ShareConfigs :
       LET r == FoldLeft(LAMBDA acc, p : RecoverJob(acc, p, s),
                         [b |-> [c \in Cores |-> 0], tab |-> [q \in Queues |-> NoEntry]],
                         ord)
       IN /\ bound' = r.b
          /\ shareTab' = r.tab
  /\ restarts' = restarts + 1
  /\ UNCHANGED <<pstate, held>>

Next ==
  \/ \E p \in Pids : StartJob(p) \/ FinishJob(p)
  \/ RestartSbd

Spec == Init /\ [][Next]_vars

-----------------------------------------------------------------------------
(* Properties.                                                             *)

TypeOK ==
  /\ bound \in [Cores -> Nat]
  /\ \A q \in Queues : shareTab[q].shares \in 0..100
                       /\ shareTab[q].cores \subseteq Cores
  /\ pstate \in [Pids -> {"idle", "run"}]
  /\ \A p \in Pids : held[p] \subseteq Cores
  /\ restarts \in 0..MaxRestarts

\* The core table counts exactly the live bindings: every core's bound is
\* the number of running jobs bound to it (spec 4.3.3, "bound > 0 means at
\* least one job is pinned to it"), across job starts, exits, share
\* reselection and the reclaim of bindings after a daemon restart.  A
\* wrong count lets find_free_core() hand a pinned core to a new job, or
\* keeps a free core from ever being used again.
BoundMatchesBindings ==
  \A c \in Cores :
    bound[c] = Cardinality({p \in Pids : pstate[p] = "run" /\ c \in held[p]})

\* Spec 4.3.3 and scenario 3: share reservations of different queues do not
\* overlap at core granularity; a queue that finds no free core gets none.
\* get_core_shares() selects with find_free_core(), which sees only the
\* bound counters of pinned jobs (sbd.misc.c:575-580), not the cores of
\* other queues' entries.
ShareCoresDisjoint ==
  \A q1, q2 \in Queues :
    q1 # q2 => shareTab[q1].cores \cap shareTab[q2].cores = {}

====
