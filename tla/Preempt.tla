------------------------------ MODULE Preempt ------------------------------
(***************************************************************************)
(* The master scheduler's preemption elector, prm_elect_preempt() in       *)
(* src/lsbatch/daemons/libpreempt.c, together with the parts of the master *)
(* it interacts with: the pending job list PJL (walked from its back, the  *)
(* highest priority end), the started job list SJL, the suspend signals    *)
(* sent to the elected victims, dispatch, job completion and resume.       *)
(*                                                                         *)
(* One call of the elector is one atomic step (Elect): the master runs a   *)
(* scheduling tick to completion before the next, and the elector does not *)
(* block.  Its loops are the recursive operators below.  The master code   *)
(* around it (dispatch, suspend, finish, resume) is not under src/ and is  *)
(* modelled from the spec.                                                 *)
(***************************************************************************)
EXTENDS Naturals, Sequences, SequencesExt, FiniteSetsExt, Functions

CONSTANTS
  Jobs,                 \* job ids (model values)
  Queues,               \* queue names
  Hosts,                \* host names
  Resources,            \* names of numeric shared resources (licenses)
  NoJob,                \* preempted_by == 0
  NoResVal,             \* resValPtr == NULL
  Prio,                 \* Queues -> Nat, qPtr->priority
  Preemptable,          \* Queues -> Seq(Queues), qPtr->preemptable in config order
  JobQueue,             \* Jobs -> Queues, jPtr->qPtr
  NumProc,              \* Jobs -> Nat \ {0}, jobBill.numProcessors
  JobHosts,             \* Jobs -> Seq(Hosts), jPtr->hPtr[] once started
  SlotOnly,             \* Jobs -> BOOLEAN, jPtr->newReason == 0
  JobRusage,            \* Jobs -> SUBSET Resources \cup {NoResVal}
  QueueRusage,          \* Queues -> SUBSET Resources \cup {NoResVal}
  PendReasons,          \* Jobs -> SUBSET ReasonBand, bands of jPtr->reasonTb[]
  PreemptableResources, \* mbdParams->preemptableResources, NoResVal if NULL
  MaxPreemptJobs,       \* mbdParams->maxPreemptJobs
  TotalSlots,           \* slots of the cluster
  InitPJL,              \* initial PJL, lowest priority first
  InitSJL,              \* initial SJL, in forward order
  MaxSigFail            \* bound on failed suspend signals

\* Bands of pend reason codes that is_pend_for_license() tells apart:
\* below PEND_HOST_QUE_RUSAGE, in [PEND_HOST_QUE_RUSAGE, PEND_HOST_JOB_RUSAGE),
\* and >= PEND_HOST_JOB_RUSAGE.
ReasonBand == {"other", "hostQueRusage", "hostJobRusage"}

ASSUME /\ NoJob \notin Jobs
       /\ Prio \in [Queues -> Nat]
       /\ \A q \in Queues : Preemptable[q] \in Seq(Queues)
       /\ JobQueue \in [Jobs -> Queues]
       /\ NumProc \in [Jobs -> Nat \ {0}]
       /\ \A j \in Jobs : JobHosts[j] \in Seq(Hosts)
       /\ SlotOnly \in [Jobs -> BOOLEAN]
       /\ PendReasons \in [Jobs -> SUBSET ReasonBand]
       /\ MaxPreemptJobs \in Nat \ {0}
       /\ ToSet(InitPJL) \cap ToSet(InitSJL) = {}
       \* a queue is named at most once in a preemptable list
       /\ \A q \in Queues : IsInjective(Preemptable[q])

VARIABLES
  pjl,            \* jDataList[PJL] from front to back
  sjl,            \* jDataList[SJL] from front to back
  status,         \* jStatus: "PEND", "RUN", "SSUSP" or "DONE"
  preemptedBy,    \* jPtr->preempted_by
  preemptedHosts, \* jPtr->preempted_hosts, front first
  toSuspend,      \* the victim list rl handed back to the master
  sigFail         \* suspend signals that failed so far

vars == <<pjl, sjl, status, preemptedBy, preemptedHosts, toSuspend, sigFail>>

Status == {"PEND", "RUN", "SSUSP", "DONE"}

PreemptiveQueues == {q \in Queues : Preemptable[q] # <<>>}

\* qPtr->numRUN: slots of the queue's running jobs.
NumRUN(q) == MapThenSumSet(LAMBDA j : NumProc[j],
                           {j \in ToSet(sjl) : JobQueue[j] = q /\ status[j] = "RUN"})

UsedSlots == MapThenSumSet(LAMBDA j : NumProc[j], {j \in Jobs : status[j] = "RUN"})

SlotsOf(rl) == MapThenSumSet(LAMBDA j : NumProc[j], ToSet(rl))

-----------------------------------------------------------------------------
(* Trigger eligibility.                                                    *)

\* is_pend_for_slot(): pending, and the last dispatch attempt gave no reason
\* but slots.
IsPendForSlot(j) == status[j] = "PEND" /\ SlotOnly[j]

\* The resource requirement is_pend_for_license() looks at: the job's
\* resValPtr, else its queue's.
\* is_pend_for_license(): that requirement must reserve some resource; the loop over the reserved resources jumps to
\* the label dal whether or not it meets a preemptable one, so only the pend
\* reasons decide.
ResVal(j) ==
  IF JobRusage[j] # NoResVal THEN JobRusage[j] ELSE QueueRusage[JobQueue[j]]

IsPendForLicense(j) ==
  /\ ResVal(j) # NoResVal
  /\ ResVal(j) # {}
  /\ PendReasons[j] \cap {"hostQueRusage", "hostJobRusage"} # {}

CanTrigger(j) ==
  IF PreemptableResources # NoResVal THEN IsPendForLicense(j)
  ELSE IsPendForSlot(j)

\* find_first_pend_job(): the index of the PJL entry nearest the back that
\* belongs to q, 0 when there is none.
FirstPendIndex(q) ==
  LET I == {i \in 1..Len(pjl) : JobQueue[pjl[i]] = q}
  IN IF I = {} THEN 0 ELSE Max(I)

\* The walk backwards over PJL from index i: collect eligible jobs until
\* maxPreemptJobs of them, the sentinel, or a job of another priority.
RECURSIVE CollectFrom(_, _)
CollectFrom(i, jl) ==
  LET j   == pjl[i]
      jl2 == IF CanTrigger(j) THEN Append(jl, j) ELSE jl
  IN IF CanTrigger(j) /\ Len(jl2) >= MaxPreemptJobs THEN jl2
     ELSE IF i = 1 \/ Prio[JobQueue[j]] # Prio[JobQueue[pjl[i - 1]]] THEN jl2
     ELSE CollectFrom(i - 1, jl2)

\* The list jl of jobs that can trigger preemption, highest priority first.
Triggers(q) ==
  IF FirstPendIndex(q) = 0 THEN <<>> ELSE CollectFrom(FirstPendIndex(q), <<>>)

-----------------------------------------------------------------------------
(* Harvesting slots for one trigger.                                       *)

\* The SJL entries the harvest visits for trigger J: for each queue of J's
\* preemptable list in configured order whose numRUN is not 0, the SJL jobs
\* of that queue in forward order.
Walk(J) ==
  LET P == Preemptable[JobQueue[J]]
  IN FlattenSeq([k \in 1..Len(P) |->
       IF NumRUN(P[k]) = 0 THEN <<>>
       ELSE SelectSeq(sjl, LAMBDA v : JobQueue[v] = P[k])])

\* Mutant: the preempted_by > 0 skip dropped.
HarvestableAnyClaim(v, by) == status[v] # "SSUSP"

\* A visited job is taken unless suspended or already claimed: the stamp
\* preempted_by is the claim.  (The JOB_STAT_SIGNAL skip is not modelled:
\* the code that sets the bit is not under src/.)
Harvestable(v, by) == status[v] # "SSUSP" /\ by[v] = NoJob

\* The inner loops: the harvestable jobs of the walk are taken in order and
\* the loops return as soon as the slots taken reach J's demand.
HarvestWalk(J, by) ==
  LET cand   == SelectSeq(Walk(J), LAMBDA v : Harvestable(v, by))
      enough == {k \in 1..Len(cand) : SlotsOf(SubSeq(cand, 1, k)) >= NumProc[J]}
  IN IF enough = {} THEN cand ELSE SubSeq(cand, 1, Min(enough))

\* jPtr2->preempted_by = jPtr->jobId for every job taken.
Stamp(by, rl, J) == [v \in Jobs |-> IF v \in ToSet(rl) THEN J ELSE by[v]]

\* Mutant: the undo pops rl without zeroing preempted_by.
UnclaimKeep(by, rl) == by

\* The undo when not enough slots were harvested: every job popped from rl
\* gets preempted_by = 0 ...
Unclaim(by, rl) == [v \in Jobs |-> IF v \in ToSet(rl) THEN NoJob ELSE by[v]]

\* ... and J's preempted_hosts list is drained.
DrainHosts(hs, J) == [hs EXCEPT ![J] = <<>>]

\* Mutant: the victim itself is pushed in place of its exec hosts.
PushHostsJobs(hs, rl, J) == [hs EXCEPT ![J] = Reverse(rl) \o hs[J]]

\* push_link() of every exec host of every victim, in the order taken.
PushHosts(hs, rl, J) ==
  [hs EXCEPT ![J] = Reverse(FlattenSeq([k \in 1..Len(rl) |-> JobHosts[rl[k]]]))
                    \o hs[J]]

\* Mutant: a harvest one slot short of the demand is taken as enough.
RECURSIVE ElectLoopShort(_, _, _)
ElectLoopShort(jl, by, hs) ==
  IF jl = <<>> THEN [victims |-> <<>>, claims |-> by, hosts |-> hs]
  ELSE
    LET J  == Head(jl)
        rl == HarvestWalk(J, by)
    IN IF rl # <<>> /\ SlotsOf(rl) + 1 >= NumProc[J]
       THEN [victims |-> rl, claims |-> Stamp(by, rl, J),
             hosts |-> PushHosts(hs, rl, J)]
       ELSE ElectLoopShort(Tail(jl), Unclaim(Stamp(by, rl, J), rl),
                           DrainHosts(PushHosts(hs, rl, J), J))

\* The loop over the triggers jl: the first one that harvests enough wins,
\* each one before it is rolled back.
RECURSIVE ElectLoop(_, _, _)
ElectLoop(jl, by, hs) ==
  IF jl = <<>> THEN [victims |-> <<>>, claims |-> by, hosts |-> hs]
  ELSE
    LET J  == Head(jl)
        rl == HarvestWalk(J, by)
    IN IF SlotsOf(rl) >= NumProc[J]
       THEN [victims |-> rl, claims |-> Stamp(by, rl, J),
             hosts |-> PushHosts(hs, rl, J)]
       ELSE ElectLoop(Tail(jl), Unclaim(Stamp(by, rl, J), rl),
                      DrainHosts(PushHosts(hs, rl, J), J))

-----------------------------------------------------------------------------
(* Actions.                                                                *)

Init ==
  /\ pjl = InitPJL
  /\ sjl = InitSJL
  /\ status = [j \in Jobs |-> IF j \in ToSet(InitPJL) THEN "PEND"
                              ELSE IF j \in ToSet(InitSJL) THEN "RUN"
                              ELSE "DONE"]
  /\ preemptedBy = [j \in Jobs |-> NoJob]
  /\ preemptedHosts = [j \in Jobs |-> <<>>]
  /\ toSuspend = {}
  /\ sigFail = 0

\* The outcome of one call of prm_elect_preempt(q, rl, ...) in the current
\* state.
ElectResult(q) == ElectLoop(Triggers(q), preemptedBy, preemptedHosts)

\* One call of prm_elect_preempt(q, rl, ...) in a scheduling tick; the
\* victims it returns are handed to the master to be suspended.
Elect(q) ==
  /\ q \in PreemptiveQueues
  /\ preemptedBy' = ElectResult(q).claims
  /\ preemptedHosts' = ElectResult(q).hosts
  /\ toSuspend' = toSuspend \cup ToSet(ElectResult(q).victims)
  /\ UNCHANGED <<pjl, sjl, status, sigFail>>

\* ENABLED <<Elect(q)>>_vars, stated as a state predicate: a call would
\* change the claims, the preempted hosts or the victim list.
ElectChanges(q) ==
  /\ q \in PreemptiveQueues
  /\ \/ ElectResult(q).claims # preemptedBy
     \/ ElectResult(q).hosts # preemptedHosts
     \/ ~(ToSet(ElectResult(q).victims) \subseteq toSuspend)

\* The suspend signal reaches a victim still running: it becomes SSUSP and
\* gives up its slots.
SuspendOk(v) ==
  /\ v \in toSuspend
  /\ status[v] = "RUN"
  /\ status' = [status EXCEPT ![v] = "SSUSP"]
  /\ toSuspend' = toSuspend \ {v}
  /\ UNCHANGED <<pjl, sjl, preemptedBy, preemptedHosts, sigFail>>

\* Sending the suspend signal fails (always so for a job that has ended
\* meanwhile): the master clears the victim's preempted_by; it may be
\* elected again on a later tick.
SuspendFail(v) ==
  /\ v \in toSuspend
  /\ status[v] = "RUN" => sigFail < MaxSigFail
  /\ preemptedBy' = [preemptedBy EXCEPT ![v] = NoJob]
  /\ toSuspend' = toSuspend \ {v}
  /\ sigFail' = IF status[v] = "RUN" THEN sigFail + 1 ELSE sigFail
  /\ UNCHANGED <<pjl, sjl, status, preemptedHosts>>

\* The scheduler starts the pending job nearest the back of PJL whose slots
\* are free; it moves from PJL to SJL.
Dispatch(j) ==
  LET fits == {i \in 1..Len(pjl) : NumProc[pjl[i]] <= TotalSlots - UsedSlots}
  IN /\ fits # {}
     /\ j = pjl[Max(fits)]
     /\ pjl' = RemoveAt(pjl, Max(fits))
     /\ sjl' = Append(sjl, j)
     /\ status' = [status EXCEPT ![j] = "RUN"]
     /\ UNCHANGED <<preemptedBy, preemptedHosts, toSuspend, sigFail>>

\* A running job ends and leaves SJL.
Finish(j) ==
  /\ status[j] = "RUN"
  /\ status' = [status EXCEPT ![j] = "DONE"]
  /\ sjl' = Remove(sjl, j)
  /\ UNCHANGED <<pjl, preemptedBy, preemptedHosts, toSuspend, sigFail>>

\* A preempted job is resumed once the job that preempted it has ended and
\* its slots are free again; preempted_by is zeroed.
Resume(v) ==
  /\ status[v] = "SSUSP"
  /\ preemptedBy[v] # NoJob
  /\ status[preemptedBy[v]] = "DONE"
  /\ NumProc[v] <= TotalSlots - UsedSlots
  /\ status' = [status EXCEPT ![v] = "RUN"]
  /\ preemptedBy' = [preemptedBy EXCEPT ![v] = NoJob]
  /\ UNCHANGED <<pjl, sjl, preemptedHosts, toSuspend, sigFail>>

Next ==
  \/ \E q \in Queues : Elect(q)
  \/ \E v \in Jobs : SuspendOk(v) \/ SuspendFail(v) \/ Resume(v)
  \/ \E j \in Jobs : Dispatch(j) \/ Finish(j)

\* The master runs the elector on every tick and the scheduler dispatches
\* on every tick; a signal sent is eventually delivered or fails.  Jobs
\* need not finish.  The elector's weak fairness is written out as
\* []<>~ENABLED \/ []<>taken, with ENABLED given by ElectChanges.
Fairness ==
  /\ \A q \in Queues : []<>~ElectChanges(q) \/ []<><<Elect(q)>>_vars
  /\ \A v \in Jobs : WF_vars(SuspendOk(v) \/ SuspendFail(v))
  /\ \A j \in Jobs : WF_vars(Dispatch(j))

Spec == Init /\ [][Next]_vars /\ Fairness

-----------------------------------------------------------------------------
(* Properties.                                                             *)

TypeOK ==
  /\ pjl \in Seq(Jobs) /\ sjl \in Seq(Jobs)
  /\ status \in [Jobs -> Status]
  /\ preemptedBy \in [Jobs -> Jobs \cup {NoJob}]
  /\ \A j \in Jobs : preemptedHosts[j] \in Seq(Hosts)
  /\ toSuspend \subseteq Jobs
  /\ sigFail \in 0..MaxSigFail


\* The claim and the master's victim list agree: a job carries a
\* preempted_by stamp exactly while its suspension is pending or it is
\* suspended for its trigger.  Broken by a rollback that leaves a stamp
\* behind (libpreempt.c:263-264) or a victim handed back unstamped.
ClaimIsPending ==
  \A v \in Jobs :
    preemptedBy[v] # NoJob <=> (v \in toSuspend \/ status[v] = "SSUSP")

\* No victim is selected twice: the elector never moves a stamp from one
\* trigger to another; a stamp is only ever set on an unclaimed job or
\* cleared (the preempted_by > 0 skip, libpreempt.c:202-203).
NoDoubleClaim ==
  [][\A v \in Jobs :
       preemptedBy[v] # NoJob => preemptedBy'[v] \in {preemptedBy[v], NoJob}]_vars

Abs == INSTANCE ElectorSpec WITH claims <- preemptedBy

\* Preempt implements the elector's promise of spec 4.2, ElectorSpec: each
\* call of prm_elect_preempt() either leaves every claim as it was, the
\* claims of the rolled back triggers undone, or stamps with one pending
\* trigger a set of running, unclaimed jobs of the trigger's preemptable
\* queues whose slots cover its demand.  It rests on the harvest loop's
\* slot test, the skips of claimed and suspended jobs, the walk over the
\* preemptable queues only, and the rollback.
ElectorRefinesSpec == Abs!Spec

\* Triggers newly stamped by a step: the jobs J that some victim's
\* preempted_by names after the step and not before.
NewlyClaimedBy == {preemptedBy'[v] : v \in {w \in Jobs : preemptedBy'[w] # preemptedBy[w]
                                                     /\ preemptedBy'[w] # NoJob}}

\* Spec 4.2: "If no trigger can be satisfied, victims is empty and no
\* state is mutated."  The rollback of prm_elect_preempt() drains ALL of
\* the trigger's preempted_hosts (libpreempt.c:265-266), also the hosts a
\* successful election of the same still pending trigger pushed on an
\* earlier tick.
ElectionFailureMutatesNothing ==
  [][\A q \in Queues :
       (Elect(q) /\ ElectResult(q).victims = <<>>)
         => UNCHANGED <<preemptedBy, preemptedHosts>>]_vars

\* Spec 4.2: the elector for queue Q collects pending jobs "belonging to
\* Q".  The walk over PJL (libpreempt.c:86-141) stops only at another
\* priority, so an election of q may claim victims for a job of another
\* queue of the same priority.
ElectServesOwnQueue ==
  [][\A q \in Queues : Elect(q) => \A J \in NewlyClaimedBy : JobQueue[J] = q]_vars

\* Spec 4.2: resource-driven preemption needs a resource of the trigger
\* that "appears in preemptableResources".  In is_pend_for_license() both
\* ends of the resource loop reach the label dal (libpreempt.c:350-355), so
\* a job pending on any reserved resource triggers preemption.
LicenseTriggerNeedsPreemptableResource ==
  [][PreemptableResources # NoResVal =>
       \A J \in NewlyClaimedBy : ResVal(J) \cap PreemptableResources # {}]_vars

====
