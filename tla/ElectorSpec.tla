----------------------------- MODULE ElectorSpec -----------------------------
(***************************************************************************)
(* What the preemption elector promises (spec 4.2), without the PJL walk,  *)
(* the harvest order, the rollback or the host lists: an election either   *)
(* changes no claim, or picks one pending trigger J and a set V of running *)
(* jobs of the queues J's queue may preempt, none of them claimed, whose   *)
(* slots cover J's demand, and stamps every job of V with J; V is handed   *)
(* to the master to be suspended.  The master's steps are those of         *)
(* Preempt.tla seen through the job status, the claims and the victim set. *)
(* Preempt.tla is checked to refine it.                                    *)
(***************************************************************************)
EXTENDS Naturals, Sequences, SequencesExt, FiniteSetsExt

CONSTANTS Jobs, NoJob, Preemptable, JobQueue, NumProc

VARIABLES
  status,     \* "PEND", "RUN", "SSUSP" or "DONE"
  claims,     \* preempted_by
  toSuspend   \* the victims not yet suspended

vars == <<status, claims, toSuspend>>

Slots(V) == MapThenSumSet(LAMBDA j : NumProc[j], V)

\* The jobs J may preempt: running, unclaimed, of a queue of J's list.
Preemptible(J) ==
  {v \in Jobs : /\ status[v] = "RUN" /\ claims[v] = NoJob
                /\ JobQueue[v] \in ToSet(Preemptable[JobQueue[J]])}

Init ==
  /\ status \in [Jobs -> {"PEND", "RUN", "DONE"}]
  /\ claims = [j \in Jobs |-> NoJob]
  /\ toSuspend = {}

\* An election that claims V for J.
Claim(J, V) ==
  /\ status[J] = "PEND"
  /\ V # {} /\ V \subseteq Preemptible(J)
  /\ Slots(V) >= NumProc[J]
  /\ claims' = [v \in Jobs |-> IF v \in V THEN J ELSE claims[v]]
  /\ toSuspend' = toSuspend \cup V
  /\ UNCHANGED status

\* The master: a victim is suspended, or its signal fails and its claim is
\* dropped; a suspended job is resumed once its trigger is done; a pending
\* job starts; a running job ends.
Suspend(v) ==
  /\ v \in toSuspend /\ status[v] = "RUN"
  /\ status' = [status EXCEPT ![v] = "SSUSP"]
  /\ toSuspend' = toSuspend \ {v}
  /\ UNCHANGED claims

Unsuspendable(v) ==
  /\ v \in toSuspend
  /\ claims' = [claims EXCEPT ![v] = NoJob]
  /\ toSuspend' = toSuspend \ {v}
  /\ UNCHANGED status

Resume(v) ==
  /\ status[v] = "SSUSP" /\ claims[v] # NoJob /\ status[claims[v]] = "DONE"
  /\ status' = [status EXCEPT ![v] = "RUN"]
  /\ claims' = [claims EXCEPT ![v] = NoJob]
  /\ UNCHANGED toSuspend

Start(j) ==
  /\ status[j] = "PEND"
  /\ status' = [status EXCEPT ![j] = "RUN"]
  /\ UNCHANGED <<claims, toSuspend>>

End(j) ==
  /\ status[j] = "RUN"
  /\ status' = [status EXCEPT ![j] = "DONE"]
  /\ UNCHANGED <<claims, toSuspend>>

Next ==
  \/ \E J \in Jobs, V \in SUBSET Jobs : Claim(J, V)
  \/ \E v \in Jobs : Suspend(v) \/ Unsuspendable(v) \/ Resume(v)
  \/ \E j \in Jobs : Start(j) \/ End(j)

Spec == Init /\ [][Next]_vars

====
