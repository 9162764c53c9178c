----------------------------- MODULE MCPreempt -----------------------------
(***************************************************************************)
(* Three queues: Qh (priority 3) may preempt Qm and then Ql, Qm (priority  *)
(* 2) may preempt Ql.  Three one-slot jobs M1 (Qm), V1, V2 (Ql) run on a   *)
(* cluster of three slots; Jh (Qh, two slots) and Jm (Qm, one slot) are    *)
(* pending on slots.  Jh must harvest across two queues.                   *)
(***************************************************************************)
EXTENDS Preempt

CONSTANTS Jh, Jm, M1, V1, V2, Qh, Qm, Ql, H1, H2, H3, Lic

MCJobs == {Jh, Jm, M1, V1, V2}
MCQueues == {Qh, Qm, Ql}
MCHosts == {H1, H2, H3}
MCPrio == (Qh :> 3) @@ (Qm :> 2) @@ (Ql :> 1)
MCPreemptable == (Qh :> <<Qm, Ql>>) @@ (Qm :> <<Ql>>) @@ (Ql :> <<>>)
MCJobQueue == (Jh :> Qh) @@ (Jm :> Qm) @@ (M1 :> Qm) @@ (V1 :> Ql) @@ (V2 :> Ql)
MCNumProc == [j \in MCJobs |-> IF j = Jh THEN 2 ELSE 1]
MCJobHosts == (Jh :> <<H2, H3>>) @@ (Jm :> <<H2>>) @@ (M1 :> <<H1>>)
              @@ (V1 :> <<H2>>) @@ (V2 :> <<H3>>)
MCSlotOnly == [j \in MCJobs |-> TRUE]
MCJobRusage == [j \in MCJobs |-> NoResVal]
MCQueueRusage == [q \in MCQueues |-> NoResVal]
MCPendReasons == [j \in MCJobs |-> {"other"}]
MCInitPJL == <<Jm, Jh>>
MCInitSJL == <<M1, V1, V2>>

\* The highest priority pending job, which may preempt both lower queues,
\* is eventually started although no job need ever finish: the elector's
\* claims, rollbacks and the suspends they cause always free its slots.
\* (Jm may starve: once the Ql jobs are suspended nothing is left for it.)
TopTriggerEventuallyRuns == (status[Jh] = "PEND") ~> (status[Jh] = "RUN")
====
