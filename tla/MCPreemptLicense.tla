------------------------- MODULE MCPreemptLicense -------------------------
(***************************************************************************)
(* Resource-driven preemption with preemptableResources = "lic".  Jh of    *)
(* queue Qh (which may preempt Ql) reserves only the resource Scratch and  *)
(* pends in the host-job rusage band; the one-slot Ql jobs V1 and V2 run.  *)
(***************************************************************************)
EXTENDS Preempt

CONSTANTS Jh, V1, V2, Qh, Ql, H1, H2, Lic, Scratch

MCJobs == {Jh, V1, V2}
MCQueues == {Qh, Ql}
MCHosts == {H1, H2}
MCPrio == (Qh :> 2) @@ (Ql :> 1)
MCPreemptable == (Qh :> <<Ql>>) @@ (Ql :> <<>>)
MCJobQueue == (Jh :> Qh) @@ (V1 :> Ql) @@ (V2 :> Ql)
MCNumProc == [j \in MCJobs |-> 1]
MCJobHosts == (Jh :> <<H1>>) @@ (V1 :> <<H1>>) @@ (V2 :> <<H2>>)
MCSlotOnly == [j \in MCJobs |-> FALSE]
MCJobRusage == (Jh :> {Scratch}) @@ (V1 :> NoResVal) @@ (V2 :> NoResVal)
MCQueueRusage == [q \in MCQueues |-> NoResVal]
MCPendReasons == (Jh :> {"hostJobRusage"}) @@ (V1 :> {}) @@ (V2 :> {})
MCInitPJL == <<Jh>>
MCInitSJL == <<V1, V2>>
====
