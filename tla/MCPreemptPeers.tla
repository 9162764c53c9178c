-------------------------- MODULE MCPreemptPeers --------------------------
(***************************************************************************)
(* Two queues of the same priority 2, Qa and Qb, both allowed to preempt   *)
(* Ql.  Qa's pending job Ja waits for some reason other than slots; Qb's   *)
(* job Jb, nearer the front of PJL, waits on slots.  Two one-slot Ql jobs  *)
(* fill the two slots of the cluster.                                      *)
(***************************************************************************)
EXTENDS Preempt

CONSTANTS Ja, Jb, V1, V2, Qa, Qb, Ql, H1, H2

MCJobs == {Ja, Jb, V1, V2}
MCQueues == {Qa, Qb, Ql}
MCHosts == {H1, H2}
MCPrio == (Qa :> 2) @@ (Qb :> 2) @@ (Ql :> 1)
MCPreemptable == (Qa :> <<Ql>>) @@ (Qb :> <<Ql>>) @@ (Ql :> <<>>)
MCJobQueue == (Ja :> Qa) @@ (Jb :> Qb) @@ (V1 :> Ql) @@ (V2 :> Ql)
MCNumProc == [j \in MCJobs |-> 1]
MCJobHosts == (Ja :> <<H1>>) @@ (Jb :> <<H2>>) @@ (V1 :> <<H1>>) @@ (V2 :> <<H2>>)
MCSlotOnly == [j \in MCJobs |-> j # Ja]
MCJobRusage == [j \in MCJobs |-> NoResVal]
MCQueueRusage == [q \in MCQueues |-> NoResVal]
MCPendReasons == [j \in MCJobs |-> {"other"}]
MCInitPJL == <<Jb, Ja>>
MCInitSJL == <<V1, V2>>
====
