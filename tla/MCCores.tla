------------------------------ MODULE MCCores ------------------------------
(***************************************************************************)
(* A host of four cores.  Queue Qs has a 50% share (two cores) and two     *)
(* jobs p1, p2 that share them; queue Qx has no share and jobs p3 and p4  *)
(* that ask for two and one free cores.  The daemon may restart twice.     *)
(***************************************************************************)
EXTENDS Cores

CONSTANTS p1, p2, p3, p4, Qs, Qx

MCPids == {p1, p2, p3, p4}
MCQueues == {Qs, Qx}
MCPidQueue == (p1 :> Qs) @@ (p2 :> Qs) @@ (p3 :> Qx) @@ (p4 :> Qx)
MCNumCpu == (p1 :> 1) @@ (p2 :> 1) @@ (p3 :> 2) @@ (p4 :> 1)
MCShares == (Qs :> {50}) @@ (Qx :> {0})

\* Qs is reconfigured between 50% and 75% while its jobs run.
MCSharesReconfig == (Qs :> {50, 75}) @@ (Qx :> {0})

\* Both queues have shares: Qs 75% (three cores), Qx 50% (two cores).
MCSharesTwoQueues == (Qs :> {75}) @@ (Qx :> {50})
====
