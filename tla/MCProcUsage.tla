---------------------------- MODULE MCProcUsage ----------------------------
(* Five processes: init (1), the pid asked for (2), two processes (3, 4)  *)
(* with any parent and group, and the caller (5), a child of init, of 2   *)
(* or of 3, in group 1, 2 or 5.  Every such table is checked.             *)
EXTENDS ProcUsage, TLC

MCPids == 1..5

MCTables ==
  LET AnyOf(q) == [ppid : (1..5) \ {q}, pgid : 1..5]
  IN { (1 :> [ppid |-> 0, pgid |-> 1]) @@ (2 :> a) @@ (3 :> b) @@ (4 :> c)
         @@ (5 :> s) :
         a \in [ppid : {1}, pgid : {1, 2}], b \in AnyOf(3), c \in AnyOf(4),
         s \in [ppid : {1, 2, 3}, pgid : {1, 2, 5}] }

\* rss of q is q pages; utime of q is 3q jiffies.
MCRss == [q \in MCPids |-> q]
MCUtime == [q \in MCPids |-> 3 * q]
====
