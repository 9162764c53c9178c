---------------------------- MODULE MCHostDaemon ----------------------------
(***************************************************************************)
(* A host of two cores.  Queue Qs has a 50% share (one core) and job p1;  *)
(* queue Qx has no share and job p2 asks for one free core.  Each job may  *)
(* run again once its card is freed.  sbatchd may restart once.  mbatchd   *)
(* may exit twice, with MASTER_RECONFIG, with another exit code, or on a  *)
(* signal of the same number.                                              *)
(* window_ok() is checked on the job cards' week schedules: a day of six   *)
(* ticks, WARN_TIME of two, days 0 and 1 each without a list, with one     *)
(* window, or with two windows two ticks apart, the second ending at       *)
(* midnight; up to four calls in the two days.                             *)
(***************************************************************************)
EXTENDS HostDaemon

CONSTANTS p1, p2, Qs, Qx, NoWindows

MCPids == {p1, p2}
MCQueues == {Qs, Qx}
MCPidQueue == (p1 :> Qs) @@ (p2 :> Qx)
MCNumCpu == (p1 :> 1) @@ (p2 :> 1)
MCShares == (Qs :> {50}) @@ (Qx :> {0})

MCMasterReconfig == 3
MCMasterNull == -1
MCMbdStatuses ==
  {[sig |-> FALSE, val |-> MCMasterReconfig], [sig |-> FALSE, val |-> 9],
   [sig |-> TRUE, val |-> 9]}

MCWin1 == <<[open |-> 1, close |-> 4]>>
MCWin2 == <<[open |-> 0, close |-> 1], [open |-> 3, close |-> 6]>>
MCWeeks ==
  {[d \in 0..6 |-> CASE d = 0 -> a [] d = 1 -> b [] OTHER -> NoWindows] :
     a, b \in {NoWindows, MCWin1, MCWin2}}

Win == INSTANCE Window WITH DayLen <- 6, WarnTime <- 2, Weeks <- MCWeeks,
                            MaxTime <- 12, MaxCalls <- 4

\* The window_ok() properties of Window, over every week of MCWeeks, every
\* start card and every sequence of calls; window_ok() shares no state
\* with the rest of the host daemon, so they are stated of the start.
WindowOkMatchesSchedule == mbdExits = 0 => Win!WindowOkMatchesSchedule
ActiveAheadOfClose == mbdExits = 0 => Win!ActiveAheadOfClose
====
