------------------------------- MODULE Launch -------------------------------
(***************************************************************************)
(* The parallel launcher lsb_launch() of src/lsbatch/lib/lsb.launch.c,     *)
(* with the remote tasks it starts.  One remote task per host of the list  *)
(* is started with ls_rtask(); the monitor loop then polls every task with *)
(* a non-blocking ls_rwaittid(), fetches the usage of the running ones     *)
(* with ls_getrusage(), and while any task is active sends the compacted   *)
(* usage to the local sbatchd, sleeps and polls again.                     *)
(*                                                                         *)
(* The remote tasks run on other hosts and end at any time, between any    *)
(* two steps of the launcher.  A usage snapshot is abstracted to its mem   *)
(* value and its pid vector; swap, utime, stime and the pgid vector are    *)
(* summed and concatenated by the same code.  The reply of sbatchd is only *)
(* logged, so a send is one step whatever its outcome.                     *)
(***************************************************************************)
EXTENDS Naturals, Integers, Sequences, SequencesExt, FiniteSets

CONSTANTS
  N,               \* hosts in host_list
  FirstTid,        \* ls_rtask() returns FirstTid + cc - 1 for host cc
  Snapshots,       \* the jRusage values ls_getrusage() may return
  NoRus,           \* NULL jRusage pointer
  StartMayFail,    \* ls_rtask() may fail
  WaitMayFail,     \* ls_rwaittid() may fail
  RusageMayFail    \* ls_getrusage() may fail

Hosts == 1..N

ASSUME /\ N \in Nat \ {0} /\ FirstTid \in Nat
       /\ \A s \in Snapshots : s.mem \in Nat /\ s.pids \in Seq(Nat)
       /\ NoRus \notin Snapshots
       /\ {StartMayFail, WaitMayFail, RusageMayFail} \subseteq BOOLEAN

VARIABLES
  pc,         \* "start", "poll", "done" (returned 0), "failed" (returned -1)
  cc,         \* the loop index
  tasks,      \* tasks[]: task ids, -1 once complete
  jrus,       \* jrus[]: the last usage snapshot of each task, or NoRus
  remote,     \* the remote task of each host: "none", "run", "exited"
  lastFrame,  \* the last usage frame sent to sbatchd, NoFrame before any
  abandoned   \* history: the tasks given up after a failed call

vars == <<pc, cc, tasks, jrus, remote, lastFrame, abandoned>>

NoFrame == [mem |-> -1, pids |-> <<>>]

-----------------------------------------------------------------------------
(* compact_rusage(): sum the scalars of every non-NULL snapshot and        *)
(* concatenate their vectors, in task order.                               *)

\* Mutant: the loops stop one task short.
CompactRusageSkipLast(jr) ==
  FoldLeft(LAMBDA acc, i : IF jr[i] = NoRus THEN acc
                           ELSE [mem |-> acc.mem + jr[i].mem, pids |-> acc.pids \o jr[i].pids],
           [mem |-> 0, pids |-> <<>>], [i \in 1..N - 1 |-> i])

CompactRusage(jr) ==
  FoldLeft(LAMBDA acc, i : IF jr[i] = NoRus THEN acc
                           ELSE [mem |-> acc.mem + jr[i].mem, pids |-> acc.pids \o jr[i].pids],
           [mem |-> 0, pids |-> <<>>], [i \in Hosts |-> i])

-----------------------------------------------------------------------------

\* make_tasks(): tasks and jrus from calloc, all 0 and NULL.
Init ==
  /\ pc = "start"
  /\ cc = 1
  /\ tasks = [i \in Hosts |-> 0]
  /\ jrus = [i \in Hosts |-> NoRus]
  /\ remote = [i \in Hosts |-> "none"]
  /\ lastFrame = NoFrame
  /\ abandoned = {}

\* Mutant: the start loop runs one host past the end of the list.
StartTaskPastEnd ==
  /\ pc = "start" /\ cc <= N + 1
  /\ \/ /\ tasks' = [tasks EXCEPT ![cc] = FirstTid + cc - 1]
        /\ remote' = [remote EXCEPT ![cc] = "run"]
        /\ cc' = cc + 1
        /\ UNCHANGED pc
     \/ /\ StartMayFail
        /\ pc' = "failed"
        /\ UNCHANGED <<cc, tasks, remote>>
  /\ UNCHANGED <<jrus, lastFrame, abandoned>>

\* The start loop: ls_rtask() on host cc.  On failure lsb_launch() returns
\* -1 at once.
StartTask ==
  /\ pc = "start" /\ cc <= N
  /\ \/ /\ tasks' = [tasks EXCEPT ![cc] = FirstTid + cc - 1]
        /\ remote' = [remote EXCEPT ![cc] = "run"]
        /\ cc' = cc + 1
        /\ UNCHANGED pc
     \/ /\ StartMayFail
        /\ pc' = "failed"
        /\ UNCHANGED <<cc, tasks, remote>>
  /\ UNCHANGED <<jrus, lastFrame, abandoned>>

\* The start loop ends; the monitor loop begins at task 0.
StartDone ==
  /\ pc = "start" /\ cc > N
  /\ pc' = "poll" /\ cc' = 1
  /\ UNCHANGED <<tasks, jrus, remote, lastFrame, abandoned>>

\* Mark task i complete: tasks[i] = -1, free its usage, jrus[i] = NULL.
Complete(i) ==
  /\ tasks' = [tasks EXCEPT ![i] = -1]
  /\ jrus' = [jrus EXCEPT ![i] = NoRus]

\* One iteration of the poll loop.  A task already complete is skipped.
\* ls_rwaittid() fails (the task is given up), reports the task done, or
\* reports it running; then ls_getrusage() returns a snapshot or fails (the
\* task is given up).
PollTask ==
  /\ pc = "poll" /\ cc <= N
  /\ IF tasks[cc] < 0
     THEN UNCHANGED <<tasks, jrus, abandoned>>
     ELSE \/ /\ WaitMayFail
             /\ Complete(cc)
             /\ abandoned' = abandoned \cup {cc}
          \/ /\ remote[cc] = "exited"
             /\ Complete(cc)
             /\ UNCHANGED abandoned
          \/ /\ remote[cc] = "run"
             /\ \/ /\ \E s \in Snapshots : jrus' = [jrus EXCEPT ![cc] = s]
                   /\ UNCHANGED <<tasks, abandoned>>
                \/ /\ RusageMayFail
                   /\ Complete(cc)
                   /\ abandoned' = abandoned \cup {cc}
  /\ cc' = cc + 1
  /\ UNCHANGED <<pc, remote, lastFrame>>

\* Mutant: the count loop stops one task short.
EndOfPollMissLast ==
  /\ pc = "poll" /\ cc > N
  /\ IF \E i \in 1..N - 1 : tasks[i] > 0
     THEN /\ lastFrame' = CompactRusage(jrus)
          /\ cc' = 1
          /\ UNCHANGED pc
     ELSE /\ pc' = "done"
          /\ UNCHANGED <<cc, lastFrame>>
  /\ UNCHANGED <<tasks, jrus, remote, abandoned>>

\* Mutant: a task counts as active when tasks[cc] != 0.
EndOfPollNonZero ==
  /\ pc = "poll" /\ cc > N
  /\ IF \E i \in Hosts : tasks[i] # 0
     THEN /\ lastFrame' = CompactRusage(jrus)
          /\ cc' = 1
          /\ UNCHANGED pc
     ELSE /\ pc' = "done"
          /\ UNCHANGED <<cc, lastFrame>>
  /\ UNCHANGED <<tasks, jrus, remote, abandoned>>

\* After the poll loop: count the tasks with tasks[cc] > 0.  If any is
\* active, send_rusage() sends compact_rusage() to sbatchd, the launcher
\* sleeps and polls again; else lsb_launch() returns 0.
EndOfPoll ==
  /\ pc = "poll" /\ cc > N
  /\ IF \E i \in Hosts : tasks[i] > 0
     THEN /\ lastFrame' = CompactRusage(jrus)
          /\ cc' = 1
          /\ UNCHANGED pc
     ELSE /\ pc' = "done"
          /\ UNCHANGED <<cc, lastFrame>>
  /\ UNCHANGED <<tasks, jrus, remote, abandoned>>

\* The remote task on host i ends.
TaskExit(i) ==
  /\ remote[i] = "run"
  /\ remote' = [remote EXCEPT ![i] = "exited"]
  /\ UNCHANGED <<pc, cc, tasks, jrus, lastFrame, abandoned>>

Launcher == StartTask \/ StartDone \/ PollTask \/ EndOfPoll

Next ==
  \/ Launcher
  \/ \E i \in Hosts : TaskExit(i)

\* The launcher loop is always able to go on, and a remote task ends: the
\* master bounds it with the job's run limit (spec 5).
Fairness == WF_vars(Launcher) /\ \A i \in Hosts : WF_vars(TaskExit(i))

Spec == Init /\ [][Next]_vars /\ Fairness

-----------------------------------------------------------------------------
(* Properties.                                                             *)

Returned == pc \in {"done", "failed"}

TypeOK ==
  /\ pc \in {"start", "poll", "done", "failed"}
  /\ cc \in 1..N + 1
  /\ tasks \in [Hosts -> Int]
  /\ jrus \in [Hosts -> Snapshots \cup {NoRus}]
  /\ remote \in [Hosts -> {"none", "run", "exited"}]
  /\ abandoned \subseteq Hosts

\* Spec 4.4 and the round trip of spec 8: every frame sent sums the mem of
\* the snapshots of the tasks still live and carries exactly the multiset
\* of their pids, and nothing of a task found complete.  It depends on the
\* poll loop freeing the snapshot of every task it marks complete, and on
\* both loops of compact_rusage() visiting every task.
FrameMatchesSnapshots ==
  pc = "poll" /\ cc = 1 /\ lastFrame # NoFrame =>
    LET live == {i \in Hosts : tasks[i] >= 0}
    IN /\ lastFrame.mem = SumFunctionOnSet([i \in live |-> jrus[i].mem], live)
       /\ ToBag(lastFrame.pids) =
            FoldFunctionOnSet(LAMBDA s, b : ToBag(s.pids) (+) b, EmptyBag, jrus, live)

\* Spec 4.4 and 7: lsb_launch() returns only when every task it started has
\* ended, or was given up after its own ls_rwaittid() or ls_getrusage()
\* failed; a failure of one task abandons that task and siblings continue.
\* The poll loop, which marks tasks complete, and the count loop, which
\* decides to stop, must agree on which tasks are still live.
ReturnsOnlyWhenTasksEnded ==
  Returned => \A i \in Hosts : remote[i] # "run" \/ i \in abandoned

\* The launcher returns.
LaunchReturns == <>Returned

====
