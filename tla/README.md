# TLA+ models of the openlava scheduling, host daemon and launcher core

This directory holds TLA+ models of the C sources under `src/`. Each model
is checked with TLC. `PROJECT.json` lists every component, run, mutant,
finding and hazard. It also gives the source lines each definition
translates (`map`).

## The system and its parts

| Part | Source | State it keeps | Operations |
|---|---|---|---|
| Preemption elector | `src/lsbatch/daemons/libpreempt.c` | none of its own. It writes `preempted_by` on jobs and `preempted_hosts` on the trigger. | `prm_elect_preempt`, `find_first_pend_job`, `is_pend_for_slot`, `is_pend_for_license` |
| Master around the elector | not under `src/` (spec 4.2, 5) | PJL, SJL, job status, the victims handed back | dispatch, suspend signal (delivered or failed), finish, resume |
| Core binding and queue shares | `sbd.misc.c` 336-642 | `cores[].bound`, `coreSharesTab` | `init_cores`, `find_free_core`, `bind_to_core`, `free_core`, `find_bound_core`, `get_core_shares`, `set_core_shares` |
| Run windows | `sbd.misc.c` 56-102 | per job card: `active`, `windEdge`, `windWarnTime` | `window_ok` |
| Child reaping | `sbd.misc.c` 122-215 | `mbdExitCnt`, `mbdExitVal`, `lastMbdExitVal`, job-card reap fields, `need_checkfinish` | `child_handler` (a signal handler) |
| Parallel launcher | `src/lsbatch/lib/lsb.launch.c`, `src/lsbatch/cmd/blaunch.c` | `tasks[]`, `jrus[]`; in `blaunch`, `host_list` and `command` | `lsb_launch` start loop and monitor loop, `compact_rusage`, `send_rusage`; `blaunch`'s getopt loop, `get_host_list`, `get_host_list_from_file`, `get_hosts_from_arg`, `build_command` |
| Process usage harvest | `src/lsf/lstools/lsgetpid.c` | none; it reads a snapshot of `/proc` | `ls_getprocusage`, `make_prusage` |
| Intrusive list | `src/lsf/intlib/list.c` | sentinel, `forw`/`back` links, `numEnts`, iterator `curEnt` | create, destroy, dup, insert before/after/front/back, remove, pop, cat, iterator attach/seek/next/prev/detach |
| `bjobs` | `src/lsbatch/cmd/bjobs.c` | none | display only |

How the parts interact:

- On every scheduling tick the master calls the elector once per
  preemptive queue. The elector stamps the victims it returns. The master
  then suspends them through the host daemons.
- A suspend signal is delivered later, or it fails. Until then the victims
  still run, and the trigger is still pending.
- On each host, the host daemon binds job processes to cores. It reaps
  children, including the master daemon it spawned, in a SIGCHLD handler.
  It also gates jobs by their run windows.
- `blaunch` starts remote tasks through `lsb_launch`. `lsb_launch` polls
  them and sends aggregated usage to the local host daemon.

## Modules

### Preempt (`Preempt.tla`; instances `MCPreempt`, `MCPreemptPeers`, `MCPreemptLicense`)

The module state:

- `pjl` and `sjl` are the two job lists, from front to back.
- `status` is the job status.
- `preemptedBy` and `preemptedHosts` are the fields the elector writes.
- `toSuspend` holds the victims whose suspend signal is in flight.
- `sigFail` bounds the signals that fail.

The elector is made of operators:

- `CanTrigger`, `IsPendForSlot` and `IsPendForLicense` decide trigger eligibility.
- `FirstPendIndex` and `CollectFrom` are the backward walk of PJL. `Triggers` is its result.
- `Walk`, `Harvestable` and `HarvestWalk` are the harvest over the preemptable queues and SJL.
- `Stamp`, `PushHosts`, `Unclaim` and `DrainHosts` are the writes and the rollback.
- `ElectLoop` is the loop over the triggers.

One call of `prm_elect_preempt` is the atomic action `Elect(q)`, because
a master tick runs to completion (spec 5). The actions `SuspendOk`,
`SuspendFail`, `Dispatch`, `Finish` and `Resume` are the master code,
which is not under `src/`. They are modelled from the spec.

`Elect`'s weak fairness is written out as `[]<>~ElectChanges(q) \/
[]<><<Elect(q)>>_vars`. `ElectChanges(q)` is the state predicate that
`ENABLED <<Elect(q)>>_vars` stands for. Stated this way, TLC does not have
to evaluate the recursive elector under `ENABLED`.

`ElectorSpec.tla` is the elector's promise from spec 4.2. It has no PJL
walk, no harvest order, no rollback and no host lists. An election there
does one of two things:

- it changes no claim; or
- it picks a pending trigger `J` and a set of running, unclaimed jobs of
  `J`'s preemptable queues whose slots cover `J`'s demand, and stamps
  them with `J`.

Its master steps are `Preempt`'s, seen through `status`, the claims and
the victim set. `Preempt` instantiates it with `claims <- preemptedBy`,
and `ElectorRefinesSpec` checks `Abs!Spec`.

### Cores (`Cores.tla`; instances `MCCores`, and `MCHostDaemon` through `HostDaemon`)

The module state:

- `bound` is `cores[].bound`.
- `shareTab` is `coreSharesTab`.
- `pstate` and `held` record the running job processes and the cores each
  is bound to.
- `restarts` bounds daemon restarts.

The sbd.misc.c routines are operators. `StartJob`, `FinishJob` and
`RestartSbd` are the callers of those routines in sbatchd, modelled from
spec 4.3.3:

- `StartJob` covers share selection, free-core selection, and binding,
  including the case where the binding fails.
- `FinishJob` frees the job's cores.
- `RestartSbd` zeroes the table, then calls `find_bound_core` and
  `set_core_shares` for each running bound job, in job-list order.

### HostDaemon (`HostDaemon.tla`; instance `MCHostDaemon`)

`HostDaemon` puts `Cores` inside sbatchd, with `child_handler` as a signal
handler that can interrupt the main loop. It takes `Cores` with
`C == INSTANCE Cores`, and its `StartJob`, `FinishJob` and `RestartSbd`
are `Cores`' actions with the card list and the processes added.

The module state:

- `forw` and `back` are the links of the job-card list `jobQueHead`. A
  card not allocated has `Null` links. `Init` is `mkListHeader`.
- `mpc` is the main loop's position inside an `inList` or `offList`.
  Each store of those functions (`InListStore`, `OffListStore`) is one
  step, so the handler can run between any two of them.
- `proc` is the OS view of each job process: none, alive or zombie.
- `collected` and `notReported` are the card fields the handler writes.
  `needCheckfinish` is `need_checkfinish`. `seen` holds the cards the
  main loop's finish pass took.
- `sigPending` is a pending SIGCHLD, and `inHandler` says the handler is
  running. Signals coalesce: an exit while one is pending adds nothing.
- `mbd`, `mbdStatus`, `mbdExitVal`, `lastMbdExitVal` and `mbdExitCnt`
  are mbatchd as a child of sbatchd, and its exit bookkeeping.

The handler's actions come from `sbd.misc.c` 122-215:

- `HandlerEnter` is the delivery of the signal.
- Each `wait3` that returns a child is `ReapMbd` or `ReapJob`.
  - `ReapMbd` covers the cap, the repeat count and the
    `MASTER_RECONFIG` restart.
  - `ReapJob` walks `jobQueHead->forw` (`Cards`), marks the card and
    sets `need_checkfinish`.
- `HandlerExit` is the `wait3` that returns 0.

The main loop is modelled from spec 4.3.2 and 5, since it is not under
`src/`. Its actions are:

- `NewCard`, then `ListStep`s, for `inList(jobQueHead, card)`;
- `StartJob`;
- `CheckFinish`, which clears the flag and takes the collected cards;
- `FinishJob`, which frees the cores and starts `offList`;
- `RestartSbd` and `MbdRestart`.

The OS adds `ProcExit` and `MbdExit`, which mark SIGCHLD pending.

### List (`List.tla`, `ListSeq.tla`; instance `MCList`)

The module state:

- `forw` and `back` are the links of every node. A node is a list sentinel
  or an entry, and `Null` is NULL.
- `numEnts` is each list's counter.
- `itList`, `cur` and `itDir` are one iterator: `iter->list`,
  `iter->curEnt`, and the loop's direction.
- `visited` and `stayed` are history: the entries the traversal yielded,
  and the entries that stayed in the traversed list since the attach (or
  since the seek, past the entry sought).
- `live` is the set of lists `listCreate` returned and `listDestroy` has
  not freed.

Each list operation is an action on the links that follows the C stores
in their order, aliasing included:

- `InsertEntryBefore`, `InsertEntryAfter`, `InsertEntryAtFront` and
  `InsertEntryAtBack` all go through `InsertBeforeLinks`.
- `RemoveCall` and `Pop` go through `RemoveEntry`.
- `Destroy` is `listDestroy`: its loop (`DrainFrom`) removes the front
  entry through the stores of `listRemoveEntry` until the list is empty,
  then the entries and the sentinel are freed. A freed entry comes back
  from a later `calloc` with NULL links.
- `Create` is `listCreate` for a freed sentinel.
- `Dup(L, N, c)` is `listDup`: a new sentinel `N`, and for each entry of
  `L` in order a `calloc`'d copy `c[i]`, its links copied by `memcpy` and
  then rewritten by the stores of `listInsertEntryAtBack`.

The iterator actions are `IterAttach` (the forward start, or the backward
start through `listGetBackEntry`), `IterNext` (next or prev), `IterSeek`
(`listIteratorSetCurEntry` with validation, called by the loop body; the
loop's increment then steps off the entry sought) and `IterDetach`. A traversal interleaves with the list operations its loop
body calls (`ListOp`). `Walk` is `list2Vector`, forward.

The callers' contract is explicit in `MayInsert` and `MayRemove`:

- insert only an entry that is in no list;
- remove only from the list the entry is in;
- during a traversal, unlink only the current entry, and do not link it
  again.

`StaleRemove = TRUE` relaxes the contract to allow a second remove.

`Cat(L, direction, bufferSize)` is `listCat`: the traversal, forward
along `forw` or backward along `back` from `listGetBackEntry`, skipping a
NULL string, stopping at the first string that does not fit. The test
`curSize + strlen(str) > bufferSize - 1` is done in `size_t`, which
`SizeT` models as arithmetic modulo `2^SizeBits`. `StrLen` is what
`catFunc` returns for each entry (a length, or `NoStr` for NULL).
`CatReference` states what the call is for: the largest total of a
prefix of the strings, in the direction asked, that fits with its NUL.

`ListSeq` is the promise of spec 4.1 stated over sequences. `List` is
checked to refine it under the mapping that reads every list along its
`forw` links.

### Launch (`Launch.tla`; instance `MCLaunch`)

The module state:

- `pc` and `cc` are where `lsb_launch` is: the start loop, the monitor
  loop, or returned (0 or -1), and the loop index.
- `tasks` and `jrus` are `tasks[]` and `jrus[]`. A snapshot is abstracted
  to its `mem` and its pid vector; the other scalars and the pgid vector
  are summed and concatenated by the same code.
- `remote` is the state of each remote task: not started, running, or
  exited.
- `lastFrame` is the last `compact_rusage()` result sent to sbatchd.
- `abandoned` is history: the tasks given up after a failed call.

One action per loop iteration:

- `StartTask` is one `ls_rtask()` call, which succeeds or fails.
- `StartDone` enters the monitor loop.
- `PollTask` is one iteration of the poll loop. `ls_rwaittid()` fails,
  reports the task done, or reports it running, and then `ls_getrusage()`
  returns a snapshot or fails.
- `EndOfPoll` is the active count. It is followed by `send_rusage()` and
  the sleep, or by the return.
- `TaskExit(i)` is the remote task ending. It happens between any two
  launcher steps.

### Blaunch (`Blaunch.tla`; instance `MCLaunch`)

`blaunch`'s `main` up to its call of `lsb_launch` keeps no state across
calls, so it is a function, `Blaunch(argv, jobIdSet)`, of the command
line and of whether `LSB_JOBID` is set. Its result is `Fail` (usage or
an error, return -1) or the host list, the command and whether stdin was
closed.

- An argument is the sequence of its blank-separated words; an option is
  a one-word argument such as `<<"-z">>`. A host file is the sequence of
  its lines and whether the last line ends with a newline, or `NoFile`.
- `GetoptFrom` is `getopt(argc, argv, "hVvnz:u:t:")` under
  `POSIXLY_CORRECT`: it stops at the first operand, and `-z`/`-u` take the
  next argument whatever it is. `SwitchFrom` is the switch: the `z` and
  `u` counters, the host list set only while the other option is unseen,
  `-n`, and `-h`/`?`.
- `HostsFromFile` keeps `count_lines`' newline count: a last line with
  no newline gives an unterminated list. A file that fails to open
  leaves `host_list` alone.
- `HostsFromArg` is `get_hosts_from_arg`, and `BuildCommand` is
  `build_command` without the quote stripping.
- `BlaunchSpec` is spec 4.4 written declaratively: the last `-z`, the
  last `-u` file's lines, or the first operand when it resolves and
  neither option is given; the operands after it are the command.

`MCLaunch` composes the two. `B` is an instance over three words (two
resolvable hosts and a command word), and the launcher's `N` is the
length of the host list of `blaunch -z "h1 h2" cmd`.

### Window (`Window.tla`; instance `MCHostDaemon`)

`window_ok` reads and writes only its own job card and the clock. The
model is therefore a function, `WindowOk(week, c, now)`, from a card,
the job's week and the time of the call to the card after the call.
`Calls` applies it to a sequence of call times. The checks range over
every non-decreasing sequence of call times, which covers every order
in which sbatchd's job loop can reach the card.

- Time is in ticks, and a day is `DayLen` ticks. The fractional hour is
  the tick of the day, so `(24.0 - hour) * 3600.0` becomes
  `DayLen - hour`. `GetDayHour` and `CheckWindow` stand for
  `getDayHour` and `checkWindow`, which are not under `src/`. They are
  written from spec 4.3.1.
- `CkTime` is the WARN_TIME lead for a running `SUB_WINDOW_SIG` job.
  `Cached` is the early return on `windEdge`. The rest of `WindowOk` is
  the rest of the function: the day with no list, the window loop, and
  the warn step (resume if stopped, signal, record `windWarnTime`).
- `StartCards` are the cards as a job starts: either `active` flag,
  running or stopped, with or without `SUB_WINDOW_SIG`, and `windEdge`
  at the start time.
- `InWindow` is the reference from the spec: the time lies in a window
  of its day, or the day has no list.

### ProcUsage (`ProcUsage.tla`; instance `MCProcUsage`)

`ls_getprocusage` is one sequential call, so the module has one action,
`GetProcUsage`. It is checked from every process table of `Tables`
against the set definition of spec 4.5 (`SpecWanted`, `SpecDetached`).
The call is made of operators:

- `ScanProcs` is the `readdir` loop, and `ProcInfo` is `get_proc_info`
  with its normalisation.
- `Wanted` and `Detached` are the two traversals. `Detached` also builds
  the pgid hash table.
- `MakePrusage` is `make_prusage`.

A process may exit between `readdir` and the `fopen` of its stat file
(`ReadMayFail`). `get_proc_info` then stores nothing, and the record is
built from the loop's uninitialised locals. The model takes the outcome
the build gives them: the values of the previous iteration. The history
variable `readFailed` records that this happened.

`get_proc_info` does not check how many fields `fscanf` matched
(`CommMayHaveBlank`). The format skips the command name and the state
with `%*s%*s`. A name with a blank, such as `(tmux: server)`, therefore
leaves a word where `%d` expects the ppid. The pid is stored, and
nothing after it. `ShortInfo` is that record. Its ppid and pgid are the
previous iteration's, and its rss and utime are the previous values
normalised a second time. The history variable `shortParse` records
that this happened. Both properties are stated for stat lines that
matched in full. Without that condition TLC finds `HarvestSound`
violated: when P's own line follows init's and matches short, P is
reported with init's ppid 0. An unrelated process read after a child of
P would in the same way be reported as P's child. This is listed as a
hazard (`lsgetpid.c:309`). The run cap leaves no room for a violation
run of its own.

## Runs

| Run | Expect | What it shows |
|---|---|---|
| `preempt_safety` | pass | `ClaimIsPending`: a job is stamped exactly while its suspend is pending or it is suspended. `NoDoubleClaim`: a stamp never moves from one trigger to another. Both hold over all interleavings of two preemptive queues' elections, failed and delivered signals, dispatch, completion and resume. `TopTriggerEventuallyRuns`: the top priority pending job is eventually started, even though no job need finish. `ElectorRefinesSpec`: every election implements `ElectorSpec`. |
| `preempt_drain` | violation | A failed re-election drains the hosts of the trigger's earlier successful claim (spec: a failed election mutates nothing). |
| `preempt_peers` | violation | An election of queue Qa claims victims for a job of queue Qb of the same priority. |
| `preempt_license` | violation | A job reserving only a non-preemptable resource triggers resource-driven preemption. |
| `cores_binding` | pass | Run on `MCHostDaemon`, with the handler interrupting the main loop between any two list stores, coalesced signals, mbatchd exits, failed binds and a restart. `BoundMatchesBindings`: every core's `bound` equals the number of running jobs pinned to it. `WalkEndsAtHead`: the handler's card walk comes back to `jobQueHead` without meeting a NULL link. `LiveJobCardReachable`: the walk reaches the card of every job whose process exists. `ExitedEventuallyReaped`: every exited child, mbatchd included, is reaped. `JobExitFreesCores`: the cores of every exited job are freed. `WindowOkMatchesSchedule`: for a job without `SUB_WINDOW_SIG`, every `window_ok` call answers whether now is in a window of its day, although most answers come from the cache. `ActiveAheadOfClose`: a signalled job that a call keeps running is at least `WARN_TIME` ahead of its window's close, also when the answer is cached. Both are stated of the start state, because `window_ok` shares no state with the rest of the model. |
| `cores_reconfig` | violation | A changed queue share resets `bound` on cores that running jobs are still pinned to. |
| `cores_shares` | violation | Two queues' share entries get the same cores. |
| `list_safety` | pass | Under the callers' contract, every sequence of inserts, removes and pops on two lists does the following. `NumEntsMatchesReachable`: it keeps `numEnts` equal to the entries on the ring (spec 8). `LinksConsistent`: it keeps every ring closed, with back links mirroring forw links. `ListRefinesSeq`: it edits the sequence read along the links as `ListSeq` promises. A forward or backward traversal whose body unlinks the current entry, and links others, yields only entries of the list (`IterYieldsMember`), and all that stayed in it (`TraversalVisitsStayers`), also after a validated seek. Destroy, create and dup keep the same properties. `CatMatchesReference`: `listCat` keeps the longest run of strings that fits the buffer, for buffers of 1 to 4 bytes (with 0, the `size_t` bound wraps and TLC finds it violated). |
| `list_stale_remove` | violation | A second `listRemoveEntry` of an entry already removed passes the NULL check and decrements `numEnts` again. |
| `launch_safety` | pass | This run covers two remote tasks that end at any time, with failures of `ls_rwaittid` and `ls_getrusage`. `FrameMatchesSnapshots`: every frame sent sums exactly the snapshots of the live tasks and carries the multiset of their pids (spec 8). `ReturnsOnlyWhenTasksEnded`: `lsb_launch` returns only when every task has ended or was given up. `LaunchReturns`: it does return. `BlaunchMatchesSpec`: every command line of up to four arguments, with `LSB_JOBID` set or not, is turned into the `lsb_launch` call spec 4.4 names, or fails where the spec says it fails. It is stated for `-u` files that open and end in a newline. Without that condition it is violated, by the two `get_host_list_from_file` hazards. |
| `procusage_harvest` | pass | The run covers every table of five processes and every set of processes exiting under the scan. `HarvestMatchesSpec`: when every stat file was read and matched in full, `ls_getprocusage` reports each process of the pid, its children and their process groups exactly once, and sums their usage (spec 4.5). `HarvestSound`: even when some stat file was gone, it never reports an unrelated process or the caller, for lines that matched in full. Both also range over every set of processes whose command name has a blank. The run takes about 75 s. |
| `launch_start_fail` | violation | When `ls_rtask` fails on the second host, `lsb_launch` returns -1 while the task on the first host still runs. Spec 7 says siblings continue. |

Each property of a passing run has a mutant in `PROJECT.json`. A mutant is
a plausible bug in the definition the property is about, and TLC finds the
property violated with the mutant in place.

## Bounds

- `MCPreempt` has three queues of priorities 3, 2 and 1:
  - `Qh` may preempt `Qm` and then `Ql`.
  - `Qm` may preempt `Ql`.
  - One-slot jobs run in `Qm` and `Ql`.
  - A two-slot job of `Qh` and a one-slot job of `Qm` are pending.
  - There are three slots in all.

  With these bounds the following cases all happen:
  - a harvest across two queues;
  - a partial harvest that is rolled back;
  - an election that competes with a lower queue's claims;
  - a failed signal (`MaxSigFail = 1`);
  - a resume once the trigger is done.
- `MCCores` has four cores, a 50% share queue with two jobs, and a queue
  without shares with two jobs of 2 and 1 cores. It allows two restarts.
  Together these give contention for free cores, share reuse, failed binds,
  and a reclaim with the share entry restored from either job.
- `MCHostDaemon` has two cores and two jobs, one in a 50% share queue and
  one asking for a free core. Each job can run again once its card is
  freed. There is one sbatchd restart. mbatchd exits twice, with
  `MASTER_RECONFIG`, with exit 9 or with signal 9. With two cards, one
  card can be linked or unlinked while the other job's process is
  reaped. Two exits can also coalesce into one signal. The run reaches
  122,996 states in about 55 s. The two violation runs of `Cores` keep
  `MCCores` with four cores.
- `window_ok` is checked in the same run with a day of six ticks and
  `WARN_TIME` of two ticks, over two days. Each of days 0 and 1 has no
  list, one window `[1, 4)`, or two windows `[0, 1)` and `[3, 6)`. The
  gap between those two windows equals `WARN_TIME`, and the second one
  ends at midnight. Each check covers up to four calls between ticks 1
  and 12 and the eight start cards. Four calls are enough to fill the
  cache, cross an edge, be signalled and be called again inside the
  lead.
- `MCList` has two lists and three entries. The iterator can then do the
  following:
  - run over two entries while the third is linked ahead of it;
  - have its current entry unlinked in either direction;
  - attach to an empty list backward (the NULL start);
  - seek to an entry ahead of it or behind it.

  The second list lets an entry leave one list and enter another. It also
  lets a wrong-list remove show itself, and is the target of a
  `listDup` once destroyed. `catFunc` gives E1 two characters, E2 NULL
  and E3 one; buffers of 1 to 4 bytes make a string fill the buffer
  exactly, overflow it by one, and take nothing. The lists are
  symmetric (`ListSymmetry`): they start alike and no property names one.
  The run reaches about 127,000 states in 2.5 minutes.

- `MCLaunch` has two hosts and two snapshots. One snapshot has two pids,
  so a pid occurs twice in one frame and the multiset comparison matters.
  Both calls may fail. With two tasks, one task can end, or be given up,
  while the other still runs. The task ids start at 1. With
  `FirstTid = 0` the id-0 hazard shows: the launcher returns while task 0
  runs.
- `MCLaunch`'s `blaunch` command lines are every sequence of at most four
  arguments from nine: the five options, the empty argument, a resolvable
  host, the two-host list `"h1 h2"` and a command word that does not
  resolve. Four arguments are enough for an option, its argument, a host
  and a command, and for two `-z`/`-u` options in either order. The host
  files are a two-line file, an empty file and files that fail to open.
  That is 7,381 command lines, each checked with and without `LSB_JOBID`.

- `MCProcUsage` has five pids: init (1), the pid asked for (2), the caller
  (5), and two processes (3, 4) of any parent and any group. The caller is
  a child of 1, 2 or 3, in group 1, 2 or 5. There are 7200 tables. They
  include a child that shares the pid's group (the second pass must skip
  it), a grandchild reached only through a group, and the caller in a
  wanted group. Any of 2, 3 and 4 may exit under the scan, and any of 2
  to 5 may have a blank in its command name. That is 195,948 states.

## Fairness

The elector runs on every tick, and the master dispatches on every tick.
A signal sent is eventually delivered or fails. These assumptions give
weak fairness to `Elect`, `Dispatch`, and `SuspendOk \/ SuspendFail`. Jobs
are not required to finish.

`ProcUsage` is one call that returns. It has no fairness, and its run
does not check deadlock.

`Launch` has weak fairness on the launcher's steps: it is a loop that
never blocks, since the wait is `WNOHANG` and the sleep is bounded. Each
remote task has weak fairness to end, because the master bounds it with
the job's run limit (spec 5). `MCLaunch` does not check deadlock, because
the launcher returns.

`HostDaemon` has weak fairness on the handler: a pending signal is
delivered, and the handler runs on to its return. The main loop has weak
fairness on its list stores, the finish pass and each `FinishJob`.
sbatchd's `select` loop has a timeout, so it comes back to them. Once the
finish pass has taken its cards, the main loop finishes them before it
dispatches again, as `job_checking` walks all cards in one pass. Job
exits, dispatch and mbatchd exits are not forced.

The list module has no fairness. A traversal need not end: a loop body
that re-queues each entry at the back of the list it walks keeps the
traversal going. That is the caller's doing, not the list's.

## Not modelled

- NUMA binding: not in `src/`.
- `JOB_STAT_SIGNAL`: the code that sets it is not in `src/`.
- Host reservation via `preempted_hosts`: the dispatch code that reads it
  is not in `src/`.
- Log formatting: `covert_cores_to_str` and the `ls_syslog` calls.
- `bjobs`: display only.
- The argument and `LSB_JOBID` checks at the top of `lsb_launch` (an
  early return before any task), `send2sbd`'s wire encoding (the reply is
  only logged), and `free_rusage`.
- I/O helpers in `sbd.misc.c`.
- In `window_ok`: what `jobsig`'s signal does to the job, since
  `jobsig` and `job_resume` are not under `src/`. A wall clock that
  steps back is also left out; it is a hazard (`sbd.misc.c:68`). The
  function is an operator and not an action of `HostDaemon`'s `Next`,
  because a clock in that state space would multiply it past what the
  run can finish.
- In `blaunch`: `ls_initrex`, `lsb_init` and the log set-up, which are
  library calls not under `src/`; `-v` and `-t`, which only set logging
  and the poll interval; the quote stripping in `build_command` and its
  read of `command[n][l-1]` (`blaunch.c:346`, a hazard); and
  `print_hosts`, `free_hosts` and `free_command`.
- In `child_handler`: the `exitPid` match of helper processes, the
  rusage, `cpuTime` and `w_status` data (the cards record only that they
  were collected), and the `sbd_finish_sleep` delay, which is only time.
- In `lsgetpid.c`: `main`, `print_pru`, `debug_proc` and `free_prusage`;
  the swap and stime fields, which the code converts and sums like rss
  and utime; and the re-parenting of the children of a process that exits
  under the scan.
- In `list.c`: the entry payload `listDup` copies (`StrLen` is fixed per
  node); allocation failure; the validated seek on an empty list, which
  dereferences NULL (listed as a hazard); `listDisplay` and `listDump`,
  traversals whose body only calls a display function or `syslog`; and
  `listIteratorCreate`, `listIteratorDestroy` and
  `listIteratorGetSubjectList`, which only allocate, free or read the
  iterator. The older `inList`/`offList` API is modelled in `HostDaemon`. It builds
sbatchd's job-card list, in code that is not under `src/`.
- Re-election of a trigger whose victims are still being suspended. The
  elector claims a second set for it (a 2-slot job claimed four 1-slot
  victims in an early model). It is listed as a hazard, and
  `NoDoubleClaim` still holds.

## Plan

1. **Preempt.** Done. An instance with a second 1-slot trigger of `Qh`
   and `maxPreemptJobs = 2` makes `TopTriggerEventuallyRuns` fail: the
   2-slot trigger, with one slot free and one 1-slot job to harvest, is
   rolled back on every tick, since its demand is its full
   `numProcessors` (spec 4.2 step 3). It is listed as a hazard
   (`libpreempt.c:167`); the code follows the spec there.
2. **Cores.** Done.
3. **List.** Done, with `listDestroy`, `listCreate`, `listDup`, the
   validated seek and `listCat`.
4. **Launch.** Done. Scenario 4 (no frame when every task ends before
   the first poll) is listed as a hazard. The `blaunch` option parsing and
   host lists are modelled in `Blaunch`. The unreadable `-u` file, whose
   first operand then becomes the host, is listed as a hazard.
5. **ProcUsage.** Done. The read race is a hazard. The property that
   holds under it is `HarvestSound`, and `HarvestMatchesSpec` is stated
   for reads that succeeded. The unchecked `fscanf` short match is
   modelled and listed as a hazard.
6. **HostDaemon.** Done for `child_handler` composed with `Cores`.
   - The `mbdExitCnt` cap (151 after 151 equal exits) and the signal and
     exit-code conflation are modelled, and listed as hazards.
   - `window_ok` is modelled in `Window` and checked in the same run.
7. **ElectorSpec.** Done: `Preempt` refines it in `preempt_safety`.
