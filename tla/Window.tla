-------------------------------- MODULE Window --------------------------------
(***************************************************************************)
(* window_ok() of src/lsbatch/daemons/sbd.misc.c: sbatchd asks it, on each *)
(* pass of its job loop, whether a job card may run now.  It caches the    *)
(* answer in jobPtr->active until the wall clock reaches jobPtr->windEdge; *)
(* a job submitted with SUB_WINDOW_SIG is judged WARN_TIME ahead of now    *)
(* while it runs, and is resumed and signalled once when its window        *)
(* closes.                                                                 *)
(*                                                                         *)
(* window_ok() touches only its own card and the clock, so the model is a  *)
(* function of a card, the job's week and the times of the calls.  Time    *)
(* is in ticks: a day is DayLen ticks and the fractional hour of           *)
(* getDayHour() is the tick of the day, so (24.0 - hour) * 3600.0 is       *)
(* DayLen - hour.  getDayHour() and checkWindow() are not under src/ and   *)
(* are written from spec 4.3.1.  The checks quantify over every            *)
(* non-decreasing sequence of call times, which is every order in which    *)
(* sbatchd's loop may reach the card.                                      *)
(***************************************************************************)
EXTENDS Naturals, Sequences, SequencesExt

CONSTANTS
  DayLen,      \* ticks per day
  WarnTime,    \* WARN_TIME, in ticks
  NoWindows,   \* jobPtr->week[day] == NULL
  Weeks,       \* the week schedules checked: day 0..6 -> windows or NoWindows
  MaxTime,     \* the last tick a call may happen at
  MaxCalls     \* the most calls in one sequence

ASSUME DayLen > 0 /\ WarnTime > 0 /\ MaxTime > 0 /\ MaxCalls > 0

\* The card fields window_ok() reads and writes, and what the last call did:
\* its result is active, signalled is jobsig() called, resumed is
\* job_resume() called.  running is JOB_STAT_RUN, sig is SUB_WINDOW_SIG.
Card == [active : BOOLEAN, windEdge : Nat, windWarnTime : Nat, running : BOOLEAN,
         sig : BOOLEAN, signalled : BOOLEAN, resumed : BOOLEAN]

\* getDayHour(): the day of the week and the hour of the day of time t.
GetDayHour(t) == [day |-> (t \div DayLen) % 7, hour |-> t % DayLen]

\* checkWindow(): now before the window moves windEdge to its opening if
\* that is sooner; now inside it sets active and windEdge to its closing;
\* now past it changes nothing.
CheckWindow(dayhour, st, wp, now) ==
  IF dayhour.hour < wp.open
  THEN [st EXCEPT !.windEdge = IF now + wp.open - dayhour.hour < @
                               THEN now + wp.open - dayhour.hour ELSE @]
  ELSE IF dayhour.hour >= wp.close THEN st
  ELSE [st EXCEPT !.active = TRUE, !.windEdge = now + wp.close - dayhour.hour]

\* Mutant: a signalled job judged at now, without the WARN_TIME lead.
CkTimeNoLead(c, now) == now

\* The time the windows are judged at: WARN_TIME ahead for a running
\* signalled job.
CkTime(c, now) == IF c.active /\ c.sig THEN now + WarnTime ELSE now

\* Mutant: the cache kept while windEdge equals the time judged.
CachedAtEdge(c, ckTime) == c.windEdge >= ckTime \/ c.windEdge = 0

\* The cached flag answers while windEdge is ahead of ckTime, or is 0.
Cached(c, ckTime) == c.windEdge > ckTime \/ c.windEdge = 0

\* window_ok(): the cached flag while windEdge is ahead of ckTime (or 0);
\* otherwise the day of ckTime decides: no list is active until the end of
\* the day, a list starts inactive until the end of the day and each
\* window may change that.  A running signalled job that turns inactive
\* is resumed if stopped and signalled, at most once per WARN_TIME.
WindowOk(week, c, now) ==
  LET ckTime  == CkTime(c, now)
      dayhour == GetDayHour(ckTime)
      toDayEnd == [active |-> week[dayhour.day] = NoWindows,
                   windEdge |-> now + DayLen - dayhour.hour]
      st == IF week[dayhour.day] = NoWindows THEN toDayEnd
            ELSE FoldLeft(LAMBDA s, wp : CheckWindow(dayhour, s, wp, now),
                          toDayEnd, week[dayhour.day])
      warn == /\ c.active /\ ~st.active /\ c.sig
              /\ now - c.windWarnTime >= WarnTime
  IN IF Cached(c, ckTime)
     THEN [c EXCEPT !.signalled = FALSE, !.resumed = FALSE]
     ELSE [c EXCEPT !.active = st.active, !.windEdge = st.windEdge,
                    !.windWarnTime = IF warn THEN now ELSE @,
                    !.running = @ \/ warn,
                    !.signalled = warn, !.resumed = warn /\ ~c.running]

\* The cards after each call of a sequence of calls at the given times.
RECURSIVE Calls(_, _, _)
Calls(week, c, times) ==
  IF times = <<>> THEN <<>>
  ELSE LET c1 == WindowOk(week, c, Head(times))
       IN <<c1>> \o Calls(week, c1, Tail(times))

-----------------------------------------------------------------------------
(* The inputs: every non-decreasing sequence of at most MaxCalls call      *)
(* times from 1 to MaxTime; a card as sbatchd starts the job, with its     *)
(* window edge at the start time so that the first call judges it.         *)

RECURSIVE TimesFrom(_, _)
TimesFrom(t, k) ==
  IF k = 0 THEN {<<>>}
  ELSE {<<>>} \cup UNION {{<<u>> \o s : s \in TimesFrom(u, k - 1)} : u \in t..MaxTime}

Times == TimesFrom(1, MaxCalls) \ {<<>>}

StartCards ==
  {[active |-> a, windEdge |-> 1, windWarnTime |-> 0, running |-> r, sig |-> g,
    signalled |-> FALSE, resumed |-> FALSE] : a \in BOOLEAN, r \in BOOLEAN, g \in BOOLEAN}

\* Spec 4.3.1: t lies in a window of its day, or its day has no list.
InWindow(week, t) ==
  LET dh == GetDayHour(t) IN
  \/ week[dh.day] = NoWindows
  \/ \E i \in DOMAIN week[dh.day] : week[dh.day][i].open <= dh.hour
                                    /\ dh.hour < week[dh.day][i].close

-----------------------------------------------------------------------------
(* Properties.                                                             *)

\* For a job without SUB_WINDOW_SIG, every call of window_ok() answers
\* whether now lies in a run window of its day (spec 4.3.1 and its tests:
\* an empty week is always open, [8, 17) is closed at 07:59:59 and open at
\* 08:00:01), although most calls return the flag cached at an earlier
\* call: windEdge must never let a stale answer through, across window
\* edges and midnight.
WindowOkMatchesSchedule ==
  \A week \in Weeks, c \in StartCards, times \in Times :
    ~c.sig =>
      LET r == Calls(week, c, times) IN
      \A i \in DOMAIN times : r[i].active = InWindow(week, times[i])

\* For a job with SUB_WINDOW_SIG, a call that keeps it running (active
\* before and after) is made at least WARN_TIME before its window closes:
\* the job is stopped and warned ahead of the close, also when the answer
\* comes from the cache filled by a call that judged it at now.
ActiveAheadOfClose ==
  \A week \in Weeks, c \in StartCards, times \in Times :
    c.sig =>
      LET r == Calls(week, c, times) IN
      \A i \in DOMAIN times :
        (IF i = 1 THEN c.active ELSE r[i - 1].active) /\ r[i].active
          => InWindow(week, times[i] + WarnTime)

====
