------------------------------ MODULE ProcUsage ------------------------------
(***************************************************************************)
(* The process-tree usage harvest ls_getprocusage() of                    *)
(* src/lsf/lstools/lsgetpid.c (spec 4.5), as one call over a process       *)
(* table.  The call reads every /proc/<pid>/stat with get_proc_info(),     *)
(* selects the wanted processes (the pid and its direct children), adds    *)
(* the processes sharing a process group with a wanted one, and sums      *)
(* their usage in make_prusage().  The usage of a process is its rss in    *)
(* pages and its utime in jiffies; swap and stime are converted and summed *)
(* by the same code.                                                       *)
(*                                                                         *)
(* /proc changes under the scan: a process listed by readdir() may exit    *)
(* before its stat file is opened.  get_proc_info() then returns -1        *)
(* without storing anything, and the loop builds the record from its       *)
(* uninitialised locals; the build keeps them in the same stack slots, so  *)
(* they hold what the previous iteration stored.                           *)
(*                                                                         *)
(* get_proc_info() does not check what fscanf() matched.  The format skips *)
(* the command name and the state with %*s%*s, so a command name with a    *)
(* blank, "(tmux: server)", leaves a word where %d expects the ppid: the   *)
(* pid is stored and nothing after it.  ppid, pgid, rss and utime keep the *)
(* previous iteration's values, which the normalisation then converts a    *)
(* second time.                                                            *)
(***************************************************************************)
EXTENDS Naturals, Sequences, SequencesExt, FiniteSets

CONSTANTS
  Pids,            \* the pids of the table, listed by readdir() in order
  InitPid,         \* pid 1, the first entry of /proc; it never exits
  P,               \* the pid asked for
  Self,            \* getpid() of the caller
  Tables,          \* the process tables: Pids -> [ppid, pgid]
  RssOf,           \* resident set of each pid, in pages
  UtimeOf,         \* user time of each pid, in jiffies
  Page,            \* sysconf(_SC_PAGESIZE)
  Jifs,            \* sysconf(_SC_CLK_TCK)
  OpendirMayFail,  \* opendir(PROC_DIR) may fail
  ReadMayFail,     \* a process may exit between readdir() and fopen()
  CommMayHaveBlank \* a command name may contain a blank

ASSUME /\ InitPid \in Pids /\ P \in Pids /\ Self \in Pids
       /\ Page \in Nat \ {0} /\ Jifs \in Nat \ {0}
       /\ {OpendirMayFail, ReadMayFail, CommMayHaveBlank} \subseteq BOOLEAN

VARIABLES
  table,       \* the process table during the call
  pc,          \* "call", "done"
  pru,         \* the jRusage returned, or NoPru for NULL
  readFailed,  \* history: some stat file was gone when read
  shortParse   \* history: some stat line stopped matching after the pid

vars == <<table, pc, pru, readFailed, shortParse>>

NoPru == [mem |-> -1, utime |-> -1, pids |-> <<>>, pgids |-> {}]

\* The record of a read that never happened: the first entry is InitPid,
\* which never exits, so no record is built from it.
NoRec == [pid |-> 0, ppid |-> 0, pgid |-> 0, mem |-> 0, utime |-> 0]

-----------------------------------------------------------------------------
(* get_proc_info(): the stat fields, normalised.  rss * page is a float    *)
(* product of a power of two, so ceil() of it over 1024 is exact.          *)

CeilDiv(a, b) == (a + b - 1) \div b

ProcInfo(q) ==
  [pid |-> q, ppid |-> table[q].ppid, pgid |-> table[q].pgid,
   mem |-> CeilDiv(RssOf[q] * Page, 1024), utime |-> UtimeOf[q] \div Jifs]

\* The short match of a command name with a blank: the pid of q, the
\* previous locals normalised again.
ShortInfo(q, last) ==
  [pid |-> q, ppid |-> last.ppid, pgid |-> last.pgid,
   mem |-> CeilDiv(last.mem * Page, 1024), utime |-> last.utime \div Jifs]

\* /proc lists the pids in ascending order.
DirOrder == SetToSortSeq(Pids, <)

\* The readdir() loop: one record per entry, pushed on all_pids.  The
\* stat file of a pid in gone has disappeared, and the record repeats the
\* previous iteration's locals; the stat line of a pid in blank matches
\* only up to the pid.
ScanProcs(gone, blank) ==
  FoldLeft(LAMBDA acc, q :
             LET r == CASE q \in gone  -> acc.last
                        [] q \in blank -> ShortInfo(q, acc.last)
                        [] OTHER       -> ProcInfo(q)
             IN [last |-> r, all |-> <<r>> \o acc.all],
           [last |-> NoRec, all |-> <<>>], DirOrder).all

\* The first traversal: the pid and its direct children, not the caller.
Wanted(all) ==
  SelectSeq(all, LAMBDA r : r.pid # Self /\ (r.pid = P \/ r.ppid = P))

\* Mutant: the second traversal does not skip the caller.
DetachedNoSelfSkip(all, wanted) ==
  FoldLeft(LAMBDA acc, w :
             IF w.pgid \in acc.seen THEN acc
             ELSE [seen |-> acc.seen \cup {w.pgid},
                   det |-> acc.det \o
                           SelectSeq(all, LAMBDA r : r.pgid = w.pgid
                                        /\ r.pid # P /\ r.ppid # P)],
           [seen |-> {}, det |-> <<>>], wanted)

\* Mutant: the second traversal does not skip the wanted processes.
DetachedNoWantedSkip(all, wanted) ==
  FoldLeft(LAMBDA acc, w :
             IF w.pgid \in acc.seen THEN acc
             ELSE [seen |-> acc.seen \cup {w.pgid},
                   det |-> acc.det \o
                           SelectSeq(all, LAMBDA r : r.pgid = w.pgid
                                        /\ r.pid # Self)],
           [seen |-> {}, det |-> <<>>], wanted)

\* The second traversal: for each pgid of a wanted process, installed once
\* in ppgid_tab, every process of that group that is neither wanted nor
\* the caller.  seen is the hash table, det is ppgid_pids.
Detached(all, wanted) ==
  FoldLeft(LAMBDA acc, w :
             IF w.pgid \in acc.seen THEN acc
             ELSE [seen |-> acc.seen \cup {w.pgid},
                   det |-> acc.det \o
                           SelectSeq(all, LAMBDA r : r.pgid = w.pgid
                                        /\ r.pid # P /\ r.ppid # P
                                        /\ r.pid # Self)],
           [seen |-> {}, det |-> <<>>], wanted)

\* Mutant: pru comes from malloc(), and the sums start from what the heap
\* held (HeapJunk).
HeapJunk == -100
MakePrusageNoZero(x, y, t) ==
  LET v == x \o y
  IN [mem |-> FoldLeft(LAMBDA s, r : s + r.mem, HeapJunk, v),
      utime |-> FoldLeft(LAMBDA s, r : s + r.utime, HeapJunk, v),
      pids |-> [i \in 1..Len(v) |-> [pid |-> v[i].pid, ppid |-> v[i].ppid,
                                      pgid |-> v[i].pgid]],
      pgids |-> t]

\* Mutant: only the first list is summed.
MakePrusageWantedOnly(x, y, t) ==
  [mem |-> FoldLeft(LAMBDA s, r : s + r.mem, 0, x),
   utime |-> FoldLeft(LAMBDA s, r : s + r.utime, 0, x),
   pids |-> [i \in 1..Len(x) |-> [pid |-> x[i].pid, ppid |-> x[i].ppid,
                                   pgid |-> x[i].pgid]],
   pgids |-> t]

\* make_prusage(): sum the usage of both lists, one pidInfo per record,
\* the pgids of the hash table.
MakePrusage(x, y, t) ==
  LET v == x \o y
  IN [mem |-> FoldLeft(LAMBDA s, r : s + r.mem, 0, v),
      utime |-> FoldLeft(LAMBDA s, r : s + r.utime, 0, v),
      pids |-> [i \in 1..Len(v) |-> [pid |-> v[i].pid, ppid |-> v[i].ppid,
                                      pgid |-> v[i].pgid]],
      pgids |-> t]

-----------------------------------------------------------------------------

Init ==
  /\ table \in Tables
  /\ pc = "call"
  /\ pru = NoPru
  /\ readFailed = FALSE
  /\ shortParse = FALSE

\* The pids whose stat file may be gone when read.
Vanishable == IF ReadMayFail THEN Pids \ {InitPid, Self} ELSE {}

\* The pids whose command name may have a blank; init's has none.
Blankable == IF CommMayHaveBlank THEN Pids \ {InitPid} ELSE {}

\* One call of ls_getprocusage(P).
GetProcUsage ==
  /\ pc = "call"
  /\ \/ /\ OpendirMayFail
        /\ pru' = NoPru
        /\ UNCHANGED <<readFailed, shortParse>>
     \/ \E gone \in SUBSET Vanishable, blank \in SUBSET Blankable :
          LET all == ScanProcs(gone, blank)
              wanted == Wanted(all)
              d == Detached(all, wanted)
          IN /\ pru' = MakePrusage(wanted, d.det, d.seen)
             /\ readFailed' = (gone # {})
             /\ shortParse' = (blank \ gone # {})
  /\ pc' = "done"
  /\ UNCHANGED table

Next == GetProcUsage

Spec == Init /\ [][Next]_vars

-----------------------------------------------------------------------------
(* The reference: the set definition of spec 4.5 over the table.           *)

SpecWanted == {q \in Pids : (q = P \/ table[q].ppid = P) /\ q # Self}

SpecDetached ==
  {q \in Pids \ SpecWanted :
     table[q].pgid \in {table[w].pgid : w \in SpecWanted} /\ q # Self}

SpecCovered == SpecWanted \cup SpecDetached

PidInfo(q) == [pid |-> q, ppid |-> table[q].ppid, pgid |-> table[q].pgid]

\* rss_KB = ceil(rss * page_size / 1024) and utime_s = utime / CLK_TCK.
SpecKB == [q \in Pids |-> CHOOSE k \in 0..((RssOf[q] * Page) \div 1024 + 1) :
                            k * 1024 >= RssOf[q] * Page
                            /\ (k - 1) * 1024 < RssOf[q] * Page]
SpecSecs == [q \in Pids |-> CHOOSE s \in 0..UtimeOf[q] :
                              s * Jifs <= UtimeOf[q] /\ UtimeOf[q] < (s + 1) * Jifs]

-----------------------------------------------------------------------------
(* Properties.                                                             *)

TypeOK ==
  /\ table \in [Pids -> [ppid : Nat, pgid : Nat]]
  /\ pc \in {"call", "done"}
  /\ \/ pru = NoPru
     \/ pru \in [mem : Nat, utime : Nat,
                pids : Seq([pid : Pids, ppid : Nat, pgid : Nat]),
                pgids : SUBSET Nat]
  /\ readFailed \in BOOLEAN
  /\ shortParse \in BOOLEAN

\* Spec 4.5: when every stat file was read and matched in full,
\* ls_getprocusage() reports each
\* process of the pid, its children and their process groups exactly once,
\* never the caller, sums their normalised usage, and lists the pgids of
\* the wanted processes.  It rests on the second traversal skipping the
\* processes the first one took and the caller, and on make_prusage()
\* merging both lists.
HarvestMatchesSpec ==
  pc = "done" /\ pru # NoPru /\ ~readFailed /\ ~shortParse =>
    /\ ToBag(pru.pids) = SetToBag({PidInfo(q) : q \in SpecCovered})
    /\ pru.mem = SumFunctionOnSet(SpecKB, SpecCovered)
    /\ pru.utime = SumFunctionOnSet(SpecSecs, SpecCovered)
    /\ pru.pgids = {table[w].pgid : w \in SpecWanted}

\* Even when processes exit under the scan, every record reported is that
\* of a process the spec covers, and never the caller's: the record built
\* from the stale locals of a vanished process's iteration repeats a real
\* process, and the wanted and group tests still apply to it.  It is
\* stated for stat lines that matched in full: a short match pairs a pid
\* with the previous process's ppid and pgid.
HarvestSound ==
  pc = "done" /\ pru # NoPru /\ ~shortParse =>
    /\ \A i \in 1..Len(pru.pids) : pru.pids[i] \in {PidInfo(q) : q \in SpecCovered}
    /\ pru.pgids \subseteq {table[w].pgid : w \in SpecWanted}

====
