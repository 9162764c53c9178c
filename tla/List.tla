-------------------------------- MODULE List --------------------------------
(***************************************************************************)
(* The intrusive doubly linked list of src/lsf/intlib/list.c.  A list is  *)
(* its sentinel (LIST_T, whose first fields are forw and back like an      *)
(* entry's); entries embed their own forw and back links.  A calloc'd      *)
(* entry has NULL links.  One iterator (LIST_ITERATOR_T) walks a list      *)
(* forward or backward while the loop body may call the list operations.   *)
(*                                                                         *)
(* The callers' part of the contract is explicit: an entry is inserted     *)
(* only when it is in no list, and removed only from the list it is in;    *)
(* while a list is traversed the body unlinks no entry of it but the       *)
(* current one, nor links it again (spec 4.1).  The constant StaleRemove  *)
(* relaxes the contract the way a caller can: listRemoveEntry() may be     *)
(* called again on an entry already removed, which its NULL check admits.  *)
(***************************************************************************)
EXTENDS Naturals, Integers, Sequences, SequencesExt, FiniteSets, Functions

CONSTANTS
  Lists,        \* list sentinels
  Ents,         \* entries
  Null,         \* NULL
  NoList,       \* the iterator is detached
  StaleRemove,  \* BOOLEAN, see above
  StrLen,       \* Ents -> Nat \cup {NoStr}: strlen of what listCat()'s catFunc returns
  NoStr,        \* catFunc returned NULL
  BufSizes,     \* the bufferSize arguments of listCat() checked
  SizeBits      \* the width of size_t

Nodes == Lists \cup Ents

ASSUME /\ Lists \cap Ents = {}
       /\ Null \notin Nodes /\ NoList \notin Lists
       /\ StaleRemove \in BOOLEAN
       /\ StrLen \in [Ents -> Nat \cup {NoStr}] /\ NoStr \notin Nat
       /\ BufSizes \subseteq Int /\ SizeBits \in Nat \ {0}

VARIABLES
  forw, back,  \* Nodes -> Nodes \cup {Null}: the links
  numEnts,     \* Lists -> Int: list->numEnts
  itList,      \* iter->list
  cur,         \* iter->curEnt
  itDir,       \* the traversal's direction, "fwd" or "bwd"
  visited,     \* history: the entries the traversal has yielded
  stayed,      \* history: the entries in the list from attach until now
  live         \* the lists listCreate() returned and listDestroy() has not freed

listVars == <<forw, back, numEnts>>
vars == <<forw, back, numEnts, itList, cur, itDir, visited, stayed, live>>

\* The nodes met walking forw from L's sentinel until it is met again; the
\* walk is cut after |Ents| + 1 nodes so that a corrupted ring still ends.
RECURSIVE WalkFrom(_, _, _)
WalkFrom(L, x, k) ==
  IF x = L \/ x = Null \/ k = 0 THEN <<>> ELSE <<x>> \o WalkFrom(L, forw[x], k - 1)

Walk(L) == WalkFrom(L, forw[L], Cardinality(Ents) + 1)

Members(L) == IF L \in Lists THEN ToSet(Walk(L)) ELSE {}

InNoList(e) == \A L \in Lists : e \notin Members(L)

-----------------------------------------------------------------------------
(* The list operations, as actions on the links.                           *)

\* Mutant: malloc instead of calloc, numEnts left undefined.
InitMalloc ==
  /\ forw = [x \in Nodes |-> IF x \in Lists THEN x ELSE Null]
  /\ back = forw
  /\ numEnts = [L \in Lists |-> Null]
  /\ itList = NoList
  /\ cur = Null
  /\ itDir = "fwd"
  /\ visited = {}
  /\ stayed = {}
  /\ live = Lists

\* listCreate(): calloc'd sentinel linked to itself, numEnts 0; entries
\* come from calloc with NULL links.
Init ==
  /\ forw = [x \in Nodes |-> IF x \in Lists THEN x ELSE Null]
  /\ back = forw
  /\ numEnts = [L \in Lists |-> 0]
  /\ itList = NoList
  /\ cur = Null
  /\ itDir = "fwd"
  /\ visited = {}
  /\ stayed = {}
  /\ live = Lists

\* Mutant: succ->back = entry stored before succ->back->forw = entry.
InsertBeforeLinksSwapped(L, succ, e) ==
  /\ forw' = [forw EXCEPT ![e] = e]
  /\ back' = [back EXCEPT ![e] = back[succ], ![succ] = e]
  /\ numEnts' = [numEnts EXCEPT ![L] = @ + 1]

\* listInsertEntryBefore(list, succ, entry): the four stores in the code's
\* order (a later store to the same field wins, as in C), on the links
\* l = [f |-> forw, b |-> back].
InsertStores(l, succ, e) ==
  [f |-> [l.f EXCEPT ![e] = succ, ![l.b[succ]] = e],
   b |-> [l.b EXCEPT ![e] = l.b[succ], ![succ] = e]]

\* The stores, then numEnts++.
InsertBeforeLinks(L, succ, e) ==
  LET l == InsertStores([f |-> forw, b |-> back], succ, e)
  IN /\ forw' = l.f
     /\ back' = l.b
     /\ numEnts' = [numEnts EXCEPT ![L] = @ + 1]

\* Mutant: entry->forw->back = entry->back left out.
RemoveEntryForwOnly(L, e) ==
  IF back[e] = Null \/ forw[e] = Null
  THEN UNCHANGED listVars
  ELSE /\ forw' = [forw EXCEPT ![back[e]] = forw[e]]
       /\ UNCHANGED back
       /\ numEnts' = [numEnts EXCEPT ![L] = @ - 1]

\* Mutant: the removed entry's links cleared to NULL.
RemoveEntryClearLinks(L, e) ==
  IF back[e] = Null \/ forw[e] = Null
  THEN UNCHANGED listVars
  ELSE LET f1 == [forw EXCEPT ![back[e]] = forw[e]]
           b1 == [back EXCEPT ![f1[e]] = back[e]]
       IN /\ forw' = [f1 EXCEPT ![e] = Null]
          /\ back' = [b1 EXCEPT ![e] = Null]
          /\ numEnts' = [numEnts EXCEPT ![L] = @ - 1]

\* listRemoveEntry(list, entry): nothing when a link is NULL; else the two
\* stores, the second reading entry->forw after the first, and numEnts--.
\* The entry's own links are left as they were.
RemoveStores(l, e) ==
  LET f1 == [l.f EXCEPT ![l.b[e]] = l.f[e]]
  IN [f |-> f1, b |-> [l.b EXCEPT ![f1[e]] = l.b[e]]]

RemoveEntry(L, e) ==
  IF back[e] = Null \/ forw[e] = Null
  THEN UNCHANGED listVars
  ELSE LET l == RemoveStores([f |-> forw, b |-> back], e)
       IN /\ forw' = l.f
          /\ back' = l.b
          /\ numEnts' = [numEnts EXCEPT ![L] = @ - 1]

\* The callers' contract for inserting e (see the module comment).
MayInsert(e) ==
  /\ InNoList(e)
  /\ ~(itList # NoList /\ e = cur)

\* The callers' contract for removing e from L.
MayRemove(L, e) ==
  \/ back[e] = Null \/ forw[e] = Null
  \/ StaleRemove /\ InNoList(e)
  \/ e \in Members(L) /\ (itList # L \/ e = cur)

InsertEntryBefore(L, succ, e) ==
  /\ MayInsert(e) /\ succ \in Members(L) \cup {L}
  /\ InsertBeforeLinks(L, succ, e)

\* listInsertEntryAfter(): insert before pred->forw.
InsertEntryAfter(L, pred, e) ==
  /\ MayInsert(e) /\ pred \in Members(L)
  /\ InsertBeforeLinks(L, forw[pred], e)

\* listInsertEntryAtFront(): insert before list->forw.
InsertEntryAtFront(L, e) ==
  /\ MayInsert(e)
  /\ InsertBeforeLinks(L, forw[L], e)

\* listInsertEntryAtBack(): insert before the sentinel.
InsertEntryAtBack(L, e) ==
  /\ MayInsert(e)
  /\ InsertBeforeLinks(L, L, e)

RemoveCall(L, e) ==
  /\ MayRemove(L, e)
  /\ RemoveEntry(L, e)

\* Mutant: the front entry unlinked in place, numEnts not decremented.
PopUnlinkOnly(L) ==
  /\ itList = L => forw[L] \in {L, cur}
  /\ IF forw[L] = L THEN UNCHANGED listVars
     ELSE /\ forw' = [forw EXCEPT ![L] = forw[forw[L]]]
          /\ back' = [back EXCEPT ![forw[forw[L]]] = L]
          /\ UNCHANGED numEnts

\* listPop(): NULL on an empty list, else remove list->forw.
Pop(L) ==
  /\ itList = L => forw[L] \in {L, cur}
  /\ IF forw[L] = L THEN UNCHANGED listVars ELSE RemoveEntry(L, forw[L])

\* An entry calloc() may return: in no list, and not the one the traversal
\* is on.
Allocatable(e) == InNoList(e) /\ ~(itList # NoList /\ e = cur)

\* listDestroy()'s loop: while the list is not empty, listRemoveEntry() of
\* list->forw (a front entry with a NULL link is not unlinked; the walk is
\* cut after |Ents| + 1 turns).  n counts the removes that decrement numEnts.
RECURSIVE DrainFrom(_, _, _, _)
DrainFrom(L, l, n, k) ==
  LET e == l.f[L] IN
  IF e = L \/ k = 0 THEN [f |-> l.f, b |-> l.b, n |-> n]
  ELSE IF l.b[e] = Null \/ l.f[e] = Null THEN DrainFrom(L, l, n, k - 1)
  ELSE DrainFrom(L, RemoveStores(l, e), n + 1, k - 1)

\* listDestroy(list, destroy): the loop, each removed entry freed, then the
\* sentinel freed.  A freed entry is memory calloc() may hand out again,
\* with NULL links.  The list must not be the one being traversed.
Destroy(L) ==
  /\ L \in live /\ itList # L
  /\ LET es == Members(L)
         d  == DrainFrom(L, [f |-> forw, b |-> back], 0, Cardinality(Ents) + 1)
     IN /\ forw' = [x \in Nodes |-> IF x \in es THEN Null ELSE d.f[x]]
        /\ back' = [x \in Nodes |-> IF x \in es THEN Null ELSE d.b[x]]
        /\ numEnts' = [numEnts EXCEPT ![L] = @ - d.n]
  /\ live' = live \ {L}

\* listCreate(): a calloc'd sentinel linked to itself, numEnts 0.
Create(L) ==
  /\ L \notin live
  /\ forw' = [forw EXCEPT ![L] = L]
  /\ back' = [back EXCEPT ![L] = L]
  /\ numEnts' = [numEnts EXCEPT ![L] = 0]
  /\ live' = live \cup {L}

\* listDup(list, sizeOfEntry): listCreate() gives the sentinel N; the loop
\* walks list forward and, for the i-th entry, calloc()s c[i], memcpy()s
\* the entry into it (its links included) and listInsertEntryAtBack()s it.
Dup(L, N, c) ==
  LET w     == Walk(L)
      l0    == [f |-> [forw EXCEPT ![N] = N], b |-> [back EXCEPT ![N] = N]]
      cp(l, i) == InsertStores([f |-> [l.f EXCEPT ![c[i]] = l.f[w[i]]],
                                b |-> [l.b EXCEPT ![c[i]] = l.b[w[i]]]], N, c[i])
      l1    == FoldLeft(cp, l0, [i \in 1..Len(w) |-> i])
  IN /\ L \in live /\ N \notin live
     /\ DOMAIN c = 1..Len(w) /\ \A i \in DOMAIN c : Allocatable(c[i])
     /\ forw' = l1.f
     /\ back' = l1.b
     /\ numEnts' = [numEnts EXCEPT ![N] = Len(w)]
     /\ live' = live \cup {N}

-----------------------------------------------------------------------------
(* The iterator: a traversal loop of list2Vector() and listDisplay().      *)

\* listIteratorGetCurEntry(): NULL when curEnt is the iterated list's
\* sentinel; a NULL curEnt is returned as it is.
CurEntry == IF cur = itList THEN Null ELSE cur

\* listGetBackEntry(): NULL on an empty list.
BackEntry(L) == IF forw[L] = L THEN Null ELSE back[L]

\* Mutant: the backward start listIteratorSetCurEntry() left out.
IterAttachFront(L, dir) ==
  /\ itList = NoList /\ L \in live
  /\ itList' = L
  /\ itDir' = dir
  /\ cur' = forw[L]
  /\ visited' = {}
  /\ stayed' = Members(L)
  /\ UNCHANGED <<forw, back, numEnts, live>>

\* listIteratorAttach() (curEnt = list->forw), then for a backward
\* traversal listIteratorSetCurEntry(iter, listGetBackEntry(list), FALSE).
IterAttach(L, dir) ==
  /\ itList = NoList /\ L \in live
  /\ itList' = L
  /\ itDir' = dir
  /\ cur' = IF dir = "fwd" THEN forw[L] ELSE BackEntry(L)
  /\ visited' = {}
  /\ stayed' = Members(L)
  /\ UNCHANGED <<forw, back, numEnts, live>>

\* The loop's increment: listIteratorNext() or listIteratorPrev() after the
\* body has run on the current entry.
IterNext ==
  /\ itList # NoList /\ CurEntry # Null
  /\ cur' = IF itDir = "fwd" THEN forw[cur] ELSE back[cur]
  /\ visited' = visited \cup {cur}
  /\ UNCHANGED <<forw, back, numEnts, itList, itDir, stayed, live>>

\* listIteratorSetCurEntry(iter, e, TRUE), called by the loop body: the
\* iterator itself walks from listGetFrontEntry() until the sentinel
\* looking for e; found, curEnt = e, else curEnt is restored (-1).  The
\* loop's increment then steps off e, so the traversal goes on with the
\* entries past e.  On an empty list the walk starts at NULL and
\* dereferences it unless e is NULL; the caller does not seek there.
IterSeek(e) ==
  /\ itList # NoList /\ CurEntry # Null /\ forw[itList] # itList
  /\ LET w     == Walk(itList)
         found == e \in ToSet(w)
         past  == {w[j] : j \in {j \in 1..Len(w) :
                     \E i \in 1..Len(w) : w[i] = e /\ IF itDir = "fwd" THEN j > i ELSE j < i}}
     IN /\ cur' = IF found THEN e ELSE cur
        /\ visited' = IF found THEN {} ELSE visited
        /\ stayed' = IF found THEN past ELSE stayed
  /\ UNCHANGED <<forw, back, numEnts, itList, itDir, live>>

\* The loop ends when listIteratorGetCurEntry() returns NULL;
\* listIteratorDetach().
IterDetach ==
  /\ itList # NoList /\ CurEntry = Null
  /\ itList' = NoList
  /\ cur' = Null
  /\ UNCHANGED <<forw, back, numEnts, itDir, visited, stayed, live>>

\* A list operation, called by the loop body if a traversal is on; the
\* history keeps the entries that stayed in the traversed list.
ListOp ==
  /\ \/ \E L \in live :
          /\ \/ Pop(L)
             \/ \E e \in Ents :
                  \/ InsertEntryAtFront(L, e) \/ InsertEntryAtBack(L, e) \/ RemoveCall(L, e)
                  \/ \E x \in Nodes : InsertEntryBefore(L, x, e) \/ InsertEntryAfter(L, x, e)
          /\ UNCHANGED live
     \/ \E L \in Lists : Destroy(L) \/ Create(L)
     \/ \E L, N \in Lists :
          \E c \in Injection(1..Len(Walk(L)), {e \in Ents : Allocatable(e)}) : Dup(L, N, c)
  /\ UNCHANGED <<itList, cur, itDir, visited>>
  /\ stayed' = stayed \cap Members(itList)'

-----------------------------------------------------------------------------
(* listCat(): the traversal of list2Vector() whose body appends catFunc's  *)
(* string to the buffer while it fits.  LIST_TRAVERSE_FORWARD is 1 and     *)
(* LIST_TRAVERSE_BACKWARD 2 (list.h); direction 0 is forward.              *)

\* (size_t) x.
SizeT(x) == x % (2 ^ SizeBits)

\* The entries met walking back from e until the sentinel or NULL.
RECURSIVE WalkBackFrom(_, _, _)
WalkBackFrom(L, x, k) ==
  IF x = L \/ x = Null \/ k = 0 THEN <<>> ELSE <<x>> \o WalkBackFrom(L, back[x], k - 1)

\* The entries the loop yields: from list->forw along forw, or from
\* listGetBackEntry() along back.
CatWalk(L, direction) ==
  IF direction \in {0, 1} THEN Walk(L)
  ELSE WalkBackFrom(L, BackEntry(L), Cardinality(Ents) + 1)

\* Mutant: the test against bufferSize instead of bufferSize - 1.
RECURSIVE CatFromNoNul(_, _, _)
CatFromNoNul(w, bufferSize, curSize) ==
  IF w = <<>> THEN curSize
  ELSE LET n == StrLen[w[1]] IN
       IF n = NoStr THEN CatFromNoNul(Tail(w), bufferSize, curSize)
       ELSE IF SizeT(curSize + n) > SizeT(bufferSize) THEN curSize
       ELSE CatFromNoNul(Tail(w), bufferSize, curSize + n)

\* The loop body: a NULL string is skipped (continue), a string that does
\* not fit ends the loop (break), the comparison of curSize + strlen(str)
\* with bufferSize - 1 is done in size_t; the result is curSize, the
\* length of the string left in the buffer.
RECURSIVE CatFrom(_, _, _)
CatFrom(w, bufferSize, curSize) ==
  IF w = <<>> THEN curSize
  ELSE LET n == StrLen[w[1]] IN
       IF n = NoStr THEN CatFrom(Tail(w), bufferSize, curSize)
       ELSE IF SizeT(curSize + n) > SizeT(bufferSize - 1) THEN curSize
       ELSE CatFrom(Tail(w), bufferSize, curSize + n)

Cat(L, direction, bufferSize) == CatFrom(CatWalk(L, direction), bufferSize, 0)

\* What listCat() is for: the longest run of the list's strings, from the
\* front or from the back, that fits in the buffer with its NUL.
CatReference(L, direction, bufferSize) ==
  LET w    == IF direction \in {0, 1} THEN Walk(L) ELSE Reverse(Walk(L))
      lens == SelectSeq([i \in 1..Len(w) |-> StrLen[w[i]]], LAMBDA n : n # NoStr)
      fits == {FoldSeq(+, 0, p) : p \in {q \in Prefixes(lens) : FoldSeq(+, 0, q) <= bufferSize - 1}}
  IN Max(fits \cup {0})

Next ==
  \/ ListOp
  \/ \E L \in Lists, dir \in {"fwd", "bwd"} : IterAttach(L, dir)
  \/ IterNext
  \/ \E e \in Nodes : IterSeek(e)
  \/ IterDetach

Spec == Init /\ [][Next]_vars

-----------------------------------------------------------------------------
(* Properties.                                                             *)

TypeOK ==
  /\ forw \in [Nodes -> Nodes \cup {Null}]
  /\ back \in [Nodes -> Nodes \cup {Null}]
  /\ numEnts \in [Lists -> Int]
  /\ itList \in Lists \cup {NoList}
  /\ cur \in Nodes \cup {Null}
  /\ itDir \in {"fwd", "bwd"}
  /\ visited \subseteq Nodes /\ stayed \subseteq Ents
  /\ live \subseteq Lists

\* Spec 8: after any sequence of push, pop, insert and remove, a list's
\* numEnts equals the number of entries met walking forward from its
\* sentinel.  listRemoveEntry() decrements numEnts whenever the entry's
\* links are set, which they still are after an earlier remove.
NumEntsMatchesReachable == \A L \in Lists : numEnts[L] = Len(Walk(L))

\* Every list is a ring of entries through its sentinel whose back links
\* mirror its forw links, and no sentinel of another list is on it.  It is
\* what listInsertEntryBefore() and listRemoveEntry() must keep, whatever
\* order of calls from whatever mix of lists reaches them.
LinksConsistent ==
  \A L \in Lists :
    LET w    == Walk(L)
        n(i) == IF i \in 1..Len(w) THEN w[i] ELSE L
    IN /\ ToSet(w) \subseteq Ents
       /\ \A i \in 1..Len(w) + 1 : forw[n(i - 1)] = n(i) /\ back[n(i)] = n(i - 1)

\* Spec 4.1, the iterator survives the deletion of the current element: a
\* traversal that has ended (listIteratorGetCurEntry() returned NULL) has
\* yielded every entry that was in the list from the attach to the end,
\* though the body unlinked the current entry and linked others meanwhile.
TraversalVisitsStayers ==
  itList # NoList /\ CurEntry = Null => stayed \subseteq visited

\* Every node the iterator is placed on is an entry of the traversed list
\* or its sentinel; only the attach to an empty list yields NULL.  A step
\* of listIteratorNext() or listIteratorPrev() reads the links of a current
\* entry the body may have unlinked: they must still lead into the list.
IterYieldsMember ==
  [][itList' # NoList /\ cur' # cur
       => \/ cur' \in (Members(itList) \cup {itList})'
          \/ itList = NoList /\ cur' = Null]_vars

\* listCat() leaves in the buffer the longest run of the strings, in the
\* direction asked, that fits with its NUL, for every list the operations
\* reach and every bufferSize of BufSizes; the test of curSize + strlen
\* against bufferSize - 1 is done in size_t.
CatMatchesReference ==
  \A L \in Lists, direction \in {0, 1, 2}, bs \in BufSizes :
    Cat(L, direction, bs) = CatReference(L, direction, bs)

\* The pointer list implements the sequence specification ListSeq: every
\* push, insert, remove and pop changes the sequence read by walking the
\* links exactly as the operation promises, and the iterator changes none.
AbsList == INSTANCE ListSeq WITH seqs <- [L \in Lists |-> Walk(L)]

ListRefinesSeq == AbsList!Spec

====
