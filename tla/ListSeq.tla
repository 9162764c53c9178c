------------------------------ MODULE ListSeq ------------------------------
(***************************************************************************)
(* What the intrusive list of src/lsf/intlib/list.c promises (spec 4.1),  *)
(* stated over sequences: each list is the sequence of its entries from    *)
(* the front (the sentinel's forw) to the back (the sentinel's back); an   *)
(* entry is in at most one list; push, insert before or after a reference  *)
(* entry, remove and pop change the sequence at the named place only;     *)
(* destroy empties a list, and dup fills an empty list with as many       *)
(* entries, of no list, as the list copied has.                            *)
(* List.tla, the pointer implementation, is checked to refine it.         *)
(***************************************************************************)
EXTENDS Naturals, Sequences, SequencesExt, Functions

CONSTANTS Lists, Ents

VARIABLE seqs   \* Lists -> Seq(Ents)

InList(e) == \E L \in Lists : e \in ToSet(seqs[L])

\* The position of entry r in list L.
PosOf(L, r) == CHOOSE i \in 1..Len(seqs[L]) : seqs[L][i] = r

Init == seqs = [L \in Lists |-> <<>>]

PushFront(L, e) ==
  /\ ~InList(e)
  /\ seqs' = [seqs EXCEPT ![L] = <<e>> \o @]

PushBack(L, e) ==
  /\ ~InList(e)
  /\ seqs' = [seqs EXCEPT ![L] = Append(@, e)]

InsertBefore(L, r, e) ==
  /\ ~InList(e)
  /\ r \in ToSet(seqs[L])
  /\ seqs' = [seqs EXCEPT ![L] = InsertAt(@, PosOf(L, r), e)]

InsertAfter(L, r, e) ==
  /\ ~InList(e)
  /\ r \in ToSet(seqs[L])
  /\ seqs' = [seqs EXCEPT ![L] = InsertAt(@, PosOf(L, r) + 1, e)]

RemoveEnt(L, e) ==
  /\ e \in ToSet(seqs[L])
  /\ seqs' = [seqs EXCEPT ![L] = RemoveAt(@, PosOf(L, e))]

Pop(L) ==
  /\ seqs[L] # <<>>
  /\ seqs' = [seqs EXCEPT ![L] = Tail(@)]

DestroyList(L) == seqs' = [seqs EXCEPT ![L] = <<>>]

DupList(L, N) ==
  /\ seqs[N] = <<>>
  /\ Len(seqs'[N]) = Len(seqs[L])
  /\ IsInjective(seqs'[N]) /\ \A i \in 1..Len(seqs'[N]) : ~InList(seqs'[N][i])
  /\ seqs' = [seqs EXCEPT ![N] = seqs'[N]]

\* Each operation changes one list; that list is found first.
Next ==
  \E L \in Lists :
    /\ seqs'[L] # seqs[L]
    /\ \/ Pop(L) \/ DestroyList(L)
       \/ \E e \in Ents :
            \/ PushFront(L, e) \/ PushBack(L, e) \/ RemoveEnt(L, e)
            \/ \E r \in Ents : InsertBefore(L, r, e) \/ InsertAfter(L, r, e)
       \/ \E S \in Lists : DupList(S, L)

\* The stuttering case is written first: it is the cheap one to evaluate.
Spec == Init /\ [][UNCHANGED seqs \/ Next]_seqs

====
