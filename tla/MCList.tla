------------------------------- MODULE MCList -------------------------------
(* Two lists and three entries for TLC.  catFunc returns a 2-character     *)
(* string for E1, NULL for E2 and a 1-character one for E3; the buffers    *)
(* of listCat() are 1 to 4 bytes, so that a string fills one exactly,     *)
(* one overflows it, and an empty buffer takes nothing.                    *)
EXTENDS List, TLC

CONSTANTS L1, L2, E1, E2, E3

MCLists == {L1, L2}
MCEnts == {E1, E2, E3}
\* The two lists start alike and no property names one of them.
ListSymmetry == Permutations(MCLists)

MCStrLen == (E1 :> 2) @@ (E2 :> NoStr) @@ (E3 :> 1)

====
