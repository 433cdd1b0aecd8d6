----------------------------- MODULE Selection -----------------------------
(***************************************************************************)
(* A loop that copies some of the elements of a list, in their order.      *)
(* SelectSeq does the same, but its recursive definition is out of reach   *)
(* of a proof; these go by the places of the elements.                     *)
(***************************************************************************)
EXTENDS Naturals, FiniteSets

(* The k-th of some places: k of them, itself included, lie up to it.      *)
NthPlace(places, k) == CHOOSE i \in places : Cardinality(places \cap (1..i)) = k

(* The elements of s at some of its places, and those that pass a test.    *)
Selected(s, places) == [k \in 1..Cardinality(places) |-> s[NthPlace(places, k)]]
Passing(s, test(_)) == Selected(s, {i \in DOMAIN s : test(s[i])})
=============================================================================
