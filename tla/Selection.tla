------------------------------ MODULE Selection ------------------------------
(***************************************************************************)
(* List comprehensions that filter: [x for x in s if x in T].  SelectSeq   *)
(* of the library says the same by recursion; here it is said by the       *)
(* places of the elements that stay, for the provers.                      *)
(***************************************************************************)
EXTENDS Naturals, FiniteSets, Sequences

Rank(P, i) == Cardinality({j \in P : j <= i})
Nth(P, k) == CHOOSE i \in P : Rank(P, i) = k

\* The elements of s at the places P, in the order they have in s.
AtPlaces(s, P) == [k \in 1..Cardinality(P) |-> s[Nth(P, k)]]

Places(s, T) == {i \in 1..Len(s) : s[i] \in T}
Only(s, T) == AtPlaces(s, Places(s, T))
=============================================================================
