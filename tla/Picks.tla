------------------------------- MODULE Picks --------------------------------
(***************************************************************************)
(* What a walk over a list picks out of it: the elements at the places I   *)
(* of s, in their order.                                                   *)
(***************************************************************************)
EXTENDS Naturals, FiniteSets

Nth(I, k) == CHOOSE i \in I : Cardinality({q \in I : q <= i}) = k

Picked(s, I) == [k \in 1 .. Cardinality(I) |-> s[Nth(I, k)]]

=============================================================================
