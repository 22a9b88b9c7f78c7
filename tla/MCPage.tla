------------------------------- MODULE MCPage -------------------------------
(***************************************************************************)
(* Instances of Page for TLC: documents A and B and one of the browser, in *)
(* two windows, with two images in A and one in B.                         *)
(***************************************************************************)
EXTENDS Page, TLC

CONSTANTS A, B, about, a, a2, b, c, d

MCDocOf == [i \in Img |-> IF i = b THEN B ELSE A]

MCSymmetry == Permutations(Cont) \cup Permutations({a, a2})

=============================================================================
