------------------------------ MODULE MCImages ------------------------------
(* Instances of Images for TLC. *)
EXTENDS ImagesInv, TLC

CONSTANTS p1, p2, t1, t2, w1, i1, i2, i3

Symmetry == Permutations(Handlers) \cup Permutations(Images)
=============================================================================
