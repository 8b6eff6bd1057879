------------------------------ MODULE MCCustomer ------------------------------
(* Instances of Customer for TLC. *)
EXTENDS CustomerInv, TLC

CONSTANTS a1, a2, a3, o1, x, y, f1, f2, t1, t2

Symmetry == Permutations(Txs) \cup Permutations(Addresses) \cup Permutations(Contents)
              \cup Permutations(Files)
=============================================================================
