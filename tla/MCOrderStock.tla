---------------------------- MODULE MCOrderStock ----------------------------
(* Instances of OrderStock for TLC. *)
EXTENDS OrderStockInv, TLC

CONSTANTS p1, p2, t1, t2, t3, u1, u2, c1

Item(p, n) == [product |-> p, qty |-> n]

\* Two products in opposite orders.
OppositeRequests == {<<Item(p1, 1), Item(p2, 1)>>, <<Item(p2, 1), Item(p1, 1)>>}
\* A list with a product twice and one with a bad quantity.
RepeatRequests == {<<Item(p1, 2), Item(p1, 1)>>, <<Item(p1, 0)>>}

HandlerSymmetry == Permutations(Handlers)
=============================================================================
