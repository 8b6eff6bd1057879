--------------------------- MODULE OrderQuantities ---------------------------
(***************************************************************************)
(* How many units of a product a list of order lines, or the order_items   *)
(* rows of a set of orders, hold.  A sum is the number of units it counts: *)
(* unit <<i, k>> of a list is the k-th unit of its line i.                 *)
(***************************************************************************)
EXTENDS Integers, FiniteSets, Sequences

CONSTANTS
  MaxInt,     \* largest value of the INT columns stock and quantity
  MaxLines    \* bound: lines of an order

ASSUME SizeAssumption == MaxInt \in Nat /\ MaxLines \in Nat

UnitIds == (1 .. MaxLines) \X (1 .. MaxInt)

UnitsIn(s, p) ==
  {u \in UnitIds :
     u[1] <= Len(s) /\ s[u[1]].product = p /\ u[2] <= s[u[1]].qty}

\* SUM(quantity) of p over the lines s.
Qty(s, p) == Cardinality(UnitsIn(s, p))

UnitsOf(L, S, p) == {v \in S \X UnitIds : v[2] \in UnitsIn(L[v[1]], p)}

\* SUM(quantity) of p over the lines L[o] of the orders o in S.
Total(L, S, p) == Cardinality(UnitsOf(L, S, p))
=============================================================================
