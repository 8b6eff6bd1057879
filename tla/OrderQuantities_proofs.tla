------------------------ MODULE OrderQuantities_proofs ------------------------
(* What Qty and Total of OrderQuantities return, for every list and set.   *)
EXTENDS OrderQuantities, FiniteSetTheorems, TLAPS

\* Every set of units is finite, so that counting it gives a number.
LEMMA UnitIdsFinite == IsFiniteSet(UnitIds)
  <1>1. IsFiniteSet(1 .. MaxLines) /\ IsFiniteSet(1 .. MaxInt)
    BY FS_Interval, SizeAssumption
  <1>2. QED
    BY <1>1, FS_Product DEF UnitIds

LEMMA QtyType ==
  ASSUME NEW s, NEW p
  PROVE  IsFiniteSet(UnitsIn(s, p)) /\ Qty(s, p) \in Nat
  <1>1. UnitsIn(s, p) \in SUBSET UnitIds
    BY DEF UnitsIn
  <1>2. IsFiniteSet(UnitsIn(s, p))
    BY <1>1, UnitIdsFinite, FS_Subset
  <1>3. QED
    BY <1>2, FS_CardinalityType DEF Qty

\* A list without the product holds none of it.
LEMMA QtyZero ==
  ASSUME NEW s, NEW p, Len(s) \in Nat,
         \A i \in 1 .. Len(s) : s[i].product # p
  PROVE  Qty(s, p) = 0
  <1>1. \A u \in UnitIds : u[1] \in 1 .. MaxLines
    BY DEF UnitIds
  <1>2. UnitsIn(s, p) = {}
    BY <1>1, SizeAssumption DEF UnitsIn
  <1>3. QED
    BY <1>2, FS_EmptySet DEF Qty

\* The units of one line are as many as its quantity.
LEMMA LineUnits ==
  ASSUME NEW i, NEW n \in 0 .. MaxInt
  PROVE  /\ IsFiniteSet({i} \X (1 .. n))
         /\ Cardinality({i} \X (1 .. n)) = n
  <1>1. n \in Int /\ n >= 0
    BY SizeAssumption
  <1>2. IsFiniteSet(1 .. n) /\ Cardinality(1 .. n) = n
    BY <1>1, FS_Interval
  <1>3. IsFiniteSet({i}) /\ Cardinality({i}) = 1
    BY FS_Singleton
  <1>4. Cardinality({i} \X (1 .. n)) = 1 * n
    BY <1>2, <1>3, FS_Product
  <1>5. QED
    BY <1>1, <1>2, <1>3, <1>4, FS_Product

\* A line's quantity is part of the quantity of its product in the list, and
\* all of it when no other line has that product.
LEMMA QtyOfLine ==
  ASSUME NEW s, NEW i \in 1 .. MaxLines, Len(s) \in Nat, i <= Len(s),
         s[i].qty \in 1 .. MaxInt
  PROVE  /\ s[i].qty <= Qty(s, s[i].product)
         /\ (\A j \in 1 .. Len(s) : s[j].product = s[i].product => j = i)
              => Qty(s, s[i].product) = s[i].qty
  <1> DEFINE p == s[i].product
             L == {i} \X (1 .. s[i].qty)
  <1>1. IsFiniteSet(L) /\ Cardinality(L) = s[i].qty
    <2>1. s[i].qty \in 0 .. MaxInt
      BY SizeAssumption
    <2>2. QED
      BY <2>1, LineUnits
  <1>2. \A u \in L : u \in UnitIds /\ u[1] = i /\ u[2] <= s[i].qty
    BY SizeAssumption DEF UnitIds
  <1>3. L \in SUBSET UnitsIn(s, p)
    BY <1>2 DEF UnitsIn
  <1>4. Cardinality(L) <= Cardinality(UnitsIn(s, p))
    BY <1>3, QtyType, FS_Subset
  <1>5. ASSUME \A j \in 1 .. Len(s) : s[j].product = p => j = i
        PROVE  Qty(s, p) = s[i].qty
    <2>1. \A u \in UnitIds : u[1] \in 1 .. MaxLines /\ u[2] \in 1 .. MaxInt /\ u = <<u[1], u[2]>>
      BY DEF UnitIds
    <2>2. \A u \in UnitsIn(s, p) : u[1] = i /\ u[2] \in 1 .. s[i].qty
      BY <1>5, <2>1, SizeAssumption DEF UnitsIn
    <2>3. UnitsIn(s, p) \subseteq L
      BY <2>1, <2>2 DEF UnitsIn
    <2>4. UnitsIn(s, p) = L
      BY <1>3, <2>3
    <2>5. QED
      BY <1>1, <2>4 DEF Qty
  <1>6. QED
    BY <1>1, <1>4, <1>5 DEF Qty

\* A list grows by the quantity of the line appended.
LEMMA QtyAppend ==
  ASSUME NEW R, NEW s \in Seq(R), NEW l \in R, NEW p,
         Len(s) < MaxLines, l.qty \in 1 .. MaxInt
  PROVE  Qty(Append(s, l), p) = Qty(s, p) + (IF l.product = p THEN l.qty ELSE 0)
  <1> DEFINE n == Len(s) + 1
             a == Append(s, l)
             new == IF l.product = p THEN l.qty ELSE 0
             L == {n} \X (1 .. new)
  <1>1. /\ Len(s) \in Nat /\ Len(a) = n /\ a[n] = l /\ n \in 1 .. MaxLines
        /\ \A j \in 1 .. Len(s) : a[j] = s[j]
    BY SizeAssumption
  <1>2. new \in 0 .. MaxInt
    BY SizeAssumption
  <1>3. IsFiniteSet(L) /\ Cardinality(L) = new
    BY <1>2, LineUnits
  <1>4. \A u \in UnitIds : u[1] \in 1 .. MaxLines /\ u[2] \in 1 .. MaxInt /\ u = <<u[1], u[2]>>
    BY DEF UnitIds
  <1>5. ASSUME NEW u \in UnitIds
        PROVE  u \in UnitsIn(a, p) <=> u \in UnitsIn(s, p) \/ u \in L
    <2> DEFINE i == u[1]
    <2>1. CASE i <= Len(s)
      <3>1. i \in 1 .. Len(s) /\ i # n
        BY <1>1, <1>4, <2>1, SizeAssumption
      <3>2. u \notin L
        BY <3>1
      <3>3. a[i] = s[i] /\ i <= Len(a)
        BY <1>1, <3>1
      <3>4. QED
        BY <2>1, <3>2, <3>3 DEF UnitsIn
    <2>2. CASE i = n
      <3>1. ~ (i <= Len(s)) /\ i <= Len(a) /\ a[i] = l
        BY <1>1, <2>2
      <3>2. u \in L <=> u[2] <= new
        BY <1>2, <1>4, <2>2, SizeAssumption
      <3>3. u[2] <= new <=> l.product = p /\ u[2] <= l.qty
        BY <1>4, SizeAssumption
      <3>4. QED
        BY <3>1, <3>2, <3>3 DEF UnitsIn
    <2>3. CASE i > n
      <3>1. ~ (i <= Len(s)) /\ ~ (i <= Len(a)) /\ i # n
        BY <1>1, <1>4, <2>3, SizeAssumption
      <3>2. QED
        BY <3>1 DEF UnitsIn
    <2>4. QED
      BY <1>1, <1>4, <2>1, <2>2, <2>3, SizeAssumption
  <1>6. L \subseteq UnitIds
    BY <1>1, <1>2, SizeAssumption DEF UnitIds
  <1>7. UnitsIn(a, p) = UnitsIn(s, p) \cup L
    BY <1>5, <1>6 DEF UnitsIn
  <1>8. UnitsIn(s, p) \cap L = {}
    BY <1>1 DEF UnitsIn
  <1>9. Cardinality(UnitsIn(s, p) \cap L) = 0
    BY <1>8, FS_EmptySet
  <1>10. Cardinality(UnitsIn(a, p)) =
           Cardinality(UnitsIn(s, p)) + Cardinality(L) - Cardinality(UnitsIn(s, p) \cap L)
    BY <1>3, <1>7, QtyType, FS_Union
  <1>11. Qty(s, p) \in Nat
    BY QtyType
  <1>12. QED
    BY <1>2, <1>3, <1>9, <1>10, <1>11, SizeAssumption DEF Qty

LEMMA TotalType ==
  ASSUME NEW L, NEW S, NEW p, IsFiniteSet(S)
  PROVE  IsFiniteSet(UnitsOf(L, S, p)) /\ Total(L, S, p) \in Nat
  <1>1. IsFiniteSet(S \X UnitIds)
    BY UnitIdsFinite, FS_Product
  <1>2. UnitsOf(L, S, p) \in SUBSET (S \X UnitIds)
    BY DEF UnitsOf
  <1>3. IsFiniteSet(UnitsOf(L, S, p))
    BY <1>1, <1>2, FS_Subset
  <1>4. QED
    BY <1>3, FS_CardinalityType DEF Total

\* The total of one order is the quantity of its lines.
LEMMA TotalOfOne ==
  ASSUME NEW L, NEW o, NEW p
  PROVE  Total(L, {o}, p) = Qty(L[o], p)
  <1> DEFINE U == UnitsIn(L[o], p)
             T == UnitsOf(L, {o}, p)
  <1>1. T = {o} \X U
    BY DEF UnitsOf, UnitsIn
  <1>2. IsFiniteSet({o}) /\ Cardinality({o}) = 1
    BY FS_Singleton
  <1>3. IsFiniteSet(U) /\ Cardinality(U) \in Nat
    BY QtyType DEF Qty
  <1>4. Cardinality({o} \X U) = 1 * Cardinality(U)
    BY <1>2, <1>3, FS_Product
  <1>5. Cardinality({o} \X U) = Cardinality(U)
    BY <1>3, <1>4
  <1>6. QED
    BY <1>1, <1>5, Zenon DEF Total, Qty

\* The totals of disjoint sets of orders add up.
LEMMA TotalOfUnion ==
  ASSUME NEW L, NEW S, NEW T, NEW p,
         IsFiniteSet(S), IsFiniteSet(T), S \cap T = {}
  PROVE  Total(L, S \cup T, p) = Total(L, S, p) + Total(L, T, p)
  <1>1. UnitsOf(L, S \cup T, p) = UnitsOf(L, S, p) \cup UnitsOf(L, T, p)
    BY DEF UnitsOf
  <1>2. UnitsOf(L, S, p) \cap UnitsOf(L, T, p) = {}
    BY DEF UnitsOf
  <1>3. Cardinality(UnitsOf(L, S, p) \cap UnitsOf(L, T, p)) = 0
    BY <1>2, FS_EmptySet
  <1>4. /\ IsFiniteSet(UnitsOf(L, S, p)) /\ Cardinality(UnitsOf(L, S, p)) \in Nat
        /\ IsFiniteSet(UnitsOf(L, T, p)) /\ Cardinality(UnitsOf(L, T, p)) \in Nat
    BY TotalType DEF Total
  <1>5. Cardinality(UnitsOf(L, S, p) \cup UnitsOf(L, T, p)) =
          Cardinality(UnitsOf(L, S, p)) + Cardinality(UnitsOf(L, T, p)) - 0
    BY <1>3, <1>4, FS_Union
  <1>6. Cardinality(UnitsOf(L, S, p) \cup UnitsOf(L, T, p)) =
          Cardinality(UnitsOf(L, S, p)) + Cardinality(UnitsOf(L, T, p))
    BY <1>4, <1>5
  <1>7. QED
    BY <1>1, <1>6, Zenon DEF Total

\* A total depends only on the lines of the orders it sums.
LEMMA TotalSameLines ==
  ASSUME NEW L, NEW M, NEW S, NEW p, \A o \in S : L[o] = M[o]
  PROVE  Total(L, S, p) = Total(M, S, p)
  <1>1. UnitsOf(L, S, p) = UnitsOf(M, S, p)
    BY DEF UnitsOf
  <1>2. QED
    BY <1>1 DEF Total
=============================================================================
