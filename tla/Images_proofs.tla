---------------------------- MODULE Images_proofs ----------------------------
(***************************************************************************)
(* IInv of ImagesInv is inductive, for every value of the constants, and   *)
(* the safety properties of Images follow.                                 *)
(***************************************************************************)
EXTENDS ImagesInv, SequenceTheorems, FiniteSetTheorems, TLAPS

-----------------------------------------------------------------------------
(* Values                                                                  *)

LEMMA ModelValues ==
  /\ None \notin Products /\ None \notin Txs /\ None \notin Images
  /\ Handlers \subseteq Txs /\ Workers \subseteq Txs
  /\ None \notin Handlers /\ None \notin Workers
  /\ \A t \in Txs : t \in Handlers \/ t \in Workers
  /\ \A t \in Txs : ~(t \in Handlers /\ t \in Workers)
  /\ MaxPerProduct \in Nat \ {0} /\ MaxFaults \in Nat
  BY NoneAssumption, TxAssumption, BoundAssumption DEF Txs

LEMMA IdleFields ==
  /\ Idle \in TxState
  /\ Idle.pc = "idle" /\ Idle.kind = "none" /\ Idle.row = None /\ Idle.image = None
  /\ Idle.previous = None /\ Idle.fresh = FALSE /\ Idle.lead = FALSE
  /\ Idle.existing = None /\ Idle.seen = <<>> /\ Idle.todo = {}
  <1>1. <<>> \in Seq(Images)
    BY EmptySeq
  <1>2. QED
    BY <1>1 DEF Idle, TxState

\* The types of what a request or a worker has in its record.
LEMMA TxFields ==
  ASSUME TypeOK, NEW s \in Txs
  PROVE  /\ tx[s] \in TxState
         /\ tx[s].row \in Products \cup {None} /\ tx[s].image \in Images \cup {None}
         /\ tx[s].previous \in Images \cup {None} /\ tx[s].fresh \in BOOLEAN
         /\ tx[s].lead \in BOOLEAN /\ tx[s].existing \in Images \cup {None}
         /\ tx[s].seen \in Seq(Images) /\ tx[s].todo \subseteq Images
         /\ tx[s].pc \in {"idle", "save", "lock", "consume", "write", "discard",
                          "sweep", "swept", "retry", "retried"}
         /\ tx[s].kind \in {"none", "upload", "create", "update", "attach", "reorder", "delete",
                            "cleanup"}
  <1>1. tx[s] \in TxState
    BY DEF TypeOK
  <1>2. QED
    BY <1>1 DEF TxState

LEMMA RowFields ==
  ASSUME NEW r \in GalleryRow
  PROVE  r.image \in Images /\ r.order \in Nat /\ r.primary \in BOOLEAN
  BY DEF GalleryRow

-----------------------------------------------------------------------------
(* The order of a gallery                                                  *)

LEMMA BeforeFacts ==
  ASSUME NEW rows \in SUBSET GalleryRow, \A a, b \in rows : a.order = b.order => a = b
  PROVE  /\ \A a, b \in rows : a # b => Before(a, b) \/ Before(b, a)
         /\ \A a \in rows : ~Before(a, a)
         /\ \A a, b, c \in rows : Before(a, b) /\ Before(b, c) => Before(a, c)
  <1>1. \A a \in rows : a.order \in Nat /\ a.primary \in BOOLEAN
    BY RowFields
  <1>2. \A a, b \in rows : a # b => Before(a, b) \/ Before(b, a)
    BY <1>1 DEF Before
  <1>3. \A a \in rows : ~Before(a, a)
    BY <1>1 DEF Before
  <1>4. \A a, b, c \in rows : Before(a, b) /\ Before(b, c) => Before(a, c)
    BY <1>1 DEF Before
  <1>5. QED
    BY <1>2, <1>3, <1>4

Rank(rows, r) == Cardinality({q \in rows : Before(q, r)})

\* Distinct rows have distinct ranks, below their number.
LEMMA RankFacts ==
  ASSUME NEW rows \in SUBSET GalleryRow, IsFiniteSet(rows),
         \A a, b \in rows : a.order = b.order => a = b
  PROVE  /\ Cardinality(rows) \in Nat
         /\ \A r \in rows : Rank(rows, r) \in 0 .. Cardinality(rows) - 1
         /\ \A a, b \in rows : Rank(rows, a) = Rank(rows, b) => a = b
  <1> DEFINE Below(r) == {q \in rows : Before(q, r)}
  <1>1. Cardinality(rows) \in Nat
    BY FS_CardinalityType
  <1>2. ASSUME NEW S \in SUBSET rows, NEW T \in SUBSET rows, S \subseteq T, S # T
        PROVE  /\ Cardinality(S) \in Nat /\ Cardinality(T) \in Nat
               /\ Cardinality(S) < Cardinality(T)
    <2>1. IsFiniteSet(T) /\ IsFiniteSet(S)
      BY <1>2, FS_Subset
    <2>2. Cardinality(S) <= Cardinality(T) /\ (Cardinality(T) = Cardinality(S) => T = S)
      BY <1>2, <2>1, FS_Subset
    <2>3. Cardinality(S) \in Nat /\ Cardinality(T) \in Nat
      BY <2>1, FS_CardinalityType
    <2>4. QED
      BY <1>2, <2>2, <2>3
  <1>3. ASSUME NEW r \in rows PROVE Rank(rows, r) \in 0 .. Cardinality(rows) - 1
    <2>1. Below(r) \in SUBSET rows /\ Below(r) # rows
      BY BeforeFacts
    <2>2. Cardinality(Below(r)) \in Nat /\ Cardinality(Below(r)) < Cardinality(rows)
      BY <1>2, <2>1
    <2>3. QED
      BY <1>1, <2>2 DEF Rank
  <1>4. ASSUME NEW a \in rows, NEW b \in rows, Before(a, b) PROVE Rank(rows, a) # Rank(rows, b)
    <2>1. Below(a) \subseteq Below(b) /\ a \in Below(b) /\ a \notin Below(a)
      BY <1>4, BeforeFacts
    <2>2. Cardinality(Below(a)) \in Nat /\ Cardinality(Below(b)) \in Nat
          /\ Cardinality(Below(a)) < Cardinality(Below(b))
      BY <1>2, <2>1
    <2>3. QED
      BY <2>2 DEF Rank
  <1>5. QED
    BY <1>1, <1>3, <1>4, BeforeFacts

\* Every rank is taken.
LEMMA RankedFacts ==
  ASSUME NEW rows \in SUBSET GalleryRow, IsFiniteSet(rows),
         \A a, b \in rows : a.order = b.order => a = b,
         NEW k \in 0 .. Cardinality(rows) - 1
  PROVE  Ranked(rows, k) \in rows /\ Rank(rows, Ranked(rows, k)) = k
  <1> DEFINE n == Cardinality(rows)
             f == [r \in rows |-> Rank(rows, r)]
  <1>1. n \in Nat
    BY RankFacts
  <1>2. f \in [rows -> 0 .. n - 1] /\ \A a, b \in rows : f[a] = f[b] => a = b
    BY RankFacts
  <1>3. f \in Injection(rows, 0 .. n - 1)
    BY <1>2 DEF Injection, IsInjective
  <1>4. IsFiniteSet(0 .. n - 1) /\ Cardinality(0 .. n - 1) = n
    BY <1>1, FS_Interval
  <1>5. f \in Surjection(rows, 0 .. n - 1)
    BY <1>3, <1>4, FS_Injection
  <1>6. \E r \in rows : f[r] = k
    BY <1>5 DEF Surjection
  <1>7. QED
    BY <1>6 DEF Ranked, Rank


-----------------------------------------------------------------------------
(* The listing of a gallery                                                *)

LEMMA AgreesFacts ==
  ASSUME NEW rows \in SUBSET GalleryRow, NEW image, Agrees(rows, image)
  PROVE  /\ \A a, b \in rows : a.order = b.order => a = b
         /\ \A a, b \in rows : a.image = b.image => a = b
         /\ image \in Used(rows) \cup {None}
         /\ rows # {} => image \in Used(rows)
         /\ \A r \in rows : r.primary <=> r.image = image
         /\ Used(rows) = {} <=> rows = {}
  BY RowFields, ModelValues DEF Agrees, Used

\* It names each image once, the primary one first.
LEMMA ListingFacts ==
  ASSUME NEW rows \in SUBSET GalleryRow, IsFiniteSet(rows), NEW image, Agrees(rows, image)
  PROVE  /\ Listing(rows) \in Seq(Images) /\ Len(Listing(rows)) = Cardinality(rows)
         /\ Distinct(Listing(rows)) /\ ToSet(Listing(rows)) = Used(rows)
         /\ rows # {} => Listing(rows) # <<>> /\ Listing(rows)[1] = image
         /\ rows = {} => Listing(rows) = <<>>
         /\ First(rows) = image
  <1> DEFINE n == Cardinality(rows)
             list == Listing(rows)
  <1>1. n \in Nat
    BY RankFacts, AgreesFacts
  <1>2. /\ DOMAIN list = 1 .. n
        /\ \A k \in 1 .. n : /\ list[k] = Ranked(rows, k - 1).image /\ k - 1 \in 0 .. n - 1
                             /\ Ranked(rows, k - 1) \in rows
                             /\ Rank(rows, Ranked(rows, k - 1)) = k - 1
    <2>1. \A k \in 1 .. n : k - 1 \in 0 .. n - 1
      BY <1>1
    <2>2. QED
      BY <2>1, RankedFacts, AgreesFacts DEF Listing
  <1>3. list \in Seq(Images) /\ Len(list) = n
    <2>1. list \in [1 .. n -> Images]
      <3>1. \A k \in 1 .. n : Ranked(rows, k - 1).image \in Images
        BY <1>2, RowFields
      <3>2. QED
        BY <3>1 DEF Listing
    <2>2. QED
      BY <1>1, <2>1
  <1>4. Distinct(list)
    <2>1. SUFFICES ASSUME NEW j \in 1 .. n, NEW k \in 1 .. n, list[j] = list[k] PROVE j = k
      BY <1>2 DEF Distinct
    <2>2. Ranked(rows, j - 1) = Ranked(rows, k - 1)
      <3>1. \A a, b \in rows : a.image = b.image => a = b
        BY AgreesFacts
      <3>2. /\ Ranked(rows, j - 1) \in rows /\ list[j] = Ranked(rows, j - 1).image
            /\ Ranked(rows, k - 1) \in rows /\ list[k] = Ranked(rows, k - 1).image
        BY <1>2
      <3>3. QED
        BY <2>1, <3>1, <3>2
    <2>3. j - 1 = k - 1
      BY <1>2, <2>2
    <2>4. QED
      BY <2>3
  <1>5. ToSet(list) = Used(rows)
    <2>1. ASSUME NEW r \in rows PROVE \E k \in 1 .. n : list[k] = r.image
      <3>1. Rank(rows, r) \in 0 .. n - 1
        BY RankFacts, AgreesFacts
      <3>2. PICK k \in 1 .. n : k - 1 = Rank(rows, r)
        <4>1. \A m \in 0 .. n - 1 : m + 1 \in 1 .. n /\ (m + 1) - 1 = m
          BY <1>1
        <4>2. QED
          BY <3>1, <4>1
      <3>3. Ranked(rows, k - 1) = r
        <4>1. \A a, b \in rows : Rank(rows, a) = Rank(rows, b) => a = b
          BY RankFacts, AgreesFacts
        <4>2. Ranked(rows, k - 1) \in rows /\ Rank(rows, Ranked(rows, k - 1)) = k - 1
          BY <1>2
        <4>3. QED
          BY <3>2, <4>1, <4>2
      <3>4. QED
        BY <1>2, <3>3
    <2>2. QED
      BY <1>2, <2>1 DEF ToSet, Used
  <1>6. ASSUME rows # {} PROVE list # <<>> /\ list[1] = image
    <2>1. PICK r \in rows : r.primary /\ image = r.image /\ \A q \in rows \ {r} : ~q.primary
      BY <1>6 DEF Agrees
    <2>2. {q \in rows : Before(q, r)} = {}
      <3>1. ~Before(r, r)
        BY BeforeFacts, AgreesFacts
      <3>2. ASSUME NEW q \in rows \ {r} PROVE ~Before(q, r)
        BY <2>1, RowFields DEF Before
      <3>3. QED
        BY <3>1, <3>2
    <2>3. Rank(rows, r) = 0
      BY <2>2, FS_EmptySet DEF Rank
    <2>4. n # 0
      BY <1>6, FS_EmptySet
    <2>5. 1 \in 1 .. n /\ 1 - 1 = 0
      BY <1>1, <2>4
    <2>6. Ranked(rows, 0) = r
      <3>1. \A a, b \in rows : Rank(rows, a) = Rank(rows, b) => a = b
        BY RankFacts, AgreesFacts
      <3>2. Ranked(rows, 0) \in rows /\ Rank(rows, Ranked(rows, 0)) = 0
        BY <1>2, <2>5
      <3>3. QED
        BY <2>3, <3>1, <3>2
    <2>7. QED
      BY <1>2, <1>3, <2>1, <2>5, <2>6
  <1>7. ASSUME rows = {} PROVE list = <<>>
    <2>1. n = 0
      BY <1>7, FS_EmptySet
    <2>2. Len(list) = 0
      BY <1>3, <2>1
    <2>3. QED
      BY <1>3, <2>2, EmptySeq
  <1>8. First(rows) = image
    BY <1>6 DEF First, Agrees
  <1>9. QED
    BY <1>3, <1>4, <1>5, <1>6, <1>7, <1>8

-----------------------------------------------------------------------------
(* The galleries that are written                                          *)

\* As many rows as before, at most.
LEMMA ImageCardinality ==
  ASSUME NEW S, IsFiniteSet(S), NEW f, DOMAIN f = S
  PROVE  /\ IsFiniteSet({f[x] : x \in S})
         /\ Cardinality({f[x] : x \in S}) <= Cardinality(S)
  <1> DEFINE T == {f[x] : x \in S}
  <1> DEFINE g == [x \in S |-> f[x]]
  <1>2. g \in [S -> T] /\ \A y \in T : \E x \in S : g[x] = y
    OBVIOUS
  <1>3. g \in Surjection(S, T)
    BY <1>2 DEF Surjection
  <1>4. QED
    BY <1>3, FS_Surjection


LEMMA UsedCardinality ==
  ASSUME NEW rows, IsFiniteSet(rows)
  PROVE  IsFiniteSet(Used(rows)) /\ Cardinality(Used(rows)) <= Cardinality(rows)
  <1> DEFINE f == [r \in rows |-> r.image]
  <1>1. Used(rows) = {f[r] : r \in rows} /\ DOMAIN f = rows
    BY DEF Used
  <1> HIDE DEF f
  <1>2. QED
    BY <1>1, ImageCardinality

\* The row that r becomes.
Moved(r, seq, primary) ==
  [r EXCEPT !.primary = (r.image = primary),
            !.order = IF r.image \in ToSet(seq)
                        THEN (CHOOSE k \in DOMAIN seq : seq[k] = r.image) - 1
                        ELSE r.order]

LEMMA MovedFacts ==
  ASSUME NEW r \in GalleryRow, NEW seq \in Seq(Images), Distinct(seq), r.image \in ToSet(seq),
         NEW primary
  PROVE  /\ Moved(r, seq, primary) \in GalleryRow
         /\ Moved(r, seq, primary).image = r.image
         /\ Moved(r, seq, primary).primary = (r.image = primary)
         /\ \A k \in DOMAIN seq : seq[k] = r.image => Moved(r, seq, primary).order = k - 1
         /\ \E k \in DOMAIN seq : seq[k] = r.image /\ Moved(r, seq, primary).order = k - 1
  <1> DEFINE m == CHOOSE k \in DOMAIN seq : seq[k] = r.image
  <1>1. \E k \in DOMAIN seq : seq[k] = r.image
    BY DEF ToSet
  <1>2. m \in DOMAIN seq /\ seq[m] = r.image
    BY <1>1
  <1>3. \A k \in DOMAIN seq : seq[k] = r.image => k = m
    BY <1>2 DEF Distinct
  <1>4. DOMAIN seq = 1 .. Len(seq) /\ Len(seq) \in Nat
    BY LenProperties
  <1>5. m - 1 \in Nat
    BY <1>2, <1>4
  <1>6. Moved(r, seq, primary) = [r EXCEPT !.primary = (r.image = primary), !.order = m - 1]
    BY DEF Moved
  <1> HIDE DEF m
  <1>7. /\ Moved(r, seq, primary) \in GalleryRow
        /\ Moved(r, seq, primary).image = r.image
        /\ Moved(r, seq, primary).primary = (r.image = primary)
        /\ Moved(r, seq, primary).order = m - 1
    BY <1>5, <1>6 DEF GalleryRow
  <1>8. QED
    BY <1>2, <1>3, <1>7

\* A new order that names the images of the gallery, the new primary one first.
LEMMA ReorderedFacts ==
  ASSUME NEW rows \in SUBSET GalleryRow, IsFiniteSet(rows),
         \A a, b \in rows : a.image = b.image => a = b,
         NEW seq \in Seq(Images), Distinct(seq), ToSet(seq) = Used(rows),
         NEW primary, rows # {} => primary = seq[1], rows = {} => primary = None
  PROVE  /\ Reordered(rows, seq, primary) \in SUBSET GalleryRow
         /\ IsFiniteSet(Reordered(rows, seq, primary))
         /\ Cardinality(Reordered(rows, seq, primary)) <= Cardinality(rows)
         /\ Used(Reordered(rows, seq, primary)) = Used(rows)
         /\ Agrees(Reordered(rows, seq, primary), primary)
  <1> DEFINE f == [r \in rows |-> Moved(r, seq, primary)]
             new == Reordered(rows, seq, primary)
  <1>1. new = {f[r] : r \in rows} /\ DOMAIN f = rows
    BY DEF Reordered, Moved
  <1>2. \A r \in rows : r \in GalleryRow /\ r.image \in ToSet(seq)
    BY DEF Used
  <1>3. \A r \in rows :
          /\ f[r] \in GalleryRow /\ f[r].image = r.image /\ f[r].primary = (r.image = primary)
          /\ \A k \in DOMAIN seq : seq[k] = r.image => f[r].order = k - 1
          /\ \E k \in DOMAIN seq : seq[k] = r.image /\ f[r].order = k - 1
    BY <1>2, MovedFacts
  <1> HIDE DEF f
  <1>4. IsFiniteSet(new) /\ Cardinality(new) <= Cardinality(rows)
    BY <1>1, ImageCardinality
  <1>5. new \in SUBSET GalleryRow
    BY <1>1, <1>3
  <1>6. Used(new) = Used(rows)
    BY <1>1, <1>3 DEF Used
  <1>7. ASSUME NEW a \in rows, NEW b \in rows, f[a].order = f[b].order \/ f[a].image = f[b].image
        PROVE  f[a] = f[b]
    <2>1. PICK j \in DOMAIN seq : seq[j] = a.image /\ f[a].order = j - 1
      BY <1>3
    <2>2. PICK k \in DOMAIN seq : seq[k] = b.image /\ f[b].order = k - 1
      BY <1>3
    <2>3. j \in Int /\ k \in Int
      BY LenProperties
    <2>4. a.image = b.image
      BY <1>3, <1>7, <2>1, <2>2, <2>3
    <2>5. QED
      BY <2>4
  <1>8. ASSUME rows # {}
        PROVE  \E r \in new : /\ r.primary /\ primary = r.image
                              /\ \A q \in new \ {r} : ~q.primary /\ r.order < q.order
    <2>1. DOMAIN seq = 1 .. Len(seq) /\ Len(seq) \in Nat
      BY LenProperties
    <2>2. 1 \in DOMAIN seq /\ seq[1] = primary
      <3>1. \E k \in DOMAIN seq : TRUE
        BY <1>3, <1>8
      <3>2. QED
        BY <1>8, <2>1, <3>1
    <2>3. PICK a \in rows : a.image = primary
      BY <2>2 DEF ToSet, Used
    <2>4. f[a].order = 0 /\ f[a].primary /\ f[a].image = primary
      <3>1. f[a].order = 1 - 1 /\ f[a].primary = (a.image = primary) /\ f[a].image = a.image
        BY <1>3, <2>2, <2>3
      <3>2. f[a].order = 0
        BY <3>1
      <3>3. f[a].primary
        BY <2>3, <3>1, Zenon
      <3>4. f[a].image = primary
        BY <2>3, <3>1
      <3>5. QED
        BY <3>2, <3>3, <3>4
    <2>5. ASSUME NEW b \in rows, f[b] # f[a] PROVE ~f[b].primary /\ f[a].order < f[b].order
      <3>1. b.image # primary
        BY <2>3, <2>5
      <3>2. PICK k \in DOMAIN seq : seq[k] = b.image /\ f[b].order = k - 1
        BY <1>3
      <3>3. k # 1
        BY <2>2, <3>1, <3>2
      <3>4. f[a].order < f[b].order
        BY <2>1, <2>4, <3>2, <3>3
      <3>5. f[b].primary = (b.image = primary)
        BY <1>3
      <3>6. QED
        BY <3>1, <3>4, <3>5
    <2>6. QED
      BY <1>1, <2>4, <2>5
  <1>9. \A r \in rows : f[r] \in new
    BY <1>1
  <1>10. \A a, b \in new : a.order = b.order \/ a.image = b.image => a = b
    BY <1>1, <1>7
  <1>11. rows = {} => new = {}
    BY <1>1
  <1>12. Agrees(new, primary)
    BY <1>8, <1>9, <1>10, <1>11 DEF Agrees
  <1>13. QED
    BY <1>4, <1>5, <1>6, <1>12


\* A sequence without one of its elements.
LEMMA RemoveFirstFacts ==
  ASSUME NEW seq \in Seq(Images), Distinct(seq), NEW i \in ToSet(seq)
  PROVE  /\ RemoveFirst(seq, i) \in Seq(Images) /\ Distinct(RemoveFirst(seq, i))
         /\ ToSet(RemoveFirst(seq, i)) = ToSet(seq) \ {i}
         /\ RemoveFirst(seq, i) = <<>> <=> ToSet(seq) = {i}
         /\ i # seq[1] => RemoveFirst(seq, i)[1] = seq[1]
  <1> DEFINE n == Len(seq)
             I == {k \in 1 .. n : seq[k] = i}
             m == CHOOSE x \in I : \A y \in I : x =< y
             front == SubSeq(seq, 1, m - 1)
             rear == SubSeq(seq, m + 1, n)
             rest == RemoveFirst(seq, i)
  <1>1. DOMAIN seq = 1 .. n /\ n \in Nat /\ \A k \in 1 .. n : seq[k] \in Images
    BY LenProperties
  <1>2. PICK j \in 1 .. n : seq[j] = i
    BY <1>1 DEF ToSet
  <1>3. I = {j}
    BY <1>1, <1>2 DEF Distinct
  <1>4. rest = front \o rear
    <2>1. I # {}
      BY <1>3
    <2>2. \E k \in 1 .. Len(seq) : seq[k] = i
      BY <1>2
    <2>3. SelectInSeq(seq, LAMBDA v : v = i) = m
      BY <2>1 DEF SelectInSeq, Min
    <2>4. QED
      BY <2>2, <2>3 DEF RemoveFirst, RemoveAt
  <1>5. m = j
    BY <1>1, <1>2, <1>3
  <1> HIDE DEF n, I, m
  <1>6. j \in Int /\ j - 1 \in Int /\ j + 1 \in Int /\ n \in Int /\ 1 \in Int
    BY <1>1
  <1>7. /\ front \in Seq(Images) /\ Len(front) = j - 1
        /\ \A k \in 1 .. j - 1 : front[k] = seq[k]
    <2>1. \A k \in 1 .. j - 1 : seq[k] \in Images
      BY <1>1
    <2>2. /\ front \in Seq(Images) /\ Len(front) = IF 1 <= j - 1 THEN j - 1 - 1 + 1 ELSE 0
          /\ \A k \in 1 .. j - 1 - 1 + 1 : front[k] = seq[1 + k - 1]
      BY <1>5, <1>6, <2>1, SubSeqProperties
    <2>3. QED
      BY <1>1, <2>2
  <1>8. /\ rear \in Seq(Images) /\ Len(rear) = n - j
        /\ \A k \in 1 .. n - j : rear[k] = seq[j + k]
    <2>1. \A k \in j + 1 .. n : seq[k] \in Images
      BY <1>1
    <2>2. /\ rear \in Seq(Images) /\ Len(rear) = IF j + 1 <= n THEN n - (j + 1) + 1 ELSE 0
          /\ \A k \in 1 .. n - (j + 1) + 1 : rear[k] = seq[j + 1 + k - 1]
      BY <1>5, <1>6, <2>1, SubSeqProperties
    <2>3. QED
      BY <1>1, <2>2
  <1> HIDE DEF front, rear
  <1>9. /\ rest \in Seq(Images) /\ Len(rest) = n - 1
        /\ \A k \in 1 .. n - 1 : rest[k] = IF k < j THEN seq[k] ELSE seq[k + 1]
    <2>1. /\ rest \in Seq(Images) /\ Len(rest) = Len(front) + Len(rear)
          /\ \A k \in 1 .. Len(front) + Len(rear) :
               rest[k] = IF k <= Len(front) THEN front[k] ELSE rear[k - Len(front)]
      <3>1. /\ front \o rear \in Seq(Images) /\ Len(front \o rear) = Len(front) + Len(rear)
            /\ \A k \in 1 .. Len(front) + Len(rear) :
                 (front \o rear)[k] = IF k <= Len(front) THEN front[k] ELSE rear[k - Len(front)]
        BY <1>7, <1>8, ConcatProperties
      <3>2. QED
        BY <1>4, <3>1, Zenon
    <2> HIDE DEF rest
    <2>2. Len(front) + Len(rear) = n - 1
      BY <1>1, <1>7, <1>8
    <2>3. ASSUME NEW k \in 1 .. n - 1 PROVE rest[k] = IF k < j THEN seq[k] ELSE seq[k + 1]
      <3>1. CASE k < j
        <4>1. k \in 1 .. j - 1 /\ k <= Len(front) /\ k \in 1 .. Len(front) + Len(rear)
          BY <1>1, <1>6, <1>7, <2>2, <3>1
        <4>2. rest[k] = front[k]
          BY <2>1, <4>1
        <4>3. QED
          BY <1>7, <3>1, <4>1, <4>2
      <3>2. CASE ~(k < j)
        <4>1. k - (j - 1) \in 1 .. n - j /\ j + (k - (j - 1)) = k + 1 /\ ~(k <= j - 1)
          BY <1>1, <3>2
        <4>2. rest[k] = rear[k - (j - 1)]
          BY <1>7, <2>1, <2>2, <4>1
        <4>3. QED
          BY <1>8, <3>2, <4>1, <4>2
      <3>3. QED
        BY <3>1, <3>2
    <2>4. QED
      BY <2>1, <2>2, <2>3
  <1> HIDE DEF rest
  <1>10. DOMAIN rest = 1 .. n - 1
    BY <1>9, LenProperties
  <1>11. Distinct(rest)
    <2>1. SUFFICES ASSUME NEW a \in 1 .. n - 1, NEW b \in 1 .. n - 1, rest[a] = rest[b]
                   PROVE  a = b
      BY <1>10 DEF Distinct
    <2>2. a \in 1 .. n /\ a + 1 \in 1 .. n /\ b \in 1 .. n /\ b + 1 \in 1 .. n
      BY <1>1
    <2>3. \A x, y \in 1 .. n : seq[x] = seq[y] => x = y
      BY <1>1 DEF Distinct
    <2>4. QED
      BY <1>1, <1>9, <2>1, <2>2, <2>3
  <1>12. ToSet(rest) = ToSet(seq) \ {i}
    <2>1. ASSUME NEW k \in 1 .. n - 1 PROVE rest[k] \in ToSet(seq) \ {i}
      <3>1. k \in 1 .. n /\ k + 1 \in 1 .. n
        BY <1>1
      <3>2. \A x \in 1 .. n : seq[x] = i => x = j
        BY <1>1, <1>2 DEF Distinct
      <3>3. \A x \in 1 .. n : seq[x] \in ToSet(seq)
        BY <1>1 DEF ToSet
      <3>4. QED
        BY <1>1, <1>9, <3>1, <3>2, <3>3
    <2>2. ASSUME NEW x \in 1 .. n, seq[x] # i PROVE \E k \in 1 .. n - 1 : rest[k] = seq[x]
      <3>1. CASE x < j
        <4>1. x \in 1 .. n - 1
          BY <1>1, <3>1
        <4>2. QED
          BY <1>9, <3>1, <4>1
      <3>2. CASE ~(x < j)
        <4>1. x # j
          BY <1>2, <2>2
        <4>2. x - 1 \in 1 .. n - 1 /\ ~(x - 1 < j) /\ (x - 1) + 1 = x
          BY <1>1, <3>2, <4>1
        <4>3. QED
          BY <1>9, <4>2
      <3>3. QED
        BY <3>1, <3>2
    <2>3. ToSet(rest) = {rest[k] : k \in 1 .. n - 1} /\ ToSet(seq) = {seq[k] : k \in 1 .. n}
      BY <1>1, <1>10 DEF ToSet
    <2>4. QED
      BY <2>1, <2>2, <2>3
  <1>13. rest = <<>> <=> ToSet(seq) = {i}
    <2>1. rest = <<>> <=> n - 1 = 0
      BY <1>1, <1>9, EmptySeq
    <2>2. n - 1 = 0 => ToSet(seq) = {i}
      BY <1>1, <1>2 DEF ToSet
    <2>3. ASSUME ToSet(seq) = {i} PROVE n - 1 = 0
      <3>1. ToSet(rest) = {}
        BY <1>12, <2>3
      <3>2. \A k \in 1 .. n - 1 : FALSE
        BY <1>10, <3>1 DEF ToSet
      <3>3. QED
        BY <1>1, <3>2
    <2>4. QED
      BY <2>1, <2>2, <2>3
  <1>14. ASSUME i # seq[1] PROVE rest[1] = seq[1]
    <2>1. j # 1
      BY <1>2, <1>14
    <2>2. 1 \in 1 .. n - 1 /\ 1 < j
      BY <1>1, <2>1
    <2>3. QED
      BY <1>9, <2>2
  <1>15. QED
    BY <1>9, <1>11, <1>12, <1>13, <1>14 DEF rest


LEMMA PrimaryInFacts ==
  ASSUME NEW rows \in SUBSET GalleryRow, NEW image, Agrees(rows, image),
         NEW seq, ToSet(seq) \subseteq Used(rows), NEW other
  PROVE  PrimaryIn(rows, seq, other) = IF image \in ToSet(seq) THEN image ELSE other
  <1> DEFINE flagged == {i \in ToSet(seq) : \E r \in rows : r.image = i /\ r.primary}
  <1>1. \A i \in ToSet(seq) : (\E r \in rows : r.image = i /\ r.primary) <=> i = image
    BY AgreesFacts DEF Used
  <1>2. flagged = IF image \in ToSet(seq) THEN {image} ELSE {}
    BY <1>1
  <1>3. PrimaryIn(rows, seq, other) = IF flagged = {} THEN other ELSE CHOOSE i \in flagged : TRUE
    BY DEF PrimaryIn
  <1> HIDE DEF flagged
  <1>4. QED
    BY <1>2, <1>3

\* What attach_product_image writes: one more image, the first one or the last.
LEMMA AttachedFacts ==
  ASSUME NEW rows \in SUBSET GalleryRow, IsFiniteSet(rows), NEW image, Agrees(rows, image),
         NEW i \in Images \ Used(rows), NEW lead \in BOOLEAN
  PROVE  /\ Attached(rows, Listing(rows), i, lead) \in SUBSET GalleryRow
         /\ IsFiniteSet(Attached(rows, Listing(rows), i, lead))
         /\ Cardinality(Attached(rows, Listing(rows), i, lead)) <= Cardinality(rows) + 1
         /\ Used(Attached(rows, Listing(rows), i, lead)) = Used(rows) \cup {i}
         /\ \E s \in Images : Agrees(Attached(rows, Listing(rows), i, lead), s)
  <1> DEFINE seen == Listing(rows)
             n == Len(seen)
             new == [image |-> i, order |-> n, primary |-> FALSE]
             more == rows \cup {new}
             seq == IF lead THEN <<i>> \o seen ELSE Append(seen, i)
             primary == IF lead THEN i ELSE PrimaryIn(rows, seen, i)
  <1>1. /\ seen \in Seq(Images) /\ n \in Nat /\ Distinct(seen) /\ ToSet(seen) = Used(rows)
        /\ DOMAIN seen = 1 .. n
        /\ rows # {} => seen # <<>> /\ seen[1] = image
        /\ rows = {} => seen = <<>>
    BY ListingFacts, LenProperties
  <1>2. Attached(rows, seen, i, lead) = Reordered(more, seq, primary)
    BY DEF Attached
  <1>3. new \in GalleryRow /\ new.image = i
    BY <1>1 DEF GalleryRow
  <1> HIDE DEF new
  <1>4. IsFiniteSet(more) /\ Cardinality(more) <= Cardinality(rows) + 1
    <2>1. Cardinality(rows) \in Nat
      BY FS_CardinalityType
    <2>2. /\ IsFiniteSet(rows \cup {new})
          /\ Cardinality(rows \cup {new}) = IF new \in rows THEN Cardinality(rows)
                                                            ELSE Cardinality(rows) + 1
      BY FS_AddElement
    <2>3. QED
      BY <2>1, <2>2
  <1>5. /\ more \in SUBSET GalleryRow /\ more # {}
        /\ \A a, b \in more : a.image = b.image => a = b
        /\ Used(more) = Used(rows) \cup {i}
    <2>1. \A a \in rows : a.image # i
      BY DEF Used
    <2>2. \A a, b \in more : a.image = b.image => a = b
      BY <1>3, <2>1, AgreesFacts
    <2>3. Used(more) = Used(rows) \cup {i}
      BY <1>3 DEF Used
    <2>4. QED
      BY <1>3, <2>2, <2>3
  <1> HIDE DEF seen, n
  <1>6. i \notin ToSet(seen) /\ \A k \in 1 .. n : seen[k] \in Images /\ seen[k] # i
    BY <1>1, LenProperties DEF ToSet
  <1>7. /\ seq \in Seq(Images) /\ Len(seq) = n + 1 /\ Distinct(seq)
        /\ ToSet(seq) = Used(more) /\ primary = seq[1] /\ primary \in Images
    <2>1. CASE lead
      <3>1. /\ <<i>> \o seen \in Seq(Images) /\ Len(<<i>> \o seen) = 1 + n
            /\ \A k \in 1 .. 1 + n : (<<i>> \o seen)[k] = IF k <= 1 THEN <<i>>[k] ELSE seen[k - 1]
        <4>1. <<i>> \in Seq(Images) /\ Len(<<i>>) = 1
          OBVIOUS
        <4>2. QED
          BY <1>1, <4>1, ConcatProperties DEF n
      <3>2. seq = <<i>> \o seen
        BY <2>1
      <3> HIDE DEF seq
      <3>3. /\ seq \in Seq(Images) /\ Len(seq) = n + 1 /\ DOMAIN seq = 1 .. n + 1
            /\ \A k \in 1 .. n + 1 : seq[k] = IF k <= 1 THEN i ELSE seen[k - 1]
        BY <1>1, <3>1, <3>2, LenProperties
      <3>4. \A k \in 2 .. n + 1 : k - 1 \in 1 .. n /\ seq[k] = seen[k - 1]
        BY <1>1, <3>3
      <3>5. seq[1] = i
        BY <1>1, <3>3
      <3>6. \A k \in 1 .. n + 1 : k = 1 \/ k \in 2 .. n + 1
        BY <1>1
      <3>7. Distinct(seq)
        <4>1. SUFFICES ASSUME NEW a \in 1 .. n + 1, NEW b \in 1 .. n + 1, seq[a] = seq[b]
                       PROVE  a = b
          BY <3>3 DEF Distinct
        <4>2. CASE a = 1 \/ b = 1
          BY <1>6, <3>4, <3>5, <3>6, <4>1, <4>2
        <4>3. CASE a # 1 /\ b # 1
          <5>1. a - 1 \in 1 .. n /\ b - 1 \in 1 .. n /\ seen[a - 1] = seen[b - 1]
            BY <3>4, <3>6, <4>1, <4>3
          <5>2. a - 1 = b - 1
            BY <1>1, <5>1 DEF Distinct
          <5>3. QED
            BY <5>2
        <4>4. QED
          BY <4>2, <4>3
      <3>8. ToSet(seq) = ToSet(seen) \cup {i}
        <4>1. \A k \in 1 .. n + 1 : seq[k] \in ToSet(seen) \cup {i}
          BY <1>1, <3>4, <3>5, <3>6 DEF ToSet
        <4>2. \A k \in 1 .. n : k + 1 \in 1 .. n + 1 /\ seq[k + 1] = seen[k]
          BY <1>1, <3>3
        <4>3. 1 \in 1 .. n + 1
          BY <1>1
        <4>4. ToSet(seen) = {seen[k] : k \in 1 .. n} /\ ToSet(seq) = {seq[k] : k \in 1 .. n + 1}
          BY <1>1, <3>3 DEF ToSet
        <4>5. QED
          BY <3>5, <4>1, <4>2, <4>3, <4>4
      <3>9. QED
        BY <1>1, <1>5, <2>1, <3>3, <3>5, <3>7, <3>8
    <2>2. CASE ~lead
      <3>1. /\ seq = Append(seen, i) /\ seq \in Seq(Images) /\ Len(seq) = n + 1
            /\ DOMAIN seq = 1 .. n + 1
            /\ \A k \in 1 .. n : seq[k] = seen[k]
            /\ seq[n + 1] = i
        BY <1>1, <2>2, AppendProperties, LenProperties DEF n
      <3> HIDE DEF seq
      <3>2. \A k \in 1 .. n + 1 : k = n + 1 \/ k \in 1 .. n
        BY <1>1
      <3>3. Distinct(seq)
        <4>1. SUFFICES ASSUME NEW a \in 1 .. n + 1, NEW b \in 1 .. n + 1, seq[a] = seq[b]
                       PROVE  a = b
          BY <3>1 DEF Distinct
        <4>2. QED
          BY <1>1, <1>6, <3>1, <3>2, <4>1 DEF Distinct
      <3>4. ToSet(seq) = ToSet(seen) \cup {i}
        <4>1. n + 1 \in 1 .. n + 1 /\ 1 .. n \subseteq 1 .. n + 1
          BY <1>1
        <4>2. ToSet(seen) = {seen[k] : k \in 1 .. n} /\ ToSet(seq) = {seq[k] : k \in 1 .. n + 1}
          BY <1>1, <3>1 DEF ToSet
        <4>3. QED
          BY <3>1, <3>2, <4>1, <4>2
      <3>5. primary = IF image \in ToSet(seen) THEN image ELSE i
        BY <1>1, <2>2, PrimaryInFacts
      <3>6. CASE rows = {}
        <4>1. n = 0
          BY <1>1, <3>6, EmptySeq DEF n
        <4>2. ToSet(seen) = {}
          BY <1>1, <3>6 DEF Used
        <4>3. seq[1] = i /\ primary = i
          BY <3>1, <3>5, <4>1, <4>2
        <4>4. QED
          BY <1>1, <1>5, <3>1, <3>3, <3>4, <4>3
      <3>7. CASE rows # {}
        <4>1. 1 \in 1 .. n
          <5>1. n # 0
            BY <1>1, <3>7, EmptySeq DEF n
          <5>2. QED
            BY <1>1, <5>1
        <4>2. image \in ToSet(seen) /\ seq[1] = image
          BY <1>1, <3>1, <3>7, <4>1, AgreesFacts
        <4>3. image \in Images
          BY <1>6, <1>1, <3>7, <4>1
        <4>4. QED
          BY <1>1, <1>5, <3>1, <3>3, <3>4, <3>5, <4>2, <4>3
      <3>8. QED
        BY <3>6, <3>7
    <2>3. QED
      BY <2>1, <2>2
  <1> HIDE DEF seq, primary, more
  <1>8. /\ Reordered(more, seq, primary) \in SUBSET GalleryRow
        /\ IsFiniteSet(Reordered(more, seq, primary))
        /\ Cardinality(Reordered(more, seq, primary)) <= Cardinality(more)
        /\ Used(Reordered(more, seq, primary)) = Used(more)
        /\ Agrees(Reordered(more, seq, primary), primary)
    BY <1>4, <1>5, <1>7, ReorderedFacts
  <1>9. Cardinality(Reordered(more, seq, primary)) <= Cardinality(rows) + 1
    <2>1. /\ Cardinality(rows) \in Nat /\ Cardinality(more) \in Nat
          /\ Cardinality(Reordered(more, seq, primary)) \in Nat
      BY <1>4, <1>8, FS_CardinalityType
    <2>2. QED
      BY <1>4, <1>8, <2>1
  <1>10. QED
    BY <1>2, <1>5, <1>7, <1>8, <1>9 DEF seen


\* What replace_primary_product_image writes: i comes first, for the image shown.
LEMMA ReplacedFacts ==
  ASSUME NEW rows \in SUBSET GalleryRow, IsFiniteSet(rows), NEW old, Agrees(rows, old),
         NEW i \in Images \ Used(rows)
  PROVE  /\ Replaced(rows, old, i) \in SUBSET GalleryRow
         /\ IsFiniteSet(Replaced(rows, old, i))
         /\ rows = {} => Cardinality(Replaced(rows, old, i)) = 1
         /\ rows # {} => Cardinality(Replaced(rows, old, i)) <= Cardinality(rows)
         /\ Used(Replaced(rows, old, i)) = (Used(rows) \ {old}) \cup {i}
         /\ Agrees(Replaced(rows, old, i), i)
  <1> DEFINE kept == {q \in rows : q.image # old}
             f == [r \in kept |-> [r EXCEPT !.primary = FALSE, !.order = @ + 1]]
             moved == {f[r] : r \in kept}
             new == [image |-> i, order |-> 0, primary |-> TRUE]
  <1>1. Replaced(rows, old, i) = moved \cup {new} /\ DOMAIN f = kept
    BY DEF Replaced
  <1>2. \A r \in kept : /\ f[r] \in GalleryRow /\ f[r].image = r.image /\ ~f[r].primary
                        /\ f[r].order = r.order + 1
    <2>1. SUFFICES ASSUME NEW r \in kept
                   PROVE  /\ f[r] \in GalleryRow /\ f[r].image = r.image /\ ~f[r].primary
                          /\ f[r].order = r.order + 1
      OBVIOUS
    <2>2. r \in GalleryRow /\ r.order + 1 \in Nat
      BY RowFields
    <2>3. f[r] = [r EXCEPT !.primary = FALSE, !.order = r.order + 1]
      OBVIOUS
    <2> HIDE DEF f, kept
    <2>4. QED
      BY <2>2, <2>3 DEF GalleryRow
  <1>3. new \in GalleryRow /\ new.image = i /\ new.order = 0 /\ new.primary
    BY DEF GalleryRow
  <1>4. kept \subseteq rows /\ \A r \in kept : r.image # old /\ r.image # i
    BY DEF Used
  <1>5. Used(kept) = Used(rows) \ {old}
    BY DEF Used
  <1>6. \A r \in rows : r \in kept \/ r.image = old
    OBVIOUS
  <1> HIDE DEF f, kept, new
  <1>7. Used(moved \cup {new}) = (Used(rows) \ {old}) \cup {i}
    BY <1>2, <1>3, <1>5 DEF Used
  <1>8. Agrees(moved \cup {new}, i)
    <2>1. ASSUME NEW a \in kept, NEW b \in kept, f[a].order = f[b].order \/ f[a].image = f[b].image
          PROVE  a = b
      <3>1. a.order \in Nat /\ b.order \in Nat /\ a \in rows /\ b \in rows
        BY <1>4, RowFields
      <3>2. a.order = b.order \/ a.image = b.image
        BY <1>2, <2>1, <3>1
      <3>3. QED
        BY <3>1, <3>2, AgreesFacts
    <2>2. \A a \in kept : f[a].order > 0 /\ f[a].image # i
      BY <1>2, <1>4, RowFields
    <2>3. \A a, b \in moved \cup {new} : a.order = b.order \/ a.image = b.image => a = b
      BY <1>3, <2>1, <2>2
    <2>4. \A q \in (moved \cup {new}) \ {new} : ~q.primary /\ new.order < q.order
      BY <1>2, <1>3, <2>2
    <2>5. QED
      BY <1>3, <2>3, <2>4 DEF Agrees
  <1>9. IsFiniteSet(kept)
    BY <1>4, FS_Subset
  <1>10. IsFiniteSet(moved) /\ Cardinality(moved) <= Cardinality(kept)
    BY <1>1, <1>9, ImageCardinality
  <1>11. new \notin moved
    BY <1>2, <1>3
  <1> HIDE DEF moved
  <1>12. /\ IsFiniteSet(moved \cup {new})
         /\ Cardinality(moved \cup {new}) = Cardinality(moved) + 1
    BY <1>10, <1>11, FS_AddElement
  <1>13. /\ Cardinality(moved) \in Nat /\ Cardinality(kept) \in Nat /\ Cardinality(rows) \in Nat
    BY <1>9, <1>10, FS_CardinalityType
  <1>14. ASSUME rows = {} PROVE Cardinality(moved) = 0
    <2>1. Cardinality(kept) = 0
      BY <1>4, <1>14, FS_EmptySet
    <2>2. QED
      BY <1>10, <1>13, <2>1
  <1>15. ASSUME rows # {} PROVE Cardinality(moved) + 1 <= Cardinality(rows)
    <2>1. kept # rows
      <3>1. PICK r \in rows : r.image = old
        BY <1>15 DEF Agrees
      <3>2. QED
        BY <1>4, <3>1
    <2>2. Cardinality(kept) <= Cardinality(rows) /\ Cardinality(kept) # Cardinality(rows)
      BY <1>4, <2>1, FS_Subset
    <2>3. QED
      BY <1>10, <1>13, <2>2
  <1>16. moved \cup {new} \in SUBSET GalleryRow
    BY <1>2, <1>3 DEF moved
  <1>17. QED
    <2>1. Replaced(rows, old, i) = moved \cup {new}
      BY <1>1
    <2>2. rows = {} => Cardinality(moved \cup {new}) = 1
      BY <1>12, <1>14
    <2>3. rows # {} => Cardinality(moved \cup {new}) <= Cardinality(rows)
      BY <1>12, <1>15
    <2>4. QED
      BY <1>7, <1>8, <1>12, <1>16, <2>1, <2>2, <2>3

\* What delete_product_image_internal writes: i is gone, and another one is shown if it was.
LEMMA RemovedFacts ==
  ASSUME NEW rows \in SUBSET GalleryRow, IsFiniteSet(rows), NEW image, Agrees(rows, image),
         NEW i \in Used(rows)
  PROVE  /\ Removed(rows, Listing(rows), i) \in SUBSET GalleryRow
         /\ IsFiniteSet(Removed(rows, Listing(rows), i))
         /\ Cardinality(Removed(rows, Listing(rows), i)) <= Cardinality(rows)
         /\ Used(Removed(rows, Listing(rows), i)) = Used(rows) \ {i}
         /\ \E s \in Images \cup {None} : Agrees(Removed(rows, Listing(rows), i), s)
  <1> DEFINE seen == Listing(rows)
             rest == RemoveFirst(seen, i)
             next == IF rest = <<>> THEN None ELSE PrimaryIn(rows, rest, rest[1])
             kept == {r \in rows : r.image # i}
  <1>1. /\ seen \in Seq(Images) /\ Distinct(seen) /\ ToSet(seen) = Used(rows)
        /\ rows # {} /\ seen[1] = image
    BY ListingFacts DEF Used
  <1>2. Removed(rows, seen, i) = Reordered(kept, rest, next)
    BY DEF Removed
  <1>3. /\ rest \in Seq(Images) /\ Distinct(rest) /\ ToSet(rest) = Used(rows) \ {i}
        /\ rest = <<>> <=> Used(rows) = {i}
        /\ i # image => rest[1] = image
    BY <1>1, RemoveFirstFacts
  <1>4. /\ kept \in SUBSET GalleryRow /\ kept \subseteq rows
        /\ \A a, b \in kept : a.image = b.image => a = b
        /\ Used(kept) = Used(rows) \ {i} /\ (kept = {} <=> Used(rows) = {i})
    <2>1. Used(kept) = Used(rows) \ {i}
      BY DEF Used
    <2>2. kept = {} <=> Used(kept) = {}
      BY DEF Used
    <2>3. \A a, b \in rows : a.image = b.image => a = b
      BY AgreesFacts
    <2>4. Used(rows) \ {i} = {} <=> Used(rows) = {i}
      OBVIOUS
    <2>5. QED
      BY <2>1, <2>2, <2>3, <2>4
  <1>5. /\ IsFiniteSet(kept) /\ Cardinality(kept) <= Cardinality(rows)
    BY <1>4, FS_Subset
  <1> HIDE DEF kept, rest
  <1>6. rest # <<>> => next = rest[1] /\ rest[1] \in Images
    <2>1. ASSUME rest # <<>> PROVE next = rest[1] /\ rest[1] \in Images
      <3>1. PrimaryIn(rows, rest, rest[1]) = IF image \in ToSet(rest) THEN image ELSE rest[1]
        BY <1>3, PrimaryInFacts
      <3>2. image \in ToSet(rest) => rest[1] = image
        BY <1>3
      <3>3. Len(rest) \in Nat \ {0}
        BY <1>3, <2>1, EmptySeq
      <3>4. rest[1] \in Images
        BY <1>3, <3>3, LenProperties
      <3>5. QED
        BY <2>1, <3>1, <3>2, <3>4
    <2>2. QED
      BY <2>1
  <1>7. rest = <<>> => next = None
    OBVIOUS
  <1>8. /\ kept # {} => next = rest[1]
        /\ kept = {} => next = None
        /\ next \in Images \cup {None}
    BY <1>3, <1>4, <1>6, <1>7
  <1> HIDE DEF next
  <1>9. /\ Reordered(kept, rest, next) \in SUBSET GalleryRow
        /\ IsFiniteSet(Reordered(kept, rest, next))
        /\ Cardinality(Reordered(kept, rest, next)) <= Cardinality(kept)
        /\ Used(Reordered(kept, rest, next)) = Used(kept)
        /\ Agrees(Reordered(kept, rest, next), next)
    BY <1>3, <1>4, <1>5, <1>8, ReorderedFacts
  <1>10. Cardinality(Reordered(kept, rest, next)) <= Cardinality(rows)
    <2>1. /\ Cardinality(rows) \in Nat /\ Cardinality(kept) \in Nat
          /\ Cardinality(Reordered(kept, rest, next)) \in Nat
      BY <1>5, <1>9, FS_CardinalityType
    <2>2. QED
      BY <1>5, <1>9, <2>1
  <1>11. QED
    BY <1>2, <1>4, <1>8, <1>9, <1>10


-----------------------------------------------------------------------------
(* A step of t leaves the others alone                                     *)

LEMMA Moves ==
  ASSUME TypeOK, NEW t \in Txs, NEW r \in TxState, tx' = [tx EXCEPT ![t] = r]
  PROVE  /\ tx' \in [Txs -> TxState] /\ tx'[t] = r
         /\ \A s \in Txs \ {t} : tx'[s] = tx[s]
  BY DEF TypeOK

LEMMA OthersKeep ==
  ASSUME TypeOK, \A s \in Txs : TxInv(s), LifeInv,
         NEW t \in Txs, \A s \in Txs \ {t} : tx'[s] = tx[s],
         products \subseteq products',
         \A s \in Txs \ {t} : tx[s].kind = "create" =>
                                tx[s].row \notin products' /\ tx'[t].row # tx[s].row,
         \A p \in products : productLock[p] \in Txs \ {t} =>
           productLock'[p] = productLock[p] /\ gallery'[p] = gallery[p] /\ shown'[p] = shown[p],
         \A i \in Images : uploadLock[i] \in Txs \ {t} =>
           uploadLock'[i] = uploadLock[i] /\ (i \in pending => i \in pending'),
         stored' \cap Sent \subseteq stored,
         TxInv(t)'
  PROVE  \A s \in Txs : TxInv(s)'
  <1>1. SUFFICES ASSUME NEW s \in Txs \ {t} PROVE TxInv(s)'
    OBVIOUS
  <1>2. tx'[s] = tx[s] /\ Shape(s) /\ LockInv(s) /\ CreateInv(s) /\ ConsumeInv(s) /\ GoneInv(s)
    BY DEF TxInv
  <1>3. /\ tx[s].row \in Products \cup {None} /\ tx[s].image \in Images \cup {None}
        /\ tx[s].image \in Sent \cup {None}
    BY TxFields DEF LifeInv
  <1>4. Shape(s)'
    BY <1>2, <1>3 DEF Shape
  <1>5. LockInv(s)'
    <2>1. CASE tx[s].kind \in EditKinds /\ tx[s].pc \in {"consume", "write"}
      <3>1. tx[s].row \in products
        BY <1>2, <2>1 DEF Shape
      <3>2. productLock[tx[s].row] = s
        BY <1>2, <2>1 DEF LockInv
      <3>3. QED
        BY <1>2, <3>1, <3>2 DEF LockInv
    <2>2. CASE ~(tx[s].kind \in EditKinds /\ tx[s].pc \in {"consume", "write"})
      BY <1>2, <2>2 DEF LockInv
    <2>3. QED
      BY <2>1, <2>2
  <1>6. CreateInv(s)'
    BY <1>2, ModelValues DEF CreateInv
  <1>7. ConsumeInv(s)'
    <2>1. CASE Uses(s)
      <3>1. tx[s].image \in Images /\ tx[s].image \in pending /\ uploadLock[tx[s].image] = s
        BY <1>2, <2>1 DEF ConsumeInv, TypeOK
      <3>2. QED
        BY <1>2, <3>1 DEF ConsumeInv
    <2>2. CASE ~Uses(s)
      BY <1>2, <2>2 DEF ConsumeInv, Uses
    <2>3. QED
      BY <2>1, <2>2
  <1>8. GoneInv(s)'
    BY <1>2, <1>3 DEF GoneInv, Shape
  <1>9. QED
    BY <1>4, <1>5, <1>6, <1>7, <1>8 DEF TxInv

LEMMA HandsKeep ==
  ASSUME NEW t \in Txs, \A s \in Txs \ {t} : tx'[s] = tx[s]
  PROVE  /\ tx'[t].pc # "save" => Saving' \subseteq Saving
         /\ Saving \ {tx[t].image} \subseteq Saving'
         /\ tx[t].pc # "save" => Saving \subseteq Saving'
         /\ tx'[t].pc = "save" => Saving' \subseteq Saving \cup {tx'[t].image}
         /\ Discarding \ {tx[t].image} \subseteq Discarding'
         /\ tx[t].pc # "discard" => Discarding \subseteq Discarding'
         /\ tx'[t].pc = "discard" => tx'[t].image \in Discarding'
  <1>1. ASSUME NEW i \in Saving'
        PROVE  \E s \in Txs : tx'[s].pc = "save" /\ tx'[s].image = i
    BY DEF Saving
  <1>2. ASSUME NEW s \in Txs, tx'[s].pc = "save" PROVE tx'[s].image \in Saving'
    BY <1>2 DEF Saving
  <1>3. ASSUME NEW s \in Txs, tx'[s].pc = "discard" PROVE tx'[s].image \in Discarding'
    BY <1>3 DEF Discarding
  <1>4. ASSUME NEW i \in Saving PROVE \E s \in Txs : tx[s].pc = "save" /\ tx[s].image = i
    BY DEF Saving
  <1>5. ASSUME NEW i \in Discarding PROVE \E s \in Txs : tx[s].pc = "discard" /\ tx[s].image = i
    BY DEF Discarding
  <1>6. ASSUME NEW s \in Txs, tx[s].pc = "save" PROVE tx[s].image \in Saving
    BY <1>6 DEF Saving
  <1>7. tx'[t].pc # "save" => Saving' \subseteq Saving
    BY <1>1, <1>6
  <1>8. Saving \ {tx[t].image} \subseteq Saving' /\ (tx[t].pc # "save" => Saving \subseteq Saving')
    BY <1>2, <1>4
  <1>9. tx'[t].pc = "save" => Saving' \subseteq Saving \cup {tx'[t].image}
    BY <1>1, <1>6
  <1>10. /\ Discarding \ {tx[t].image} \subseteq Discarding'
         /\ tx[t].pc # "discard" => Discarding \subseteq Discarding'
    BY <1>3, <1>5
  <1>11. QED
    BY <1>3, <1>7, <1>8, <1>9, <1>10

LEMMA DeadLasts ==
  ASSUME Sent \subseteq Sent',
         Saving' \cup pending' \cup Shown' \subseteq Saving \cup pending \cup Shown \cup unsent
  PROVE  Dead \subseteq Dead'
  <1>1. \A i \in Dead : i \in Sent /\ i \notin Saving \cup pending \cup Shown \cup unsent
    BY DEF Dead, Sent
  <1>2. QED
    BY <1>1 DEF Dead

LEMMA LifeStep ==
  ASSUME LifeInv, NEW t \in Txs, \A s \in Txs \ {t} : tx'[s] = tx[s],
         Sent \subseteq Sent', stored' \cup pending' \cup queue' \cup Shown' \subseteq Sent',
         tx'[t].image \in Sent' \cup {None}, tx'[t].previous \in Sent' \cup {None},
         tx'[t].todo \subseteq Sent',
         Saving' \cap (pending' \cup Shown') = {},
         tx'[t].pc = "save" => tx'[t].image \notin Saving
  PROVE  LifeInv'
  <1>1. \A s \in Txs : /\ tx'[s].image \in Sent' \cup {None}
                       /\ tx'[s].previous \in Sent' \cup {None}
                       /\ tx'[s].todo \subseteq Sent'
    BY DEF LifeInv
  <1>2. ASSUME NEW s \in Txs, NEW u \in Txs, tx'[s].pc = "save", tx'[u].pc = "save",
               tx'[s].image = tx'[u].image
        PROVE  s = u
    <2>1. ASSUME NEW v \in Txs \ {t}, tx'[v].pc = "save" PROVE tx'[v].image \in Saving
      BY <2>1 DEF Saving
    <2>2. CASE s # t /\ u # t
      BY <1>2, <2>2 DEF LifeInv
    <2>3. CASE s = t /\ u # t
      BY <1>2, <2>1, <2>3
    <2>4. CASE s # t /\ u = t
      BY <1>2, <2>1, <2>4
    <2>5. QED
      BY <2>2, <2>3, <2>4
  <1>3. QED
    BY <1>1, <1>2 DEF LifeInv

\* What the other ones delete next stays doomed.
LEMMA StoreStep ==
  ASSUME StoreInv, NEW t \in Txs, \A s \in Txs \ {t} : tx'[s] = tx[s],
         Dead \subseteq Dead',
         ~raced' => /\ ~raced /\ queue' \subseteq Dead' /\ expired \subseteq expired' \cup Dead'
                    /\ DoomedInv(t)'
                    /\ Saving' \cup (pending' \ expired') \cup Shown' \subseteq stored'
  PROVE  StoreInv'
  <1>1. SUFFICES ASSUME ~raced'
                 PROVE  /\ queue' \subseteq Dead' /\ \A s \in Txs : DoomedInv(s)'
                        /\ Saving' \cup (pending' \ expired') \cup Shown' \subseteq stored'
    BY DEF StoreInv
  <1>2. ASSUME NEW s \in Txs \ {t} PROVE DoomedInv(s)'
    <2>1. DoomedInv(s) /\ tx'[s] = tx[s]
      BY <1>1 DEF StoreInv
    <2>2. QED
      BY <1>1, <2>1 DEF DoomedInv
  <1>3. QED
    BY <1>1, <1>2


LEMMA Parts ==
  ASSUME IInv
  PROVE  /\ TypeOK /\ \A t \in Txs : TxInv(t)
         /\ \A t \in Txs : Shape(t) /\ LockInv(t) /\ CreateInv(t) /\ ConsumeInv(t) /\ GoneInv(t)
         /\ \A p \in Products : IsFiniteSet(gallery[p])
         /\ EmptyInv /\ GalleryAgrees /\ UploadsAreUsedOnce
         /\ LifeInv /\ StoreInv /\ LeakInv
  BY DEF IInv, TxInv

LEMMA RowsKeep ==
  ASSUME IInv, UNCHANGED <<products, gallery, shown>>
  PROVE  /\ Shown' = Shown /\ EmptyInv' /\ GalleryAgrees'
         /\ \A p \in Products : IsFiniteSet(gallery'[p])
         /\ Shown \cap pending' = {} => UploadsAreUsedOnce'
         /\ Shown \cap pending = {}
  <1>1. Shown' = Shown
    BY DEF Shown
  <1>2. EmptyInv' /\ GalleryAgrees' /\ \A p \in Products : IsFiniteSet(gallery'[p])
    BY Parts DEF EmptyInv, GalleryAgrees
  <1>3. \A p \in Products : Used(gallery[p]) \subseteq Shown
    BY DEF Shown
  <1>4. Shown \cap pending' = {} => UploadsAreUsedOnce'
    BY <1>3, Parts DEF UploadsAreUsedOnce
  <1>5. Shown \cap pending = {}
    BY Parts DEF UploadsAreUsedOnce, Shown
  <1>6. QED
    BY <1>1, <1>2, <1>4, <1>5

\* A step that writes nothing but the record of t, and locks that are free or its own.
LEMMA QuietStep ==
  ASSUME IInv, NEW t \in Txs, NEW r \in TxState, tx' = [tx EXCEPT ![t] = r],
         UNCHANGED <<stored, rowVars, unsent, raced>>,
         productLock' \in [Products -> Handlers \cup {None}],
         uploadLock' \in [Images -> Handlers \cup {None}],
         \A p \in Products : productLock[p] \in Txs \ {t} => productLock'[p] = productLock[p],
         \A i \in Images : uploadLock[i] \in Txs \ {t} => uploadLock'[i] = uploadLock[i],
         faults' \in faults .. MaxFaults,
         tx[t].pc \in {"save", "discard"} => faults' > 0,
         r.pc # "save", r.image \in Sent \cup {None}, r.previous \in Sent \cup {None},
         r.todo \subseteq Sent,
         \A s \in Txs \ {t} : tx[s].kind = "create" => r.row # tx[s].row,
         TxInv(t)', ~raced => DoomedInv(t)'
  PROVE  IInv'
  <1>1. /\ UNCHANGED <<stored, pending, expired, queue, products, gallery, shown, unsent, raced>>
        /\ Sent' = Sent
    BY DEF rowVars, Sent
  <1>2. tx' \in [Txs -> TxState] /\ tx'[t] = r /\ \A s \in Txs \ {t} : tx'[s] = tx[s]
    BY Parts, Moves
  <1>3. TypeOK'
    <2>1. faults' \in 0 .. MaxFaults
      BY Parts, ModelValues DEF TypeOK
    <2>2. QED
      BY <1>1, <1>2, <2>1, Parts DEF TypeOK
  <1>4. /\ Shown' = Shown /\ EmptyInv' /\ GalleryAgrees' /\ UploadsAreUsedOnce'
        /\ \A p \in Products : IsFiniteSet(gallery'[p])
        /\ Shown \cap pending = {}
    BY <1>1, RowsKeep
  <1>5. \A s \in Txs : TxInv(s)'
    <2>1. \A s \in Txs \ {t} : tx[s].kind = "create" =>
                                 tx[s].row \notin products' /\ tx'[t].row # tx[s].row
      BY <1>1, <1>2, Parts DEF Shape
    <2>2. products \subseteq Products
      BY Parts DEF TypeOK
    <2>3. QED
      BY <1>1, <1>2, <2>1, <2>2, Parts, OthersKeep
  <1>6. /\ Saving' \subseteq Saving
        /\ tx[t].pc # "save" => Saving \subseteq Saving'
        /\ tx[t].pc # "discard" => Discarding \subseteq Discarding'
    BY <1>2, HandsKeep
  <1>7. Dead \subseteq Dead'
    BY <1>1, <1>4, <1>6, DeadLasts
  <1>8. LifeInv'
    <2>1. Saving' \cap (pending' \cup Shown') = {}
      BY <1>1, <1>4, <1>6, Parts DEF LifeInv
    <2>2. stored' \cup pending' \cup queue' \cup Shown' \subseteq Sent'
      BY <1>1, <1>4, Parts DEF LifeInv
    <2>3. QED
      BY <1>1, <1>2, <2>1, <2>2, Parts, LifeStep
  <1>9. StoreInv'
    <2>1. ~raced' => /\ ~raced /\ queue' \subseteq Dead' /\ expired \subseteq expired' \cup Dead'
                     /\ DoomedInv(t)'
                     /\ Saving' \cup (pending' \ expired') \cup Shown' \subseteq stored'
      BY <1>1, <1>4, <1>6, <1>7, Parts DEF StoreInv
    <2>2. QED
      BY <1>2, <1>7, <2>1, Parts, StoreStep
  <1>10. LeakInv'
    <2>1. faults' = 0 => faults = 0 /\ tx[t].pc \notin {"save", "discard"}
      BY Parts, ModelValues DEF TypeOK
    <2>2. QED
      BY <1>1, <1>4, <1>6, <2>1, Parts DEF LeakInv
  <1>11. QED
    BY <1>3, <1>4, <1>5, <1>8, <1>9, <1>10 DEF IInv

\* A record that has no kind, or the kind of no gallery, promises nothing of the rows.
LEMMA Disengaged ==
  ASSUME NEW t \in Txs, \/ tx'[t].kind \notin EditKinds \cup UseKinds
                        \/ tx'[t].pc \notin {"consume", "write"} /\ tx'[t].kind # "create"
  PROVE  LockInv(t)' /\ CreateInv(t)' /\ ConsumeInv(t)'
  BY DEF LockInv, CreateInv, ConsumeInv, Uses, EditKinds, UseKinds


LEMMA Released ==
  ASSUME TypeOK, NEW t \in Txs, ReleaseLocks(t)
  PROVE  /\ productLock' \in [Products -> Handlers \cup {None}]
         /\ uploadLock' \in [Images -> Handlers \cup {None}]
         /\ \A p \in Products : productLock[p] \in Txs \ {t} => productLock'[p] = productLock[p]
         /\ \A i \in Images : uploadLock[i] \in Txs \ {t} => uploadLock'[i] = uploadLock[i]
  BY DEF TypeOK, ReleaseLocks

LEMMA LocksKept ==
  ASSUME TypeOK, NEW t \in Txs, UNCHANGED lockVars
  PROVE  /\ productLock' = productLock /\ uploadLock' = uploadLock
         /\ productLock' \in [Products -> Handlers \cup {None}]
         /\ uploadLock' \in [Images -> Handlers \cup {None}]
         /\ \A p \in Products : productLock[p] \in Txs \ {t} => productLock'[p] = productLock[p]
         /\ \A i \in Images : uploadLock[i] \in Txs \ {t} => uploadLock'[i] = uploadLock[i]
  BY DEF TypeOK, lockVars

LEMMA FaultFacts ==
  ASSUME TypeOK, Fault
  PROVE  faults' \in faults .. MaxFaults /\ faults' > 0
  BY ModelValues DEF TypeOK, Fault

LEMMA NoFault ==
  ASSUME TypeOK, UNCHANGED faults
  PROVE  faults' \in faults .. MaxFaults
  BY ModelValues DEF TypeOK

LEMMA EmptySeen == Distinct(<<>>)
  BY DEF Distinct

\* A request or worker at rest.
LEMMA RestFacts ==
  ASSUME NEW t \in Txs, tx'[t] = Idle
  PROVE  TxInv(t)' /\ DoomedInv(t)'
  <1>1. Shape(t)'
    BY IdleFields, EmptySeen, ModelValues DEF Shape, EditKinds, UseKinds
  <1>2. LockInv(t)' /\ CreateInv(t)' /\ ConsumeInv(t)'
    BY IdleFields, Disengaged DEF EditKinds, UseKinds
  <1>3. GoneInv(t)' /\ DoomedInv(t)'
    BY IdleFields DEF GoneInv, DoomedInv
  <1>4. QED
    BY <1>1, <1>2, <1>3 DEF TxInv

LEMMA NoRow ==
  ASSUME IInv, NEW s \in Txs, tx[s].kind = "create"
  PROVE  tx[s].row \in Products /\ tx[s].row # None /\ tx[s].row \notin products
  BY Parts, ModelValues DEF Shape

LEMMA RollbackStep ==
  ASSUME IInv, NEW t \in Txs, Rollback(t), faults' \in faults .. MaxFaults,
         tx[t].pc \in {"save", "discard"} => faults' > 0
  PROVE  IInv'
  <1>1. /\ tx' = [tx EXCEPT ![t] = Idle] /\ ReleaseLocks(t)
        /\ UNCHANGED <<stored, rowVars, unsent, raced>>
    BY DEF Rollback, Goto
  <1>2. tx'[t] = Idle
    BY <1>1, Parts, IdleFields, Moves
  <1>3. \A s \in Txs \ {t} : tx[s].kind = "create" => Idle.row # tx[s].row
    BY NoRow, IdleFields
  <1>4. QED
    BY <1>1, <1>2, <1>3, IdleFields, Parts, Released, RestFacts, QuietStep

LEMMA RejectSteps ==
  ASSUME IInv, NEW t \in Handlers, RejectUpload(t) \/ RejectRequest(t)
  PROVE  IInv'
  <1>1. t \in Txs
    BY ModelValues
  <1>2. /\ Rollback(t) /\ tx[t].pc \notin {"save", "discard"} /\ UNCHANGED faults
    BY DEF RejectUpload, RejectRequest, Consumes
  <1>3. QED
    BY <1>1, <1>2, Parts, NoFault, RollbackStep

LEMMA AbortStep ==
  ASSUME IInv, NEW t \in Txs, Abort(t)
  PROVE  IInv'
  <1>1. Rollback(t) /\ Fault
    BY DEF Abort
  <1>2. QED
    BY <1>1, Parts, FaultFacts, RollbackStep

LEMMA EndPassStep ==
  ASSUME IInv, NEW w \in Workers, EndPass(w)
  PROVE  IInv'
  <1>1. w \in Txs
    BY ModelValues
  <1>2. /\ tx' = [tx EXCEPT ![w] = Idle] /\ tx[w].pc \notin {"save", "discard"}
        /\ UNCHANGED <<stored, rowVars, lockVars, unsent, faults, raced>>
    BY DEF EndPass, Goto
  <1>3. tx'[w] = Idle
    BY <1>1, <1>2, Parts, IdleFields, Moves
  <1>4. \A s \in Txs \ {w} : tx[s].kind = "create" => Idle.row # tx[s].row
    BY NoRow, IdleFields
  <1>5. UNCHANGED <<stored, rowVars, unsent, raced>> /\ faults' \in faults .. MaxFaults
    BY <1>2, Parts, NoFault
  <1>6. QED
    BY <1>1, <1>2, <1>3, <1>4, <1>5, IdleFields, Parts, LocksKept, RestFacts, QuietStep

-----------------------------------------------------------------------------
(* A deletion from the store is next                                       *)

DiscardRecord(t, i) ==
  [Idle EXCEPT !.pc = "discard", !.kind = tx[t].kind, !.row = tx[t].row, !.image = i]

LEMMA DiscardRecordFields ==
  ASSUME TypeOK, NEW t \in Txs, NEW i \in Images, NEW r, r = DiscardRecord(t, i)
  PROVE  /\ r \in TxState /\ r.pc = "discard" /\ r.kind = tx[t].kind /\ r.row = tx[t].row
         /\ r.image = i /\ r.previous = None /\ r.seen = <<>> /\ r.todo = {}
  BY TxFields, IdleFields DEF DiscardRecord, TxState, Idle

LEMMA ThenDiscardFacts ==
  ASSUME TypeOK, NEW t \in Txs, NEW i \in Images \cup {None}, ThenDiscard(t, i)
  PROVE  \E r \in TxState :
           /\ tx' = [tx EXCEPT ![t] = r]
           /\ IF i = None THEN r = Idle ELSE r = DiscardRecord(t, i)
  <1>1. CASE i = None
    BY <1>1, IdleFields DEF ThenDiscard, Goto
  <1>2. CASE i # None
    BY <1>2, DiscardRecordFields DEF ThenDiscard, Goto, DiscardRecord
  <1>3. QED
    BY <1>1, <1>2

\* What it promises, given that t was a request that knew of no new product.
LEMMA DiscardingFacts ==
  ASSUME TypeOK, NEW t \in Handlers, NEW i \in Images, NEW r, r = DiscardRecord(t, i),
         tx'[t] = r, tx[t].kind \in {"upload", "update", "delete"},
         tx[t].kind = "upload" => tx[t].row \notin Products,
         tx[t].kind \in EditKinds => tx[t].row \in products'
  PROVE  TxInv(t)'
  <1>1. t \in Txs /\ t \notin Workers
    BY ModelValues
  <1>2. /\ r.pc = "discard" /\ r.kind = tx[t].kind /\ r.row = tx[t].row /\ r.image = i
        /\ r.seen = <<>>
    BY <1>1, DiscardRecordFields
  <1> HIDE DEF DiscardRecord
  <1>3. Shape(t)'
    BY <1>1, <1>2, EmptySeen, ModelValues DEF Shape, EditKinds, UseKinds
  <1>4. LockInv(t)' /\ CreateInv(t)' /\ ConsumeInv(t)'
    BY <1>1, <1>2, Disengaged
  <1>5. GoneInv(t)'
    BY <1>2 DEF GoneInv
  <1>6. QED
    BY <1>3, <1>4, <1>5 DEF TxInv

LEMMA SaveFailsStep ==
  ASSUME IInv, NEW t \in Handlers, SaveFails(t)
  PROVE  IInv'
  <1> DEFINE i == tx[t].image
  <1>1. t \in Txs
    BY ModelValues
  <1>2. /\ tx[t].pc = "save" /\ Fault /\ ThenDiscard(t, i)
        /\ UNCHANGED <<stored, rowVars, lockVars, unsent, raced>>
    BY DEF SaveFails
  <1>3. tx[t].kind = "upload" /\ tx[t].row \notin Products /\ i \in Sent /\ i \in Images
    BY <1>1, <1>2, Parts, TxFields DEF Shape, EditKinds, UseKinds, LifeInv, Sent
  <1>4. PICK r \in TxState : tx' = [tx EXCEPT ![t] = r] /\ r = DiscardRecord(t, i)
    BY <1>1, <1>2, <1>3, Parts, ThenDiscardFacts, ModelValues
  <1>5. /\ r.pc = "discard" /\ r.row = tx[t].row /\ r.image = i /\ r.previous = None /\ r.todo = {}
    BY <1>1, <1>3, <1>4, Parts, DiscardRecordFields
  <1>6. tx'[t] = r /\ \A s \in Txs \ {t} : tx'[s] = tx[s]
    BY <1>1, <1>4, Parts, Moves
  <1>7. TxInv(t)'
    BY <1>1, <1>3, <1>4, <1>6, Parts, DiscardingFacts DEF EditKinds
  <1>8. DoomedInv(t)'
    <2>1. i \in Saving /\ i \notin pending \cup Shown
      BY <1>1, <1>2, Parts DEF LifeInv, Saving
    <2>2. \A s \in Txs : tx'[s].pc = "save" => tx'[s].image # i
      BY <1>1, <1>2, <1>5, <1>6, Parts DEF LifeInv
    <2>3. i \notin Saving'
      BY <2>2 DEF Saving
    <2>4. Sent' = Sent /\ pending' = pending /\ Shown' = Shown
      BY <1>2 DEF rowVars, Sent, Shown
    <2>5. i \in Dead'
      BY <1>3, <2>1, <2>3, <2>4 DEF Dead
    <2>6. QED
      BY <1>5, <1>6, <2>5 DEF DoomedInv
  <1>9. \A s \in Txs \ {t} : tx[s].kind = "create" => r.row # tx[s].row
    BY <1>3, <1>5, NoRow
  <1>10. faults' \in faults .. MaxFaults /\ faults' > 0
    BY <1>2, Parts, FaultFacts
  <1>11. UNCHANGED <<stored, rowVars, unsent, raced>>
    BY <1>2
  <1>12. QED
    BY <1>1, <1>2, <1>3, <1>4, <1>5, <1>7, <1>8, <1>9, <1>10, <1>11, Parts, LocksKept, QuietStep


-----------------------------------------------------------------------------
(* Requests and passes begin                                               *)

LEMMA BeginStep ==
  ASSUME IInv, NEW t \in Txs, NEW r \in TxState, Begin(t, r),
         r.pc # "save", r.image \in Sent \cup {None}, r.previous \in Sent \cup {None},
         r.todo \subseteq Sent,
         \A s \in Txs \ {t} : tx[s].kind = "create" => r.row # tx[s].row,
         tx'[t] = r => TxInv(t)', tx'[t] = r /\ ~raced => DoomedInv(t)'
  PROVE  IInv'
  <1>1. /\ tx[t].pc = "idle" /\ tx' = [tx EXCEPT ![t] = r]
        /\ UNCHANGED <<stored, rowVars, lockVars, unsent, faults, raced>>
    BY DEF Begin, Goto
  <1>2. tx'[t] = r
    BY <1>1, Parts, Moves
  <1>3. UNCHANGED <<stored, rowVars, unsent, raced>> /\ faults' \in faults .. MaxFaults
    BY <1>1, Parts, NoFault
  <1>4. QED
    BY <1>1, <1>2, <1>3, Parts, LocksKept, QuietStep

LEMMA GalleryFacts ==
  ASSUME IInv, NEW p \in Products
  PROVE  /\ gallery[p] \in SUBSET GalleryRow /\ IsFiniteSet(gallery[p])
         /\ Agrees(gallery[p], shown[p])
         /\ Used(gallery[p]) \subseteq Images /\ Used(gallery[p]) \subseteq Sent
         /\ Used(gallery[p]) \subseteq Shown
         /\ shown[p] \in Sent \cup {None} /\ shown[p] \in Images \cup {None}
         /\ Used(gallery[p]) \cap pending = {}
  <1>1. /\ gallery[p] \in SUBSET GalleryRow /\ IsFiniteSet(gallery[p])
        /\ Agrees(gallery[p], shown[p])
    BY Parts DEF TypeOK, GalleryAgrees, Agrees
  <1>2. Used(gallery[p]) \subseteq Shown /\ Used(gallery[p]) \subseteq Sent
    BY Parts DEF LifeInv, Shown
  <1>3. shown[p] \in Used(gallery[p]) \cup {None}
    BY <1>1, AgreesFacts
  <1>4. Used(gallery[p]) \cap pending = {}
    BY Parts DEF UploadsAreUsedOnce
  <1>5. QED
    BY <1>1, <1>2, <1>3, <1>4 DEF Sent

LEMMA PendingSent ==
  ASSUME IInv
  PROVE  pending \subseteq Sent /\ expired \subseteq pending /\ pending \subseteq Images
         /\ queue \subseteq Sent
  BY Parts DEF LifeInv, TypeOK

LEMMA ConsumerFields ==
  ASSUME NEW kind \in UseKinds, NEW p \in Products, NEW i \in Images,
         NEW r, r = Consumer(kind, p, i)
  PROVE  /\ r \in TxState /\ r.pc = "lock" /\ r.kind = kind /\ r.row = p /\ r.image = i
         /\ r.previous = None /\ r.seen = <<>> /\ r.todo = {} /\ r.existing = None
  <1>1. ASSUME NEW f \in BOOLEAN,
               r = [Idle EXCEPT !.pc = "lock", !.kind = kind, !.row = p, !.image = i, !.fresh = f]
        PROVE  /\ r \in TxState /\ r.pc = "lock" /\ r.kind = kind /\ r.row = p /\ r.image = i
               /\ r.previous = None /\ r.seen = <<>> /\ r.todo = {} /\ r.existing = None
    <2>1. kind \in {"create", "update", "attach"}
      BY DEF UseKinds
    <2>2. QED
      BY <1>1, <2>1, IdleFields DEF TxState, Idle
  <1>2. r = [Idle EXCEPT !.pc = "lock", !.kind = kind, !.row = p, !.image = i,
                         !.fresh = (i \in pending \ expired)]
    BY DEF Consumer
  <1>3. CASE i \in pending \ expired
    <2>1. (i \in pending \ expired) = TRUE
      BY <1>3
    <2>2. QED
      BY <1>1, <1>2, <2>1, Zenon
  <1>4. CASE i \notin pending \ expired
    <2>1. (i \in pending \ expired) = FALSE
      BY <1>4
    <2>2. QED
      BY <1>1, <1>2, <2>1, Zenon
  <1>5. QED
    BY <1>3, <1>4

LEMMA BeginCreateStep ==
  ASSUME IInv, NEW t \in Handlers, NEW p \in Products, NEW i \in pending, BeginCreate(t, p, i)
  PROVE  IInv'
  <1> DEFINE r == [Consumer("create", p, i) EXCEPT !.pc = "consume"]
  <1>1. t \in Txs /\ t \notin Workers /\ i \in Images /\ i \in Sent
    BY ModelValues, PendingSent
  <1>2. Begin(t, r) /\ p \notin products /\ p \notin {tx[s].row : s \in Handlers}
    BY DEF BeginCreate
  <1>3. /\ r \in TxState /\ r.pc = "consume" /\ r.kind = "create" /\ r.row = p /\ r.image = i
        /\ r.previous = None /\ r.seen = <<>> /\ r.todo = {} /\ r.existing = None
    <2>1. \A q : q = Consumer("create", p, i) =>
            /\ q \in TxState /\ q.kind = "create" /\ q.row = p /\ q.image = i
            /\ q.previous = None /\ q.seen = <<>> /\ q.todo = {} /\ q.existing = None
      BY <1>1, ConsumerFields DEF UseKinds
    <2>2. QED
      BY <2>1 DEF TxState
  <1> HIDE DEF r
  <1>4. \A s \in Txs \ {t} : tx[s].kind = "create" => r.row # tx[s].row
    BY <1>2, <1>3, Parts, ModelValues DEF Shape
  <1>5. ASSUME tx'[t] = r PROVE TxInv(t)' /\ DoomedInv(t)'
    <2>1. UNCHANGED <<products, rowVars>> /\ \A s \in Txs \ {t} : tx'[s] = tx[s]
      BY <1>1, <1>2, <1>3, Parts, Moves DEF Begin, Goto, rowVars
    <2>2. Shape(t)'
      BY <1>1, <1>2, <1>3, <1>5, <2>1, EmptySeen, ModelValues DEF Shape, EditKinds, UseKinds
    <2>3. LockInv(t)' /\ ConsumeInv(t)' /\ GoneInv(t)' /\ DoomedInv(t)'
      BY <1>3, <1>5 DEF LockInv, ConsumeInv, Uses, GoneInv, DoomedInv, EditKinds
    <2>4. CreateInv(t)'
      BY <1>2, <1>3, <1>5, <2>1, ModelValues DEF CreateInv
    <2>5. QED
      BY <2>2, <2>3, <2>4 DEF TxInv
  <1>6. QED
    BY <1>1, <1>2, <1>3, <1>4, <1>5, BeginStep

\* The other ones ask for the row of a product that is there.
LEMMA BeginEdit ==
  ASSUME IInv, NEW t \in Handlers, NEW r \in TxState, Begin(t, r),
         r.pc = "lock", r.kind \in EditKinds, r.row \in products,
         r.image \in Sent \cup {None}, r.previous \in Sent \cup {None}, r.todo = {},
         Distinct(r.seen), r.kind \in {"update", "attach"} => r.image # None,
         r.kind = "reorder" => r.seen # <<>>
  PROVE  IInv'
  <1>1. t \in Txs /\ t \notin Workers
    BY ModelValues
  <1>2. \A s \in Txs \ {t} : tx[s].kind = "create" => r.row # tx[s].row
    BY NoRow
  <1>3. ASSUME tx'[t] = r PROVE TxInv(t)' /\ DoomedInv(t)'
    <2>1. products' = products
      BY DEF Begin, rowVars
    <2>2. r.kind # "create" /\ r.row \in Products /\ (r.kind \in UseKinds => r.image # None)
      BY Parts DEF EditKinds, UseKinds, TypeOK
    <2>3. Shape(t)'
      BY <1>1, <1>3, <2>1, <2>2 DEF Shape, EditKinds
    <2>4. LockInv(t)' /\ CreateInv(t)' /\ ConsumeInv(t)'
      BY <1>1, <1>3, <2>2, Disengaged
    <2>5. GoneInv(t)' /\ DoomedInv(t)'
      BY <1>3 DEF GoneInv, DoomedInv
    <2>6. QED
      BY <2>3, <2>4, <2>5 DEF TxInv
  <1>4. QED
    BY <1>1, <1>2, <1>3, BeginStep

LEMMA BeginUpdateStep ==
  ASSUME IInv, NEW t \in Handlers, NEW p \in Editable,
         NEW i \in pending \cup Used(gallery[p]), BeginUpdate(t, p, i)
  PROVE  IInv'
  <1> DEFINE r == [Consumer("update", p, i) EXCEPT !.previous = shown[p]]
  <1>1. p \in products /\ p \in Products /\ Begin(t, r)
    BY ProductAssumption DEF BeginUpdate
  <1>2. i \in Sent /\ i \in Images /\ shown[p] \in Sent \cup {None} /\ shown[p] \in Images \cup {None}
    BY <1>1, GalleryFacts, PendingSent
  <1>3. /\ r \in TxState /\ r.pc = "lock" /\ r.kind = "update" /\ r.row = p /\ r.image = i
        /\ r.previous = shown[p] /\ r.seen = <<>> /\ r.todo = {}
    <2>1. \A q : q = Consumer("update", p, i) =>
            /\ q \in TxState /\ q.pc = "lock" /\ q.kind = "update" /\ q.row = p /\ q.image = i
            /\ q.seen = <<>> /\ q.todo = {}
      BY <1>1, <1>2, ConsumerFields DEF UseKinds
    <2>2. QED
      BY <1>2, <2>1 DEF TxState
  <1> HIDE DEF r
  <1>4. QED
    BY <1>1, <1>2, <1>3, EmptySeen, ModelValues, BeginEdit DEF EditKinds

LEMMA BeginAttachStep ==
  ASSUME IInv, NEW t \in Handlers, NEW p \in Editable, NEW i \in pending, NEW lead \in BOOLEAN,
         BeginAttach(t, p, i, lead)
  PROVE  IInv'
  <1> DEFINE r == [Consumer("attach", p, i) EXCEPT !.lead = lead]
  <1>1. p \in products /\ p \in Products /\ Begin(t, r) /\ i \in Sent /\ i \in Images
    BY ProductAssumption, PendingSent DEF BeginAttach
  <1>2. /\ r \in TxState /\ r.pc = "lock" /\ r.kind = "attach" /\ r.row = p /\ r.image = i
        /\ r.previous = None /\ r.seen = <<>> /\ r.todo = {}
    <2>1. \A q : q = Consumer("attach", p, i) =>
            /\ q \in TxState /\ q.pc = "lock" /\ q.kind = "attach" /\ q.row = p /\ q.image = i
            /\ q.previous = None /\ q.seen = <<>> /\ q.todo = {}
      BY <1>1, ConsumerFields DEF UseKinds
    <2>2. QED
      BY <2>1 DEF TxState
  <1> HIDE DEF r
  <1>3. QED
    BY <1>1, <1>2, EmptySeen, ModelValues, BeginEdit DEF EditKinds

LEMMA BeginReorderStep ==
  ASSUME IInv, NEW t \in Handlers, NEW p \in Editable,
         NEW order \in SetToSeqs(Used(gallery[p])), BeginReorder(t, p, order)
  PROVE  IInv'
  <1> DEFINE r == [Idle EXCEPT !.pc = "lock", !.kind = "reorder", !.row = p, !.seen = order]
             n == Cardinality(Used(gallery[p]))
  <1>1. p \in products /\ p \in Products /\ Begin(t, r) /\ order # <<>>
    BY ProductAssumption DEF BeginReorder
  <1>2. n \in Nat /\ Used(gallery[p]) \subseteq Images
    BY <1>1, GalleryFacts, UsedCardinality, FS_CardinalityType
  <1>3. order \in [1 .. n -> Used(gallery[p])] /\ \A j, k \in 1 .. n : j # k => order[j] # order[k]
    BY DEF SetToSeqs
  <1>4. order \in Seq(Images)
    <2>1. order \in [1 .. n -> Images]
      BY <1>2, <1>3
    <2>2. QED
      BY <1>2, <2>1
  <1>5. Distinct(order)
    BY <1>3 DEF Distinct
  <1>6. /\ r \in TxState /\ r.pc = "lock" /\ r.kind = "reorder" /\ r.row = p /\ r.image = None
        /\ r.previous = None /\ r.seen = order /\ r.todo = {}
    BY <1>1, <1>4, IdleFields DEF TxState, Idle
  <1> HIDE DEF r
  <1>7. QED
    BY <1>1, <1>5, <1>6, BeginEdit DEF EditKinds

LEMMA BeginDeleteStep ==
  ASSUME IInv, NEW t \in Handlers, NEW p \in Editable, NEW i \in Used(gallery[p]) \cup {None},
         BeginDelete(t, p, i)
  PROVE  IInv'
  <1> DEFINE r == [Idle EXCEPT !.pc = "lock", !.kind = "delete", !.row = p, !.image = i]
  <1>1. p \in products /\ p \in Products /\ Begin(t, r)
    BY ProductAssumption DEF BeginDelete
  <1>2. i \in Sent \cup {None} /\ i \in Images \cup {None}
    BY <1>1, GalleryFacts
  <1>3. /\ r \in TxState /\ r.pc = "lock" /\ r.kind = "delete" /\ r.row = p /\ r.image = i
        /\ r.previous = None /\ r.seen = <<>> /\ r.todo = {}
    BY <1>1, <1>2, IdleFields DEF TxState, Idle
  <1> HIDE DEF r
  <1>4. QED
    BY <1>1, <1>2, <1>3, EmptySeen, BeginEdit DEF EditKinds

\* A record of a worker.
LEMMA WorkerFacts ==
  ASSUME NEW w \in Workers, tx'[w].pc \in {"sweep", "swept", "retry", "retried"},
         tx'[w].kind \in {"none", "cleanup"}, tx'[w].row \notin Products, Distinct(tx'[w].seen),
         tx'[w].pc \in {"swept", "retried"} => tx'[w].image # None /\ tx'[w].image \notin stored'
  PROVE  TxInv(w)'
  <1>1. w \in Txs /\ w \notin Handlers
    BY ModelValues
  <1>2. Shape(w)'
    BY <1>1 DEF Shape, EditKinds, UseKinds
  <1>3. LockInv(w)' /\ CreateInv(w)' /\ ConsumeInv(w)'
    BY <1>1, Disengaged DEF EditKinds, UseKinds
  <1>4. GoneInv(w)'
    BY DEF GoneInv
  <1>5. QED
    BY <1>2, <1>3, <1>4 DEF TxInv

LEMMA BeginPassStep ==
  ASSUME IInv, NEW w \in Workers, BeginPass(w)
  PROVE  IInv'
  <1> DEFINE r == [Idle EXCEPT !.pc = "sweep", !.kind = "cleanup", !.todo = expired]
  <1>1. w \in Txs /\ Begin(w, r)
    BY ModelValues DEF BeginPass
  <1>2. expired \subseteq Sent /\ expired \subseteq Images
    BY PendingSent
  <1>3. /\ r \in TxState /\ r.pc = "sweep" /\ r.kind = "cleanup" /\ r.row = None /\ r.image = None
        /\ r.previous = None /\ r.seen = <<>> /\ r.todo = expired
    BY <1>2, IdleFields DEF TxState, Idle
  <1> HIDE DEF r
  <1>4. \A s \in Txs \ {w} : tx[s].kind = "create" => r.row # tx[s].row
    BY <1>3, NoRow
  <1>5. ASSUME tx'[w] = r PROVE TxInv(w)' /\ DoomedInv(w)'
    <2>1. expired' = expired
      BY <1>1 DEF Begin, rowVars
    <2>2. QED
      BY <1>3, <1>5, <2>1, WorkerFacts, EmptySeen, ModelValues DEF DoomedInv
  <1>6. QED
    BY <1>1, <1>2, <1>3, <1>4, <1>5, BeginStep


-----------------------------------------------------------------------------
(* Locks and reads                                                         *)

LEMMA LockProductStep ==
  ASSUME IInv, NEW t \in Handlers, LockProduct(t)
  PROVE  IInv'
  <1> DEFINE p == tx[t].row
             e == IF tx[t].kind \in {"update", "delete"} THEN shown[p] ELSE tx[t].existing
             q == IF tx[t].kind \in {"attach", "delete"} THEN Listing(gallery[p]) ELSE tx[t].seen
             c == IF tx[t].kind \in {"update", "attach"} THEN "consume" ELSE "write"
             r == [tx[t] EXCEPT !.existing = e, !.seen = q, !.pc = c]
  <1>1. t \in Txs /\ t \notin Workers
    BY ModelValues
  <1>2. /\ tx[t].pc = "lock" /\ productLock[p] = None
        /\ productLock' = [productLock EXCEPT ![p] = t] /\ tx' = [tx EXCEPT ![t] = r]
        /\ UNCHANGED <<stored, rowVars, uploadLock, unsent, faults, raced>>
    BY DEF LockProduct, Goto
  <1>3. /\ tx[t].kind \in EditKinds /\ p \in products /\ p \in Products
        /\ Shape(t)
    BY <1>1, <1>2, Parts DEF Shape, TypeOK
  <1>4. /\ Listing(gallery[p]) \in Seq(Images) /\ Distinct(Listing(gallery[p]))
        /\ shown[p] \in Images \cup {None}
    BY <1>3, GalleryFacts, ListingFacts
  <1>5. /\ q \in Seq(Images) /\ e \in Images \cup {None} /\ Distinct(q)
        /\ c \in {"consume", "write"}
        /\ tx[t].kind \in {"update", "delete"} => e = shown[p]
        /\ tx[t].kind \in {"attach", "delete"} => q = Listing(gallery[p])
        /\ tx[t].kind \in {"update", "attach"} => c = "consume"
        /\ tx[t].kind \notin {"update", "attach"} => c = "write"
        /\ tx[t].kind = "reorder" => q = tx[t].seen
    BY <1>1, <1>3, <1>4, Parts, TxFields DEF Shape
  <1> HIDE DEF e, q, c
  <1>6. /\ r \in TxState /\ r.pc = c /\ r.kind = tx[t].kind /\ r.row = p /\ r.image = tx[t].image
        /\ r.previous = tx[t].previous /\ r.existing = e /\ r.seen = q /\ r.todo = tx[t].todo
    <2>1. tx[t] \in TxState
      BY <1>1, Parts, TxFields
    <2>2. /\ q \in Seq(Images) /\ e \in Images \cup {None}
          /\ c \in {"idle", "save", "lock", "consume", "write", "discard",
                    "sweep", "swept", "retry", "retried"}
      BY <1>5
    <2>3. r \in TxState
      BY <2>1, <2>2 DEF TxState
    <2>4. QED
      BY <2>1, <2>3 DEF TxState
  <1> HIDE DEF r
  <1>7. tx'[t] = r /\ UNCHANGED <<products, gallery, shown>>
    BY <1>1, <1>2, <1>6, Parts, Moves DEF rowVars
  <1>8. /\ productLock' \in [Products -> Handlers \cup {None}] /\ productLock'[p] = t
        /\ \A o \in Products : productLock[o] \in Txs \ {t} => productLock'[o] = productLock[o]
    BY <1>2, <1>3, Parts, ModelValues DEF TypeOK
  <1>9. TxInv(t)'
    <2>1. Shape(t)'
      BY <1>1, <1>3, <1>5, <1>6, <1>7 DEF Shape, EditKinds, UseKinds
    <2>2. LockInv(t)'
      BY <1>5, <1>6, <1>7, <1>8 DEF LockInv
    <2>3. CreateInv(t)' /\ ConsumeInv(t)' /\ GoneInv(t)'
      BY <1>3, <1>5, <1>6, <1>7 DEF CreateInv, ConsumeInv, Uses, GoneInv, EditKinds, UseKinds
    <2>4. QED
      BY <2>1, <2>2, <2>3 DEF TxInv
  <1>10. DoomedInv(t)'
    BY <1>5, <1>6, <1>7 DEF DoomedInv
  <1>11. \A s \in Txs \ {t} : tx[s].kind = "create" => r.row # tx[s].row
    BY <1>3, <1>6, NoRow
  <1>12. r.image \in Sent \cup {None} /\ r.previous \in Sent \cup {None} /\ r.todo \subseteq Sent
    BY <1>1, <1>6, Parts DEF LifeInv
  <1>13. /\ UNCHANGED <<stored, rowVars, unsent, raced>> /\ faults' \in faults .. MaxFaults
         /\ uploadLock' \in [Images -> Handlers \cup {None}] /\ uploadLock' = uploadLock
    BY <1>2, Parts, NoFault DEF TypeOK
  <1>14. r.pc # "save" /\ tx[t].pc \notin {"save", "discard"}
    BY <1>2, <1>5, <1>6
  <1>15. QED
    BY <1>1, <1>2, <1>6, <1>8, <1>9, <1>10, <1>11, <1>12, <1>13, <1>14, QuietStep

\* The upload is found and locked, or there is none to consume.
LEMMA ConsumedStep ==
  ASSUME IInv, NEW t \in Handlers, tx[t].pc = "consume",
         tx' = [tx EXCEPT ![t] = [tx[t] EXCEPT !.pc = "write", !.fresh = FALSE]],
         UNCHANGED <<stored, rowVars, productLock, unsent, faults, raced>>,
         uploadLock' \in [Images -> Handlers \cup {None}],
         \A i \in Images : uploadLock[i] \in Txs \ {t} => uploadLock'[i] = uploadLock[i],
         \/ tx[t].kind = "update" /\ tx[t].image = tx[t].existing
         \/ tx[t].image \in pending /\ uploadLock'[tx[t].image] = t
  PROVE  IInv'
  <1> DEFINE r == [tx[t] EXCEPT !.pc = "write", !.fresh = FALSE]
  <1>1. t \in Txs /\ t \notin Workers
    BY ModelValues
  <1>2. /\ r \in TxState /\ r.pc = "write" /\ r.kind = tx[t].kind /\ r.row = tx[t].row
        /\ r.image = tx[t].image /\ r.previous = tx[t].previous /\ r.existing = tx[t].existing
        /\ r.seen = tx[t].seen /\ r.todo = tx[t].todo
    BY <1>1, Parts, TxFields DEF TxState
  <1>3. tx' = [tx EXCEPT ![t] = r]
    OBVIOUS
  <1> HIDE DEF r
  <1>4. tx'[t] = r /\ \A s \in Txs \ {t} : tx'[s] = tx[s]
    BY <1>1, <1>2, <1>3, Parts, Moves
  <1>5. Shape(t) /\ LockInv(t) /\ CreateInv(t)
    BY <1>1, Parts
  <1>6. UNCHANGED <<pending, products, gallery, shown>>
    BY DEF rowVars
  <1>7. TxInv(t)'
    <2>1. Shape(t)'
      BY <1>1, <1>2, <1>4, <1>5, <1>6 DEF Shape, EditKinds, UseKinds
    <2>2. LockInv(t)'
      BY <1>2, <1>4, <1>5, <1>6 DEF LockInv
    <2>3. CreateInv(t)'
      BY <1>2, <1>4, <1>5, ModelValues DEF CreateInv
    <2>4. ConsumeInv(t)' /\ GoneInv(t)'
      BY <1>2, <1>4, <1>6 DEF ConsumeInv, Uses, GoneInv
    <2>5. QED
      BY <2>1, <2>2, <2>3, <2>4 DEF TxInv
  <1>8. DoomedInv(t)'
    BY <1>2, <1>4 DEF DoomedInv
  <1>9. \A s \in Txs \ {t} : tx[s].kind = "create" => r.row # tx[s].row
    BY <1>1, <1>2, Parts, ModelValues DEF Shape, CreateInv
  <1>10. r.image \in Sent \cup {None} /\ r.previous \in Sent \cup {None} /\ r.todo \subseteq Sent
    BY <1>1, <1>2, Parts DEF LifeInv
  <1>11. /\ UNCHANGED <<stored, rowVars, unsent, raced>> /\ faults' \in faults .. MaxFaults
         /\ productLock' \in [Products -> Handlers \cup {None}] /\ productLock' = productLock
    BY Parts, NoFault DEF TypeOK
  <1>12. QED
    BY <1>1, <1>2, <1>3, <1>7, <1>8, <1>9, <1>10, <1>11, QuietStep

LEMMA ConsumeSteps ==
  ASSUME IInv, NEW t \in Handlers, KeepImage(t) \/ ConsumePending(t)
  PROVE  IInv'
  <1>1. CASE KeepImage(t)
    <2>1. /\ tx[t].pc = "consume" /\ tx[t].kind = "update" /\ tx[t].image = tx[t].existing
          /\ tx' = [tx EXCEPT ![t] = [tx[t] EXCEPT !.pc = "write", !.fresh = FALSE]]
          /\ UNCHANGED <<stored, rowVars, lockVars, unsent, faults, raced>>
      BY <1>1 DEF KeepImage, Goto
    <2>2. uploadLock' = uploadLock /\ uploadLock' \in [Images -> Handlers \cup {None}]
          /\ UNCHANGED <<stored, rowVars, productLock, unsent, faults, raced>>
      BY <2>1, Parts DEF TypeOK, lockVars
    <2>3. QED
      BY <2>1, <2>2, ConsumedStep
  <1>2. CASE ConsumePending(t)
    <2>1. /\ tx[t].pc = "consume" /\ tx[t].image \in pending /\ uploadLock[tx[t].image] = None
          /\ uploadLock' = [uploadLock EXCEPT ![tx[t].image] = t]
          /\ tx' = [tx EXCEPT ![t] = [tx[t] EXCEPT !.pc = "write", !.fresh = FALSE]]
          /\ UNCHANGED <<stored, rowVars, productLock, unsent, faults, raced>>
      BY <1>2 DEF ConsumePending, Consumes, Goto
    <2>2. tx[t].image \in Images
      BY <2>1, PendingSent
    <2>3. /\ uploadLock' \in [Images -> Handlers \cup {None}] /\ uploadLock'[tx[t].image] = t
          /\ \A i \in Images : uploadLock[i] \in Txs \ {t} => uploadLock'[i] = uploadLock[i]
      BY <2>1, <2>2, Parts, ModelValues DEF TypeOK
    <2>4. QED
      BY <2>1, <2>3, ConsumedStep
  <1>3. QED
    BY <1>1, <1>2

-----------------------------------------------------------------------------
(* The worker between two deletions                                        *)

\* What a worker has in its record in a pass.
LEMMA PassFields ==
  ASSUME IInv, NEW w \in Workers, tx[w].pc # "idle"
  PROVE  /\ w \in Txs /\ w \notin Handlers
         /\ tx[w].pc \in {"sweep", "swept", "retry", "retried"}
         /\ tx[w].kind \in {"none", "cleanup"} /\ tx[w].row \notin Products
         /\ Distinct(tx[w].seen)
         /\ tx[w].image \in Sent \cup {None} /\ tx[w].previous \in Sent \cup {None}
         /\ tx[w].todo \subseteq Sent
  BY ModelValues, Parts DEF Shape, LifeInv, EditKinds, UseKinds

\* And after a step of it.
LEMMA PassStep ==
  ASSUME IInv, NEW w \in Workers, tx[w].pc # "idle",
         NEW r \in TxState, tx' = [tx EXCEPT ![w] = r],
         r.pc \in {"sweep", "swept", "retry", "retried"},
         r.kind = tx[w].kind, r.row = tx[w].row, r.seen = tx[w].seen,
         r.pc \in {"swept", "retried"} => r.image # None /\ r.image \notin stored'
  PROVE  /\ tx'[w] = r /\ \A s \in Txs \ {w} : tx'[s] = tx[s]
         /\ tx' \in [Txs -> TxState]
         /\ \A s \in Txs \ {w} : tx[s].kind = "create" => r.row # tx[s].row
         /\ TxInv(w)'
  <1>1. /\ w \in Txs /\ tx[w].kind \in {"none", "cleanup"} /\ tx[w].row \notin Products
        /\ Distinct(tx[w].seen)
    BY PassFields
  <1>2. /\ tx'[w] = r /\ (\A s \in Txs \ {w} : tx'[s] = tx[s]) /\ tx' \in [Txs -> TxState]
    BY <1>1, Parts, Moves
  <1>3. TxInv(w)'
    BY <1>1, <1>2, WorkerFacts
  <1>4. \A s \in Txs \ {w} : tx[s].kind = "create" => r.row # tx[s].row
    BY <1>1, NoRow
  <1>5. QED
    BY <1>2, <1>3, <1>4

LEMMA SelectQueueStep ==
  ASSUME IInv, NEW w \in Workers, SelectQueue(w)
  PROVE  IInv'
  <1> DEFINE r == [tx[w] EXCEPT !.pc = "retry", !.todo = queue]
  <1>1. /\ tx[w].pc = "sweep" /\ tx' = [tx EXCEPT ![w] = r]
        /\ UNCHANGED <<stored, rowVars, lockVars, unsent, faults, raced>>
    BY DEF SelectQueue, Goto
  <1>2. /\ w \in Txs /\ tx[w].image \in Sent \cup {None} /\ tx[w].previous \in Sent \cup {None}
        /\ queue \subseteq Sent /\ queue \subseteq Images
    BY <1>1, PassFields, PendingSent DEF Sent
  <1>3. /\ r \in TxState /\ r.pc = "retry" /\ r.image = tx[w].image /\ r.kind = tx[w].kind
        /\ r.row = tx[w].row /\ r.seen = tx[w].seen /\ r.previous = tx[w].previous
        /\ r.todo = queue
    BY <1>2, Parts, TxFields DEF TxState
  <1> HIDE DEF r
  <1>4. /\ tx'[w] = r /\ \A s \in Txs \ {w} : tx'[s] = tx[s]
        /\ \A s \in Txs \ {w} : tx[s].kind = "create" => r.row # tx[s].row
        /\ TxInv(w)'
    BY <1>1, <1>3, PassStep
  <1>5. ~raced => DoomedInv(w)'
    <2>1. Saving' \subseteq Saving
      BY <1>2, <1>3, <1>4, HandsKeep
    <2>2. Sent' = Sent /\ pending' = pending /\ Shown' = Shown
      BY <1>1 DEF rowVars, Sent, Shown
    <2>3. Dead \subseteq Dead'
      BY <2>1, <2>2, DeadLasts
    <2>4. ~raced => queue \subseteq Dead'
      BY <2>3, Parts DEF StoreInv
    <2>5. QED
      BY <1>3, <1>4, <2>4 DEF DoomedInv
  <1>6. UNCHANGED <<stored, rowVars, unsent, raced>> /\ faults' \in faults .. MaxFaults
    BY <1>1, Parts, NoFault
  <1>7. QED
    BY <1>1, <1>2, <1>3, <1>4, <1>5, <1>6, Parts, LocksKept, QuietStep

LEMMA SkipFileStep ==
  ASSUME IInv, NEW w \in Workers, NEW i \in Images, SkipFile(w, i)
  PROVE  IInv'
  <1> DEFINE r == [tx[w] EXCEPT !.todo = tx[w].todo \ {i}]
  <1>1. /\ tx[w].pc \in {"sweep", "retry"} /\ Fault /\ tx' = [tx EXCEPT ![w] = r]
        /\ UNCHANGED <<stored, rowVars, lockVars, unsent, raced>>
    BY DEF SkipFile, Goto
  <1>2. /\ w \in Txs /\ tx[w].image \in Sent \cup {None} /\ tx[w].previous \in Sent \cup {None}
        /\ tx[w].todo \subseteq Sent
    BY <1>1, PassFields
  <1>3. /\ r \in TxState /\ r.pc = tx[w].pc /\ r.image = tx[w].image /\ r.kind = tx[w].kind
        /\ r.row = tx[w].row /\ r.seen = tx[w].seen /\ r.previous = tx[w].previous
        /\ r.todo = tx[w].todo \ {i}
    BY <1>2, Parts, TxFields DEF TxState
  <1> HIDE DEF r
  <1>4. /\ tx'[w] = r /\ \A s \in Txs \ {w} : tx'[s] = tx[s]
        /\ \A s \in Txs \ {w} : tx[s].kind = "create" => r.row # tx[s].row
        /\ TxInv(w)'
    BY <1>1, <1>3, PassStep
  <1>5. ~raced => DoomedInv(w)'
    <2>1. Saving' \subseteq Saving
      BY <1>1, <1>2, <1>3, <1>4, HandsKeep
    <2>2. Sent' = Sent /\ pending' = pending /\ Shown' = Shown /\ expired' = expired
      BY <1>1 DEF rowVars, Sent, Shown
    <2>3. Dead \subseteq Dead'
      BY <2>1, <2>2, DeadLasts
    <2>4. ~raced => DoomedInv(w)
      BY <1>2, Parts DEF StoreInv
    <2>5. QED
      BY <1>1, <1>3, <1>4, <2>2, <2>3, <2>4 DEF DoomedInv
  <1>6. /\ UNCHANGED <<stored, rowVars, unsent, raced>> /\ faults' \in faults .. MaxFaults
        /\ faults' > 0
    BY <1>1, Parts, FaultFacts
  <1>7. r.pc # "save" /\ r.todo \subseteq Sent
    BY <1>1, <1>2, <1>3
  <1>8. QED
    BY <1>1, <1>2, <1>3, <1>4, <1>5, <1>6, <1>7, Parts, LocksKept, QuietStep

-----------------------------------------------------------------------------
(* Files come and go                                                       *)

LEMMA HandsSent ==
  ASSUME IInv
  PROVE  Saving \subseteq Sent /\ Discarding \subseteq Sent
  BY Parts DEF Saving, Discarding, LifeInv, Shape

\* A step that leaves the galleries and the locks alone.
LEMMA FileStep ==
  ASSUME IInv, NEW t \in Txs, \A s \in Txs \ {t} : tx'[s] = tx[s], tx' \in [Txs -> TxState],
         UNCHANGED <<products, gallery, shown, lockVars, raced>>,
         stored' \cup pending' \cup queue' \subseteq Sent', unsent' \subseteq unsent,
         expired' \subseteq pending', faults' \in faults .. MaxFaults,
         tx'[t].image \in Sent' \cup {None}, tx'[t].previous \in Sent' \cup {None},
         tx'[t].todo \subseteq Sent',
         \A i \in pending : uploadLock[i] \in Txs \ {t} => i \in pending',
         Saving' \cup pending' \subseteq Saving \cup pending \cup unsent,
         Saving' \cap (pending' \cup Shown) = {}, Shown \cap pending' = {},
         tx'[t].pc = "save" => tx'[t].image \notin Saving,
         stored' \cap Sent \subseteq stored,
         \A s \in Txs \ {t} : tx[s].kind = "create" => tx'[t].row # tx[s].row,
         TxInv(t)',
         ~raced /\ Dead \subseteq Dead' =>
           /\ queue' \subseteq Dead' /\ expired \subseteq expired' \cup Dead' /\ DoomedInv(t)'
           /\ Saving' \cup (pending' \ expired') \cup Shown \subseteq stored',
         ~raced /\ faults' = 0 =>
           stored' \subseteq Shown \cup pending' \cup queue' \cup Saving' \cup Discarding'
  PROVE  IInv'
  <1>1. /\ UNCHANGED <<products, gallery, shown, productLock, uploadLock, raced>>
        /\ Sent \subseteq Sent' /\ Sent' \subseteq Images
    BY DEF lockVars, Sent
  <1>2. TypeOK'
    <2>1. faults' \in 0 .. MaxFaults
      BY Parts, ModelValues DEF TypeOK
    <2>2. QED
      BY <1>1, <2>1, Parts DEF TypeOK
  <1>3. /\ Shown' = Shown /\ EmptyInv' /\ GalleryAgrees' /\ UploadsAreUsedOnce'
        /\ \A p \in Products : IsFiniteSet(gallery'[p])
    BY <1>1, RowsKeep
  <1>4. \A s \in Txs : TxInv(s)'
    <2>1. \A s \in Txs \ {t} : tx[s].kind = "create" =>
                                 tx[s].row \notin products' /\ tx'[t].row # tx[s].row
      BY <1>1, NoRow
    <2>2. QED
      BY <1>1, <2>1, Parts, OthersKeep
  <1>5. Dead \subseteq Dead'
    BY <1>1, <1>3, DeadLasts
  <1>6. LifeInv'
    <2>1. Saving' \cap (pending' \cup Shown') = {}
      BY <1>3
    <2>2. stored' \cup pending' \cup queue' \cup Shown' \subseteq Sent'
      BY <1>1, <1>3, Parts DEF LifeInv
    <2>3. QED
      BY <1>1, <2>1, <2>2, Parts, LifeStep
  <1>7. StoreInv'
    <2>1. ~raced' => /\ ~raced /\ queue' \subseteq Dead' /\ expired \subseteq expired' \cup Dead'
                     /\ DoomedInv(t)'
                     /\ Saving' \cup (pending' \ expired') \cup Shown' \subseteq stored'
      BY <1>1, <1>3, <1>5
    <2>2. QED
      BY <1>5, <2>1, Parts, StoreStep
  <1>8. LeakInv'
    BY <1>1, <1>3 DEF LeakInv
  <1>9. QED
    BY <1>2, <1>3, <1>4, <1>6, <1>7, <1>8 DEF IInv

LEMMA UploadStep ==
  ASSUME IInv, NEW t \in Handlers, Upload(t)
  PROVE  IInv'
  <1>1. PICK i \in unsent :
          /\ stored' = stored \cup {i} /\ unsent' = unsent \ {i}
          /\ tx' = [tx EXCEPT ![t] = [Idle EXCEPT !.pc = "save", !.kind = "upload", !.image = i]]
    BY DEF Upload, Goto
  <1> DEFINE r == [Idle EXCEPT !.pc = "save", !.kind = "upload", !.image = i]
  <1>2. /\ tx[t].pc = "idle" /\ UNCHANGED <<rowVars, lockVars, faults, raced>>
        /\ t \in Txs /\ t \notin Workers /\ i \in Images /\ i # None
    BY Parts, ModelValues DEF Upload, TypeOK
  <1>3. /\ r \in TxState /\ r.pc = "save" /\ r.kind = "upload" /\ r.row = None /\ r.image = i
        /\ r.previous = None /\ r.seen = <<>> /\ r.todo = {}
    BY <1>2, IdleFields DEF TxState, Idle
  <1>4. tx' = [tx EXCEPT ![t] = r]
    BY <1>1
  <1> HIDE DEF r
  <1>5. tx'[t] = r /\ (\A s \in Txs \ {t} : tx'[s] = tx[s]) /\ tx' \in [Txs -> TxState]
    BY <1>2, <1>3, <1>4, Parts, Moves
  <1>6. TxInv(t)'
    <2>1. Shape(t)'
      BY <1>2, <1>3, <1>5, EmptySeen, ModelValues DEF Shape, EditKinds, UseKinds
    <2>2. LockInv(t)' /\ CreateInv(t)' /\ ConsumeInv(t)'
      BY <1>2, <1>3, <1>5, Disengaged DEF EditKinds, UseKinds
    <2>3. GoneInv(t)'
      BY <1>3, <1>5 DEF GoneInv
    <2>4. QED
      BY <2>1, <2>2, <2>3 DEF TxInv
  <1>7. /\ UNCHANGED <<pending, expired, queue, products, gallery, shown, lockVars, raced>>
        /\ faults' \in faults .. MaxFaults /\ Shown' = Shown
    BY <1>2, Parts, NoFault DEF rowVars, Shown
  <1>8. /\ Sent' = Sent \cup {i} /\ i \notin Sent
        /\ i \notin stored \cup pending \cup queue \cup Shown \cup Saving
        /\ expired \subseteq pending
    BY <1>1, <1>2, Parts, HandsSent, PendingSent DEF Sent, LifeInv
  <1>9. /\ Saving' \subseteq Saving \cup {i} /\ i \in Saving' /\ Saving \subseteq Saving'
        /\ Discarding \subseteq Discarding'
    <2>1. tx'[t].image \in Saving'
      BY <1>2, <1>3, <1>5 DEF Saving
    <2>2. QED
      BY <1>2, <1>3, <1>5, <2>1, HandsKeep
  <1>10. ~raced /\ Dead \subseteq Dead' =>
           /\ queue' \subseteq Dead' /\ expired \subseteq expired' \cup Dead' /\ DoomedInv(t)'
           /\ Saving' \cup (pending' \ expired') \cup Shown \subseteq stored'
    BY <1>1, <1>3, <1>5, <1>7, <1>9, Parts DEF StoreInv, DoomedInv
  <1>11. ~raced /\ faults' = 0 =>
           stored' \subseteq Shown \cup pending' \cup queue' \cup Saving' \cup Discarding'
    BY <1>1, <1>2, <1>7, <1>9, Parts DEF LeakInv
  <1>12. /\ stored' \cup pending' \cup queue' \subseteq Sent' /\ unsent' \subseteq unsent
         /\ expired' \subseteq pending' /\ stored' \cap Sent \subseteq stored
         /\ Saving' \cap (pending' \cup Shown) = {} /\ Shown \cap pending' = {}
         /\ Saving' \cup pending' \subseteq Saving \cup pending \cup unsent
    BY <1>1, <1>7, <1>8, <1>9, Parts, RowsKeep DEF LifeInv
  <1>13. \A s \in Txs \ {t} : tx[s].kind = "create" => tx'[t].row # tx[s].row
    BY <1>3, <1>5, NoRow
  <1>14. /\ tx'[t].image \in Sent' \cup {None} /\ tx'[t].previous \in Sent' \cup {None}
         /\ tx'[t].todo \subseteq Sent' /\ tx'[t].image \notin Saving
         /\ \A q \in pending : uploadLock[q] \in Txs \ {t} => q \in pending'
    BY <1>3, <1>5, <1>7, <1>8
  <1>15. QED
    BY <1>2, <1>5, <1>6, <1>7, <1>10, <1>11, <1>12, <1>13, <1>14, FileStep

\* A request whose file is dealt with.
LEMMA DoneFacts ==
  ASSUME IInv, NEW t \in Txs, tx' = [tx EXCEPT ![t] = Idle]
  PROVE  /\ tx'[t] = Idle /\ (\A s \in Txs \ {t} : tx'[s] = tx[s]) /\ tx' \in [Txs -> TxState]
         /\ TxInv(t)' /\ DoomedInv(t)' /\ tx'[t].pc # "save"
         /\ tx'[t].image \in Sent' \cup {None} /\ tx'[t].previous \in Sent' \cup {None}
         /\ tx'[t].todo \subseteq Sent'
         /\ \A s \in Txs \ {t} : tx[s].kind = "create" => tx'[t].row # tx[s].row
  <1>1. tx'[t] = Idle /\ (\A s \in Txs \ {t} : tx'[s] = tx[s]) /\ tx' \in [Txs -> TxState]
    BY Parts, IdleFields, Moves
  <1>2. TxInv(t)' /\ DoomedInv(t)'
    BY <1>1, RestFacts
  <1>3. \A s \in Txs \ {t} : tx[s].kind = "create" => tx'[t].row # tx[s].row
    BY <1>1, IdleFields, NoRow
  <1>4. QED
    BY <1>1, <1>2, <1>3, IdleFields


LEMMA SavePendingStep ==
  ASSUME IInv, NEW t \in Handlers, SavePending(t)
  PROVE  IInv'
  <1> DEFINE i == tx[t].image
  <1>1. /\ tx[t].pc = "save" /\ tx' = [tx EXCEPT ![t] = Idle] /\ pending' = pending \cup {i}
        /\ UNCHANGED <<stored, expired, queue, products, gallery, shown, lockVars, unsent, faults,
                       raced>>
        /\ t \in Txs
    BY ModelValues DEF SavePending, Goto
  <1>2. /\ tx'[t] = Idle /\ (\A s \in Txs \ {t} : tx'[s] = tx[s]) /\ tx' \in [Txs -> TxState]
        /\ TxInv(t)' /\ DoomedInv(t)' /\ tx'[t].pc # "save"
        /\ tx'[t].image \in Sent' \cup {None} /\ tx'[t].previous \in Sent' \cup {None}
        /\ tx'[t].todo \subseteq Sent'
        /\ \A s \in Txs \ {t} : tx[s].kind = "create" => tx'[t].row # tx[s].row
    BY <1>1, DoneFacts
  <1>3. i \in Saving /\ i \in Sent /\ i \notin pending \cup Shown /\ i # None
    BY <1>1, Parts, HandsSent DEF LifeInv, Saving, Shape
  <1>4. Saving' = Saving \ {i} /\ Discarding \subseteq Discarding'
    <2>1. \A s \in Txs : tx'[s].pc = "save" => tx'[s].image # i
      BY <1>1, <1>2, IdleFields, Parts DEF LifeInv
    <2>2. i \notin Saving'
      BY <2>1 DEF Saving
    <2>3. QED
      BY <1>1, <1>2, <2>2, HandsKeep
  <1>5. Sent' = Sent /\ Shown' = Shown /\ Shown \cap pending = {} /\ expired \subseteq pending
    BY <1>1, RowsKeep, PendingSent DEF Sent, Shown
  <1>6. ~raced /\ Dead \subseteq Dead' =>
          /\ queue' \subseteq Dead' /\ expired \subseteq expired' \cup Dead' /\ DoomedInv(t)'
          /\ Saving' \cup (pending' \ expired') \cup Shown \subseteq stored'
    BY <1>1, <1>2, <1>3, <1>4, Parts DEF StoreInv
  <1>7. ~raced /\ faults' = 0 =>
          stored' \subseteq Shown \cup pending' \cup queue' \cup Saving' \cup Discarding'
    BY <1>1, <1>4, Parts DEF LeakInv
  <1>8. /\ stored' \cup pending' \cup queue' \subseteq Sent' /\ unsent' \subseteq unsent
        /\ expired' \subseteq pending' /\ stored' \cap Sent \subseteq stored
        /\ Saving' \cap (pending' \cup Shown) = {} /\ Shown \cap pending' = {}
        /\ Saving' \cup pending' \subseteq Saving \cup pending \cup unsent
    BY <1>1, <1>3, <1>4, <1>5, Parts DEF LifeInv
  <1>9. /\ UNCHANGED <<products, gallery, shown, lockVars, raced>> /\ faults' \in faults .. MaxFaults
        /\ \A q \in pending : uploadLock[q] \in Txs \ {t} => q \in pending'
    BY <1>1, Parts, NoFault
  <1>10. QED
    BY <1>1, <1>2, <1>6, <1>7, <1>8, <1>9, FileStep

\* The file of t is deleted, or its deletion is queued.
LEMMA DiscardedStep ==
  ASSUME IInv, NEW t \in Handlers, tx[t].pc = "discard", tx' = [tx EXCEPT ![t] = Idle],
         UNCHANGED <<pending, expired, products, gallery, shown, lockVars, unsent, raced>>,
         faults' \in faults .. MaxFaults,
         stored \ {tx[t].image} \subseteq stored', stored' \subseteq stored,
         queue \subseteq queue', queue' \subseteq queue \cup {tx[t].image},
         faults' = 0 => tx[t].image \notin stored'
  PROVE  IInv'
  <1> DEFINE i == tx[t].image
  <1>1. t \in Txs
    BY ModelValues
  <1>2. /\ tx'[t] = Idle /\ (\A s \in Txs \ {t} : tx'[s] = tx[s]) /\ tx' \in [Txs -> TxState]
        /\ TxInv(t)' /\ DoomedInv(t)' /\ tx'[t].pc # "save"
        /\ tx'[t].image \in Sent' \cup {None} /\ tx'[t].previous \in Sent' \cup {None}
        /\ tx'[t].todo \subseteq Sent'
        /\ \A s \in Txs \ {t} : tx[s].kind = "create" => tx'[t].row # tx[s].row
    BY <1>1, DoneFacts
  <1>3. Saving' = Saving /\ Discarding \ {i} \subseteq Discarding'
    BY <1>1, <1>2, HandsKeep
  <1>4. /\ Sent' = Sent /\ Shown \cap pending = {} /\ expired \subseteq pending /\ i \in Sent
    BY <1>1, RowsKeep, PendingSent, HandsSent DEF Sent, Discarding
  <1>5. ~raced => i \in Dead /\ i \notin Saving \cup pending \cup Shown
    BY <1>1, Parts DEF StoreInv, DoomedInv, Dead
  <1>6. ~raced /\ Dead \subseteq Dead' =>
          /\ queue' \subseteq Dead' /\ expired \subseteq expired' \cup Dead' /\ DoomedInv(t)'
          /\ Saving' \cup (pending' \ expired') \cup Shown \subseteq stored'
    BY <1>2, <1>3, <1>5, Parts DEF StoreInv
  <1>7. ~raced /\ faults' = 0 =>
          stored' \subseteq Shown \cup pending' \cup queue' \cup Saving' \cup Discarding'
    <2>1. faults' = 0 => faults = 0
      BY Parts, ModelValues DEF TypeOK
    <2>2. QED
      BY <1>3, <2>1, Parts DEF LeakInv
  <1>8. /\ stored' \cup pending' \cup queue' \subseteq Sent' /\ unsent' \subseteq unsent
        /\ expired' \subseteq pending' /\ stored' \cap Sent \subseteq stored
        /\ Saving' \cap (pending' \cup Shown) = {} /\ Shown \cap pending' = {}
        /\ Saving' \cup pending' \subseteq Saving \cup pending \cup unsent
    BY <1>3, <1>4, Parts DEF LifeInv
  <1>9. /\ UNCHANGED <<products, gallery, shown, lockVars, raced>>
        /\ \A q \in pending : uploadLock[q] \in Txs \ {t} => q \in pending'
    OBVIOUS
  <1>10. QED
    BY <1>1, <1>2, <1>6, <1>7, <1>8, <1>9, FileStep

LEMMA DiscardStep ==
  ASSUME IInv, NEW t \in Handlers, Discard(t)
  PROVE  IInv'
  <1>1. /\ tx[t].pc = "discard" /\ tx' = [tx EXCEPT ![t] = Idle]
        /\ UNCHANGED <<pending, expired, queue, products, gallery, shown, lockVars, unsent, raced>>
        /\ stored' = stored \ {tx[t].image} /\ UNCHANGED faults
    BY DEF Discard, Goto, rowVars
  <1>2. faults' \in faults .. MaxFaults
    BY <1>1, Parts, NoFault
  <1>3. QED
    BY <1>1, <1>2, DiscardedStep

LEMMA DiscardFailsStep ==
  ASSUME IInv, NEW t \in Handlers, NEW gone \in BOOLEAN, DiscardFails(t, gone)
  PROVE  IInv'
  <1>1. /\ tx[t].pc = "discard" /\ tx' = [tx EXCEPT ![t] = Idle] /\ Fault
        /\ UNCHANGED <<pending, expired, products, gallery, shown, lockVars, unsent, raced>>
        /\ stored' = (IF gone THEN stored \ {tx[t].image} ELSE stored)
        /\ queue' = queue \cup {tx[t].image}
    BY DEF DiscardFails, Goto
  <1>2. faults' \in faults .. MaxFaults /\ faults' # 0
    BY <1>1, Parts, FaultFacts
  <1>3. QED
    BY <1>1, <1>2, DiscardedStep

LEMMA ExpireStep ==
  ASSUME IInv, NEW i \in Images, Expire(i)
  PROVE  IInv'
  <1>1. /\ i \in pending /\ expired' = expired \cup {i}
        /\ UNCHANGED <<stored, pending, queue, products, gallery, shown, productLock, uploadLock,
                       tx, unsent, faults, raced>>
    BY DEF Expire, lockVars
  <1>2. TypeOK'
    BY <1>1, Parts DEF TypeOK
  <1>3. Saving' = Saving /\ Discarding' = Discarding /\ Shown' = Shown /\ Sent' = Sent
    BY <1>1 DEF Saving, Discarding, Shown, Sent
  <1>4. Dead' = Dead
    BY <1>1, <1>3 DEF Dead
  <1>5. \A s \in Txs : TxInv(s)'
    BY <1>1, Parts DEF TxInv, Shape, LockInv, CreateInv, ConsumeInv, Uses, GoneInv
  <1>6. /\ EmptyInv' /\ GalleryAgrees' /\ UploadsAreUsedOnce'
        /\ \A p \in Products : IsFiniteSet(gallery'[p])
    BY <1>1, RowsKeep
  <1>7. LifeInv' /\ LeakInv'
    BY <1>1, <1>3, Parts DEF LifeInv, LeakInv
  <1>8. StoreInv'
    BY <1>1, <1>3, <1>4, Parts DEF StoreInv, DoomedInv
  <1>9. QED
    BY <1>2, <1>5, <1>6, <1>7, <1>8 DEF IInv

-----------------------------------------------------------------------------
(* The worker deletes                                                      *)

\* A file of its list.
LEMMA WorkerFileStep ==
  ASSUME IInv, NEW w \in Workers, NEW i \in Images, SweepFile(w, i) \/ RetryFile(w, i)
  PROVE  IInv'
  <1> DEFINE c == IF tx[w].pc = "sweep" THEN "swept" ELSE "retried"
             r == [tx[w] EXCEPT !.pc = c, !.image = i, !.todo = tx[w].todo \ {i}]
  <1>1. /\ tx[w].pc \in {"sweep", "retry"} /\ i \in tx[w].todo /\ stored' = stored \ {i}
        /\ tx' = [tx EXCEPT ![w] = r]
        /\ UNCHANGED <<rowVars, lockVars, unsent, faults, raced>>
    BY DEF SweepFile, RetryFile, Goto
  <1>2. /\ w \in Txs /\ tx[w].image \in Sent \cup {None} /\ tx[w].previous \in Sent \cup {None}
        /\ tx[w].todo \subseteq Sent /\ i \in Sent /\ i # None
    BY <1>1, PassFields, ModelValues
  <1>3. /\ c \in {"swept", "retried"} /\ (c = "swept" <=> tx[w].pc = "sweep")
    OBVIOUS
  <1> HIDE DEF c
  <1>4. /\ r \in TxState /\ r.pc = c /\ r.image = i /\ r.kind = tx[w].kind
        /\ r.row = tx[w].row /\ r.seen = tx[w].seen /\ r.previous = tx[w].previous
        /\ r.todo = tx[w].todo \ {i}
    BY <1>2, <1>3, Parts, TxFields DEF TxState
  <1> HIDE DEF r
  <1>5. /\ tx'[w] = r /\ (\A s \in Txs \ {w} : tx'[s] = tx[s]) /\ tx' \in [Txs -> TxState]
        /\ \A s \in Txs \ {w} : tx[s].kind = "create" => tx'[w].row # tx[s].row
        /\ TxInv(w)'
    <2>1. /\ tx[w].pc # "idle" /\ r.pc \in {"sweep", "swept", "retry", "retried"}
          /\ r.image # None /\ r.image \notin stored'
      BY <1>1, <1>2, <1>3, <1>4
    <2>2. \A s \in Txs \ {w} : tx[s].kind = "create" => r.row # tx[s].row
      BY <1>1, <1>4, <2>1, PassFields, NoRow
    <2>3. /\ tx'[w] = r /\ (\A s \in Txs \ {w} : tx'[s] = tx[s]) /\ tx' \in [Txs -> TxState]
          /\ TxInv(w)'
      BY <1>1, <1>4, <2>1, PassStep
    <2>4. QED
      BY <2>2, <2>3
  <1>6. Saving' = Saving /\ Discarding \subseteq Discarding'
    BY <1>1, <1>2, <1>3, <1>4, <1>5, HandsKeep
  <1>7. /\ UNCHANGED <<pending, expired, queue, products, gallery, shown, lockVars, raced>>
        /\ Sent' = Sent /\ Shown \cap pending = {} /\ expired \subseteq pending
        /\ faults' \in faults .. MaxFaults
    BY <1>1, Parts, RowsKeep, PendingSent, NoFault DEF Sent, rowVars
  <1>8. ~raced => /\ tx[w].todo \subseteq expired \cup Dead
                  /\ tx[w].pc = "retry" => tx[w].todo \subseteq Dead
    BY <1>1, <1>2, Parts DEF StoreInv, DoomedInv
  <1>9. ~raced => i \notin Saving \cup (pending \ expired) \cup Shown
    BY <1>1, <1>7, <1>8, Parts DEF Dead, LifeInv
  <1>10. ~raced /\ Dead \subseteq Dead' =>
           /\ queue' \subseteq Dead' /\ expired \subseteq expired' \cup Dead' /\ DoomedInv(w)'
           /\ Saving' \cup (pending' \ expired') \cup Shown \subseteq stored'
    <2>1. ~raced /\ Dead \subseteq Dead' => DoomedInv(w)'
      BY <1>1, <1>3, <1>4, <1>5, <1>7, <1>8 DEF DoomedInv
    <2>2. QED
      BY <1>1, <1>6, <1>7, <1>9, <2>1, Parts DEF StoreInv
  <1>11. ~raced /\ faults' = 0 =>
           stored' \subseteq Shown \cup pending' \cup queue' \cup Saving' \cup Discarding'
    BY <1>1, <1>6, <1>7, Parts DEF LeakInv
  <1>12. /\ stored' \cup pending' \cup queue' \subseteq Sent' /\ unsent' \subseteq unsent
         /\ expired' \subseteq pending' /\ stored' \cap Sent \subseteq stored
         /\ Saving' \cap (pending' \cup Shown) = {} /\ Shown \cap pending' = {}
         /\ Saving' \cup pending' \subseteq Saving \cup pending \cup unsent
    BY <1>1, <1>6, <1>7, Parts DEF LifeInv
  <1>13. /\ tx'[w].image \in Sent' \cup {None} /\ tx'[w].previous \in Sent' \cup {None}
         /\ tx'[w].todo \subseteq Sent' /\ tx'[w].pc # "save"
         /\ \A q \in pending : uploadLock[q] \in Txs \ {w} => q \in pending'
    BY <1>2, <1>3, <1>4, <1>5, <1>7
  <1>14. QED
    BY <1>2, <1>5, <1>7, <1>10, <1>11, <1>12, <1>13, FileStep


\* The row of what it has deleted.
LEMMA WorkerRowStep ==
  ASSUME IInv, NEW w \in Workers, SweepRow(w) \/ RetryRow(w)
  PROVE  IInv'
  <1> DEFINE i == tx[w].image
             c == IF tx[w].pc = "swept" THEN "sweep" ELSE "retry"
             r == [tx[w] EXCEPT !.pc = c, !.image = None]
  <1>1. /\ tx[w].pc \in {"swept", "retried"} /\ tx' = [tx EXCEPT ![w] = r]
        /\ pending \ {i} \subseteq pending' /\ pending' \subseteq pending
        /\ expired' = expired \cap pending' /\ queue \ {i} \subseteq queue'
        /\ queue' \subseteq queue
        /\ UNCHANGED <<stored, products, gallery, shown, lockVars, unsent, faults, raced>>
    BY PendingSent DEF SweepRow, RetryRow, Goto
  <1>2. pending' = pending \/ uploadLock[i] = None
    BY DEF SweepRow, RetryRow
  <1>3. /\ w \in Txs /\ tx[w].previous \in Sent \cup {None} /\ tx[w].todo \subseteq Sent
        /\ i \notin stored
    BY <1>1, PassFields, Parts DEF GoneInv
  <1>4. c \in {"sweep", "retry"} /\ (c = "sweep" <=> tx[w].pc = "swept")
    OBVIOUS
  <1> HIDE DEF c
  <1>5. /\ r \in TxState /\ r.pc = c /\ r.image = None /\ r.kind = tx[w].kind
        /\ r.row = tx[w].row /\ r.seen = tx[w].seen /\ r.previous = tx[w].previous
        /\ r.todo = tx[w].todo
    BY <1>3, <1>4, Parts, TxFields DEF TxState
  <1> HIDE DEF r
  <1>6. /\ tx'[w] = r /\ (\A s \in Txs \ {w} : tx'[s] = tx[s]) /\ tx' \in [Txs -> TxState]
        /\ \A s \in Txs \ {w} : tx[s].kind = "create" => tx'[w].row # tx[s].row
        /\ TxInv(w)'
    <2>1. /\ tx[w].pc # "idle" /\ r.pc \in {"sweep", "swept", "retry", "retried"}
          /\ r.pc \notin {"swept", "retried"}
      BY <1>1, <1>4, <1>5
    <2>2. \A s \in Txs \ {w} : tx[s].kind = "create" => r.row # tx[s].row
      BY <1>1, <1>5, <2>1, PassStep
    <2>3. /\ tx'[w] = r /\ (\A s \in Txs \ {w} : tx'[s] = tx[s]) /\ tx' \in [Txs -> TxState]
          /\ TxInv(w)'
      BY <1>1, <1>5, <2>1, PassStep
    <2>4. QED
      BY <2>2, <2>3
  <1>7. Saving' = Saving /\ Discarding \subseteq Discarding'
    BY <1>1, <1>3, <1>4, <1>5, <1>6, HandsKeep
  <1>8. /\ Sent' = Sent /\ Shown' = Shown /\ Shown \cap pending = {} /\ expired \subseteq pending
        /\ pending \subseteq Sent /\ faults' \in faults .. MaxFaults
        /\ Saving \cap pending = {}
    BY <1>1, Parts, RowsKeep, PendingSent, NoFault DEF Sent, LifeInv
  <1>9. expired \subseteq expired' \cup Dead'
    <2>1. ASSUME NEW q \in expired, q \notin pending' PROVE q \in Dead'
      BY <1>7, <1>8, <2>1 DEF Dead
    <2>2. QED
      BY <1>1, <2>1
  <1>10. ~raced /\ Dead \subseteq Dead' =>
           /\ queue' \subseteq Dead' /\ expired \subseteq expired' \cup Dead' /\ DoomedInv(w)'
           /\ Saving' \cup (pending' \ expired') \cup Shown \subseteq stored'
    <2>1. ~raced => DoomedInv(w)
      BY <1>3, Parts DEF StoreInv
    <2>2. ~raced /\ Dead \subseteq Dead' => DoomedInv(w)'
      BY <1>1, <1>4, <1>5, <1>6, <1>9, <2>1 DEF DoomedInv
    <2>3. QED
      BY <1>1, <1>7, <1>9, <2>2, Parts DEF StoreInv
  <1>11. ~raced /\ faults' = 0 =>
           stored' \subseteq Shown \cup pending' \cup queue' \cup Saving' \cup Discarding'
    BY <1>1, <1>3, <1>7, Parts DEF LeakInv
  <1>12. /\ stored' \cup pending' \cup queue' \subseteq Sent' /\ unsent' \subseteq unsent
         /\ expired' \subseteq pending' /\ stored' \cap Sent \subseteq stored
         /\ Saving' \cap (pending' \cup Shown) = {} /\ Shown \cap pending' = {}
         /\ Saving' \cup pending' \subseteq Saving \cup pending \cup unsent
    BY <1>1, <1>7, <1>8, Parts DEF LifeInv
  <1>13. /\ tx'[w].image \in Sent' \cup {None} /\ tx'[w].previous \in Sent' \cup {None}
         /\ tx'[w].todo \subseteq Sent' /\ tx'[w].pc # "save"
         /\ UNCHANGED <<products, gallery, shown, lockVars, raced>>
    BY <1>1, <1>3, <1>4, <1>5, <1>6, <1>8
  <1>14. \A q \in pending : uploadLock[q] \in Txs \ {w} => q \in pending'
    BY <1>1, <1>2, ModelValues
  <1>15. QED
    BY <1>3, <1>6, <1>8, <1>10, <1>11, <1>12, <1>13, <1>14, FileStep


-----------------------------------------------------------------------------
(* The commit                                                              *)

\* The upload that becomes part of a gallery with the commit of t.
UsedUp(t) == IF Uses(t) THEN {tx[t].image} ELSE {}

\* The image that leaves it.
GoneBy(t) ==
  IF tx[t].kind = "delete" THEN {Target(t)}
  ELSE IF tx[t].kind = "update" /\ tx[t].image # tx[t].existing THEN {tx[t].existing}
  ELSE {}

Writes(t) == t \in Handlers /\ tx[t].pc = "write" /\ ~Rejects(t)

LEMMA WriterFacts ==
  ASSUME IInv, NEW t, Writes(t)
  PROVE  /\ t \in Txs /\ t \in Handlers /\ tx[t].pc = "write"
         /\ tx[t].kind \in {"create", "update", "attach", "reorder", "delete"}
         /\ tx[t].row \in Products
         /\ tx[t].kind # "create" => tx[t].row \in products /\ productLock[tx[t].row] = t
         /\ tx[t].kind = "create" => gallery[tx[t].row] = {}
         /\ tx[t].kind \in {"update", "delete"} => tx[t].existing = shown[tx[t].row]
         /\ tx[t].kind \in {"attach", "delete"} => tx[t].seen = Listing(gallery[tx[t].row])
         /\ tx[t].kind \in {"create", "update", "attach"} => tx[t].image \in Images
         /\ tx[t].kind \in {"create", "attach"} => Uses(t)
         /\ tx[t].kind = "update" => (Uses(t) <=> tx[t].image # tx[t].existing)
         /\ tx[t].kind \in {"reorder", "delete"} => ~Uses(t)
         /\ UsedUp(t) \subseteq pending
         /\ Uses(t) => tx[t].image \in pending /\ uploadLock[tx[t].image] = t
                       /\ tx[t].image \notin Used(gallery[tx[t].row])
  <1>1. t \in Handlers /\ t \in Txs /\ tx[t].pc = "write"
    BY ModelValues DEF Writes
  <1>2. Shape(t) /\ LockInv(t) /\ ConsumeInv(t)
    BY <1>1, Parts
  <1>3. /\ tx[t].kind \in {"create", "update", "attach", "reorder", "delete"}
        /\ tx[t].kind # "create" => tx[t].row \in products
        /\ tx[t].kind = "create" => tx[t].row \in Products \ products
        /\ tx[t].kind \in UseKinds => tx[t].image # None
    BY <1>1, <1>2 DEF Shape, EditKinds, UseKinds
  <1>4. tx[t].row \in Products /\ (tx[t].kind \in UseKinds => tx[t].image \in Images)
    BY <1>1, <1>3, Parts, TxFields DEF TypeOK
  <1>5. tx[t].kind = "create" => gallery[tx[t].row] = {}
    BY <1>3, Parts DEF EmptyInv
  <1>6. /\ tx[t].kind # "create" => productLock[tx[t].row] = t
        /\ tx[t].kind \in {"update", "delete"} => tx[t].existing = shown[tx[t].row]
        /\ tx[t].kind \in {"attach", "delete"} => tx[t].seen = Listing(gallery[tx[t].row])
    BY <1>1, <1>2, <1>3 DEF LockInv, EditKinds
  <1>7. /\ tx[t].kind \in {"create", "attach"} => Uses(t)
        /\ tx[t].kind = "update" => (Uses(t) <=> tx[t].image # tx[t].existing)
        /\ tx[t].kind \in {"reorder", "delete"} => ~Uses(t)
    BY <1>1 DEF Uses, UseKinds
  <1>8. Uses(t) => tx[t].image \in pending /\ uploadLock[tx[t].image] = t
    BY <1>2 DEF ConsumeInv
  <1>9. Uses(t) => tx[t].image \notin Used(gallery[tx[t].row])
    BY <1>4, <1>8, GalleryFacts
  <1>10. UsedUp(t) \subseteq pending
    BY <1>8 DEF UsedUp
  <1>11. QED
    BY <1>1, <1>3, <1>4, <1>5, <1>6, <1>7, <1>8, <1>9, <1>10 DEF UseKinds

LEMMA TargetFacts ==
  ASSUME IInv, NEW t, Writes(t), tx[t].kind = "delete"
  PROVE  Target(t) \in Used(gallery[tx[t].row])
  <1> DEFINE p == tx[t].row
             rows == gallery[p]
  <1>1. /\ t \in Txs /\ p \in Products /\ tx[t].seen = Listing(rows)
    BY WriterFacts
  <1>2. /\ rows \in SUBSET GalleryRow /\ IsFiniteSet(rows) /\ Agrees(rows, shown[p])
        /\ Used(rows) \subseteq Images
    BY <1>1, GalleryFacts
  <1>3. IF tx[t].image = None THEN ~(rows = {} /\ shown[p] = None)
                              ELSE tx[t].image \in Used(rows)
    BY DEF Writes, Rejects
  <1>4. CASE tx[t].image # None
    BY <1>3, <1>4 DEF Target
  <1>5. CASE tx[t].image = None
    <2>1. rows # {}
      BY <1>2, <1>3, <1>5 DEF Agrees
    <2>2. tx[t].seen # <<>> /\ ToSet(tx[t].seen) = Used(rows)
      BY <1>1, <1>2, <2>1, ListingFacts
    <2>3. Target(t) = PrimaryIn(rows, tx[t].seen, tx[t].seen[1])
      BY <1>5, <2>2 DEF Target
    <2>4. shown[p] \in Used(rows)
      BY <1>2, <2>1, AgreesFacts
    <2>5. Target(t) = shown[p]
      BY <1>2, <2>2, <2>3, <2>4, PrimaryInFacts
    <2>6. QED
      BY <2>4, <2>5
  <1>6. QED
    BY <1>4, <1>5

\* The gallery that is committed.
GoodGallery(rows, image) ==
  /\ rows \in SUBSET GalleryRow /\ IsFiniteSet(rows)
  /\ Cardinality(rows) <= MaxPerProduct
  /\ Agrees(rows, image) /\ First(rows) = image /\ image \in Images \cup {None}

LEMMA WrittenFacts ==
  ASSUME IInv, NEW t, Writes(t)
  PROVE  /\ \E image : GoodGallery(Written(t), image)
         /\ Used(Written(t)) = (Used(gallery[tx[t].row]) \ GoneBy(t)) \cup UsedUp(t)
         /\ tx[t].kind = "update" => First(Written(t)) = tx[t].image
  <1> DEFINE p == tx[t].row
             rows == gallery[p]
             i == tx[t].image
             new == Written(t)
  <1>1. /\ rows \in SUBSET GalleryRow /\ IsFiniteSet(rows) /\ Agrees(rows, shown[p])
        /\ Used(rows) \subseteq Images /\ p \in Products
        /\ Cardinality(rows) \in Nat /\ Cardinality(rows) <= MaxPerProduct
        /\ MaxPerProduct \in Nat \ {0}
    BY WriterFacts, GalleryFacts, Parts, FS_CardinalityType, ModelValues DEF UploadsAreUsedOnce
  <1>2. ASSUME NEW image \in Images \cup {None}, new \in SUBSET GalleryRow, IsFiniteSet(new),
               Cardinality(new) <= MaxPerProduct, Agrees(new, image)
        PROVE  GoodGallery(new, image)
    BY <1>2, ListingFacts DEF GoodGallery
  <1>3. CASE tx[t].kind = "create"
    <2> DEFINE r == [image |-> i, order |-> 0, primary |-> TRUE]
    <2>1. i \in Images /\ rows = {} /\ Uses(t)
      BY <1>3, WriterFacts
    <2>2. new = {r}
      BY <1>3 DEF Written
    <2>3. r \in GalleryRow /\ r.image = i /\ r.primary
      BY <2>1 DEF GalleryRow
    <2> HIDE DEF r
    <2>4. IsFiniteSet(new) /\ Cardinality(new) <= MaxPerProduct
      <3>1. IsFiniteSet({r}) /\ Cardinality({r}) = 1
        BY FS_Singleton
      <3>2. QED
        BY <1>1, <2>2, <3>1
    <2>5. Agrees(new, i)
      BY <2>2, <2>3 DEF Agrees
    <2>6. Used(new) = {i} /\ Used(rows) = {}
      BY <2>1, <2>2, <2>3 DEF Used
    <2>7. GoodGallery(new, i)
      BY <1>2, <2>1, <2>2, <2>3, <2>4, <2>5
    <2>8. GoneBy(t) = {} /\ UsedUp(t) = {i}
      BY <1>3, <2>1 DEF GoneBy, UsedUp
    <2>9. QED
      BY <1>3, <2>6, <2>7, <2>8
  <1>4. CASE tx[t].kind = "update" /\ i = tx[t].existing
    <2>1. i \in Images /\ i = shown[p] /\ ~Uses(t) /\ new = rows
      BY <1>4, WriterFacts DEF Written
    <2>2. GoodGallery(new, i)
      BY <1>1, <1>2, <2>1
    <2>3. GoneBy(t) = {} /\ UsedUp(t) = {}
      BY <1>4, <2>1 DEF GoneBy, UsedUp
    <2>4. QED
      BY <2>1, <2>2, <2>3 DEF GoodGallery
  <1>5. CASE tx[t].kind = "update" /\ i # tx[t].existing
    <2>1. /\ i \in Images /\ tx[t].existing = shown[p] /\ Uses(t) /\ i \notin Used(rows)
          /\ new = Replaced(rows, tx[t].existing, i)
      BY <1>5, WriterFacts DEF Written
    <2>2. /\ new \in SUBSET GalleryRow /\ IsFiniteSet(new)
          /\ rows = {} => Cardinality(new) = 1
          /\ rows # {} => Cardinality(new) <= Cardinality(rows)
          /\ Used(new) = (Used(rows) \ {tx[t].existing}) \cup {i}
          /\ Agrees(new, i)
      BY <1>1, <2>1, ReplacedFacts
    <2>3. Cardinality(new) \in Nat
      BY <2>2, FS_CardinalityType
    <2>4. GoodGallery(new, i)
      BY <1>1, <1>2, <2>1, <2>2, <2>3
    <2>5. GoneBy(t) = {tx[t].existing} /\ UsedUp(t) = {i}
      BY <1>5, <2>1 DEF GoneBy, UsedUp
    <2>6. QED
      BY <2>2, <2>4, <2>5 DEF GoodGallery
  <1>6. CASE tx[t].kind = "attach"
    <2>1. /\ i \in Images /\ i \notin Used(rows) /\ Uses(t) /\ tx[t].lead \in BOOLEAN
          /\ new = Attached(rows, Listing(rows), i, tx[t].lead)
          /\ ~(Len(Listing(rows)) >= MaxPerProduct)
      BY <1>6, WriterFacts, Parts, TxFields DEF Written, Writes, Rejects
    <2>2. /\ new \in SUBSET GalleryRow /\ IsFiniteSet(new)
          /\ Cardinality(new) <= Cardinality(rows) + 1
          /\ Used(new) = Used(rows) \cup {i}
          /\ \E s \in Images : Agrees(new, s)
      BY <1>1, <2>1, AttachedFacts
    <2>3. Len(Listing(rows)) = Cardinality(rows)
      BY <1>1, ListingFacts
    <2>4. Cardinality(new) \in Nat
      BY <2>2, FS_CardinalityType
    <2>5. Cardinality(new) <= MaxPerProduct
      BY <1>1, <2>1, <2>2, <2>3, <2>4
    <2>6. PICK s \in Images : GoodGallery(new, s)
      BY <1>2, <2>2, <2>5
    <2>7. GoneBy(t) = {} /\ UsedUp(t) = {i}
      BY <1>6, <2>1 DEF GoneBy, UsedUp
    <2>8. QED
      BY <1>6, <2>2, <2>6, <2>7
  <1>7. CASE tx[t].kind = "reorder"
    <2>1. /\ new = Reordered(rows, tx[t].seen, tx[t].seen[1]) /\ ~Uses(t)
          /\ ToSet(tx[t].seen) = Used(rows) /\ tx[t].seen \in Seq(Images)
          /\ tx[t].seen # <<>> /\ Distinct(tx[t].seen)
      BY <1>7, WriterFacts, Parts, TxFields DEF Written, Writes, Rejects, Shape
    <2>2. Len(tx[t].seen) \in Nat \ {0} /\ DOMAIN tx[t].seen = 1 .. Len(tx[t].seen)
      BY <2>1, EmptySeq, LenProperties
    <2>3. tx[t].seen[1] \in Used(rows)
      BY <2>1, <2>2 DEF ToSet
    <2>4. rows # {}
      BY <2>3 DEF Used
    <2>5. \A a, b \in rows : a.image = b.image => a = b
      BY <1>1, AgreesFacts
    <2>6. /\ new \in SUBSET GalleryRow /\ IsFiniteSet(new)
          /\ Cardinality(new) <= Cardinality(rows) /\ Used(new) = Used(rows)
          /\ Agrees(new, tx[t].seen[1])
      BY <1>1, <2>1, <2>4, <2>5, ReorderedFacts
    <2>7. Cardinality(new) \in Nat
      BY <2>6, FS_CardinalityType
    <2>8. GoodGallery(new, tx[t].seen[1])
      BY <1>1, <1>2, <2>3, <2>6, <2>7
    <2>9. GoneBy(t) = {} /\ UsedUp(t) = {}
      BY <1>7, <2>1 DEF GoneBy, UsedUp
    <2>10. QED
      BY <1>7, <2>6, <2>8, <2>9
  <1>8. CASE tx[t].kind = "delete"
    <2>1. /\ new = Removed(rows, Listing(rows), Target(t)) /\ ~Uses(t)
          /\ Target(t) \in Used(rows)
      BY <1>8, WriterFacts, TargetFacts DEF Written
    <2>2. /\ new \in SUBSET GalleryRow /\ IsFiniteSet(new)
          /\ Cardinality(new) <= Cardinality(rows) /\ Used(new) = Used(rows) \ {Target(t)}
          /\ \E s \in Images \cup {None} : Agrees(new, s)
      BY <1>1, <2>1, RemovedFacts
    <2>3. Cardinality(new) \in Nat
      BY <2>2, FS_CardinalityType
    <2>4. PICK s \in Images \cup {None} : GoodGallery(new, s)
      BY <1>1, <1>2, <2>2, <2>3
    <2>5. GoneBy(t) = {Target(t)} /\ UsedUp(t) = {}
      BY <1>8, <2>1 DEF GoneBy, UsedUp
    <2>6. QED
      BY <1>8, <2>2, <2>4, <2>5
  <1>9. QED
    BY <1>3, <1>4, <1>5, <1>6, <1>7, <1>8, WriterFacts


\* Without an outdated read, what leaves the gallery is what is deleted after the commit.
LEMMA DiscardFacts ==
  ASSUME IInv, NEW t, Writes(t), NEW d, d = ToDiscard(t, First(Written(t)))
  PROVE  /\ d \in Sent \cup {None} /\ d \in Images \cup {None}
         /\ d # None => tx[t].kind \in {"update", "delete"}
         /\ ~Outdated(t) => /\ d # None => d \in GoneBy(t) /\ d \in Used(gallery[tx[t].row])
                            /\ GoneBy(t) \subseteq {d, None}
         /\ GoneBy(t) \subseteq Used(gallery[tx[t].row]) \cup {None}
  <1> DEFINE p == tx[t].row
  <1>1. /\ t \in Txs /\ p \in Products
        /\ tx[t].kind \in {"create", "update", "attach", "reorder", "delete"}
        /\ tx[t].kind \in {"update", "delete"} => tx[t].existing = shown[p]
        /\ tx[t].kind = "update" => tx[t].image \in Images
    BY WriterFacts
  <1>2. /\ Used(gallery[p]) \subseteq Sent /\ Used(gallery[p]) \subseteq Images
        /\ shown[p] \in Used(gallery[p]) \cup {None}
    BY <1>1, GalleryFacts, AgreesFacts
  <1>3. CASE tx[t].kind = "update"
    <2>1. First(Written(t)) = tx[t].image /\ tx[t].image # None
      BY <1>1, <1>3, WrittenFacts, ModelValues
    <2>2. d = IF tx[t].previous = tx[t].image THEN None ELSE tx[t].previous
      BY <1>3, <2>1 DEF ToDiscard
    <2>3. tx[t].previous \in Sent \cup {None} /\ tx[t].previous \in Images \cup {None}
      BY <1>1, Parts, TxFields DEF LifeInv
    <2>4. GoneBy(t) = IF tx[t].image # tx[t].existing THEN {tx[t].existing} ELSE {}
      BY <1>3 DEF GoneBy
    <2>5. ~Outdated(t) => tx[t].previous = tx[t].existing
      BY <1>3 DEF Outdated
    <2>6. QED
      BY <1>1, <1>2, <1>3, <2>2, <2>3, <2>4, <2>5
  <1>4. CASE tx[t].kind = "delete"
    <2>1. d = Target(t) /\ GoneBy(t) = {Target(t)}
      BY <1>4 DEF ToDiscard, GoneBy
    <2>2. Target(t) \in Used(gallery[p])
      BY <1>4, TargetFacts
    <2>3. QED
      BY <1>2, <1>4, <2>1, <2>2
  <1>5. CASE tx[t].kind \notin {"update", "delete"}
    <2>1. d = None /\ GoneBy(t) = {}
      BY <1>1, <1>5 DEF ToDiscard, GoneBy
    <2>2. QED
      BY <2>1
  <1>6. QED
    BY <1>3, <1>4, <1>5

\* The galleries after the commit.
LEMMA CommittedGalleries ==
  ASSUME IInv, NEW t, Writes(t),
         gallery' = [gallery EXCEPT ![tx[t].row] = Written(t)],
         shown' = [shown EXCEPT ![tx[t].row] = First(Written(t))],
         products' = products \cup {tx[t].row},
         pending' = pending \ UsedUp(t)
  PROVE  /\ gallery' \in [Products -> SUBSET GalleryRow]
         /\ shown' \in [Products -> Images \cup {None}] /\ products' \subseteq Products
         /\ EmptyInv' /\ GalleryAgrees' /\ UploadsAreUsedOnce'
         /\ \A p \in Products : IsFiniteSet(gallery'[p])
         /\ Shown' = (Shown \ GoneBy(t)) \cup UsedUp(t)
  <1> DEFINE p == tx[t].row
             new == Written(t)
  <1>1. PICK image : GoodGallery(new, image)
    BY WrittenFacts
  <1>2. /\ p \in Products /\ UsedUp(t) \subseteq pending
        /\ Used(new) = (Used(gallery[p]) \ GoneBy(t)) \cup UsedUp(t)
        /\ GoneBy(t) \subseteq Used(gallery[p]) \cup {None}
    BY WriterFacts, WrittenFacts, DiscardFacts
  <1> HIDE DEF new
  <1>3. /\ new \in SUBSET GalleryRow /\ IsFiniteSet(new) /\ Cardinality(new) <= MaxPerProduct
        /\ Agrees(new, First(new)) /\ First(new) \in Images \cup {None}
    BY <1>1 DEF GoodGallery
  <1>4. /\ gallery' = [gallery EXCEPT ![p] = new] /\ shown' = [shown EXCEPT ![p] = First(new)]
        /\ gallery \in [Products -> SUBSET GalleryRow] /\ shown \in [Products -> Images \cup {None}]
        /\ products \subseteq Products
    BY Parts DEF TypeOK, new
  <1>5. /\ gallery' \in [Products -> SUBSET GalleryRow]
        /\ shown' \in [Products -> Images \cup {None}] /\ products' \subseteq Products
    BY <1>2, <1>3, <1>4
  <1>6. /\ gallery'[p] = new /\ shown'[p] = First(new)
        /\ \A q \in Products \ {p} : gallery'[q] = gallery[q] /\ shown'[q] = shown[q]
    BY <1>2, <1>4
  <1>7. EmptyInv'
    BY <1>6, Parts DEF EmptyInv
  <1>8. GalleryAgrees'
    <2>1. \A q \in Products : Agrees(gallery[q], shown[q])
      BY GalleryFacts
    <2>2. \A q \in Products : Agrees(gallery'[q], shown'[q])
      BY <1>3, <1>6, <2>1
    <2>3. QED
      BY <2>2 DEF GalleryAgrees, Agrees
  <1>9. \A q \in Products : IsFiniteSet(gallery'[q])
    BY <1>3, <1>6, Parts
  <1>10. UploadsAreUsedOnce'
    <2>1. ASSUME NEW q \in Products
          PROVE  Cardinality(gallery'[q]) <= MaxPerProduct /\ Used(gallery'[q]) \cap pending' = {}
      <3>1. Cardinality(gallery[q]) <= MaxPerProduct /\ Used(gallery[q]) \cap pending = {}
        BY Parts DEF UploadsAreUsedOnce
      <3>2. Used(gallery[p]) \cap pending = {}
        BY <1>2, Parts DEF UploadsAreUsedOnce
      <3>3. CASE q = p
        BY <1>2, <1>3, <1>6, <3>2, <3>3
      <3>4. CASE q # p
        BY <1>6, <3>1, <3>4
      <3>5. QED
        BY <3>3, <3>4
    <2>2. ASSUME NEW q \in Products \ {p} PROVE Used(new) \cap Used(gallery[q]) = {}
      BY <1>2, Parts DEF UploadsAreUsedOnce
    <2>3. ASSUME NEW a \in Products, NEW b \in Products, a # b
          PROVE  Used(gallery'[a]) \cap Used(gallery'[b]) = {}
      <3>1. CASE a = p
        BY <1>6, <2>2, <2>3, <3>1
      <3>2. CASE b = p
        BY <1>6, <2>2, <2>3, <3>2
      <3>3. CASE a # p /\ b # p
        BY <1>6, <2>3, <3>3, Parts DEF UploadsAreUsedOnce
      <3>4. QED
        BY <3>1, <3>2, <3>3
    <2>4. QED
      BY <2>1, <2>3 DEF UploadsAreUsedOnce
  <1>11. Shown' = (Shown \ GoneBy(t)) \cup UsedUp(t)
    <2>1. ASSUME NEW i \in Shown' PROVE i \in (Shown \ GoneBy(t)) \cup UsedUp(t)
      <3>1. PICK q \in Products : i \in Used(gallery'[q])
        BY DEF Shown
      <3>2. CASE q = p
        <4>1. Used(gallery[p]) \subseteq Shown
          BY <1>2 DEF Shown
        <4>2. QED
          BY <1>2, <1>6, <3>1, <3>2, <4>1
      <3>3. CASE q # p
        <4>1. i \in Used(gallery[q]) /\ i \in Shown /\ i \in Images
          BY <1>6, <3>1, <3>3, GalleryFacts DEF Shown
        <4>2. i \notin Used(gallery[p]) /\ i # None
          BY <1>2, <3>3, <4>1, Parts, ModelValues DEF UploadsAreUsedOnce
        <4>3. QED
          BY <1>2, <4>1, <4>2
      <3>4. QED
        BY <3>2, <3>3
    <2>2. ASSUME NEW i \in (Shown \ GoneBy(t)) \cup UsedUp(t) PROVE i \in Shown'
      <3>1. CASE i \in Used(new)
        BY <1>2, <1>6, <3>1 DEF Shown
      <3>2. CASE i \notin Used(new)
        <4>1. PICK q \in Products : i \in Used(gallery[q])
          BY <1>2, <2>2, <3>2 DEF Shown
        <4>2. q # p
          BY <1>2, <2>2, <3>2, <4>1
        <4>3. QED
          BY <1>6, <4>1, <4>2 DEF Shown
      <3>3. QED
        BY <3>1, <3>2
    <2>3. QED
      BY <2>1, <2>2
  <1>12. QED
    BY <1>5, <1>7, <1>8, <1>9, <1>10, <1>11

\* What a commit does besides writing the gallery.
LEMMA CommitEffects ==
  ASSUME IInv, NEW t \in Handlers, CommitImage(t)
  PROVE  /\ Writes(t) /\ ReleaseLocks(t)
         /\ gallery' = [gallery EXCEPT ![tx[t].row] = Written(t)]
         /\ shown' = [shown EXCEPT ![tx[t].row] = First(Written(t))]
         /\ products' = products \cup {tx[t].row}
         /\ pending' = pending \ UsedUp(t) /\ expired' = expired \ UsedUp(t)
         /\ raced' = (raced \/ Outdated(t))
         /\ UNCHANGED <<stored, queue, unsent, faults>>
         /\ ThenDiscard(t, ToDiscard(t, First(Written(t))))
  <1> DEFINE consumed == IF tx[t].kind \in {"reorder", "delete"} THEN {} ELSE {tx[t].image}
  <1>1. /\ Writes(t) /\ ReleaseLocks(t)
        /\ gallery' = [gallery EXCEPT ![tx[t].row] = Written(t)]
        /\ shown' = [shown EXCEPT ![tx[t].row] = First(Written(t))]
        /\ products' = products \cup {tx[t].row}
        /\ pending' = pending \ consumed /\ expired' = expired \ consumed
        /\ raced' = (raced \/ Outdated(t))
        /\ UNCHANGED <<stored, queue, unsent, faults>>
        /\ ThenDiscard(t, ToDiscard(t, First(Written(t))))
    BY DEF CommitImage, Writes
  <1>2. tx[t].kind \in {"reorder", "delete"} => consumed = {} /\ UsedUp(t) = {}
    BY <1>1, WriterFacts DEF UsedUp
  <1>3. tx[t].kind \in {"create", "attach"} => consumed = UsedUp(t)
    BY <1>1, WriterFacts DEF UsedUp
  <1>4. ASSUME tx[t].kind = "update" PROVE pending \ consumed = pending \ UsedUp(t)
    <2>1. CASE tx[t].image # tx[t].existing
      BY <1>1, <1>4, <2>1, WriterFacts DEF UsedUp
    <2>2. CASE tx[t].image = tx[t].existing
      <3>1. /\ tx[t].image \in Images /\ tx[t].image = shown[tx[t].row] /\ tx[t].row \in Products
            /\ UsedUp(t) = {}
        BY <1>1, <1>4, <2>2, WriterFacts DEF UsedUp
      <3>2. tx[t].image \in Used(gallery[tx[t].row]) \cup {None}
        BY <3>1, GalleryFacts, AgreesFacts
      <3>3. tx[t].image \notin pending
        BY <3>1, <3>2, GalleryFacts, ModelValues
      <3>4. QED
        BY <1>4, <3>1, <3>3
    <2>3. QED
      BY <2>1, <2>2
  <1>5. tx[t].kind \in {"create", "update", "attach", "reorder", "delete"}
    BY <1>1, WriterFacts
  <1>6. pending \ consumed = pending \ UsedUp(t)
    BY <1>2, <1>3, <1>4, <1>5
  <1>7. expired \ consumed = expired \ UsedUp(t)
    BY <1>6, PendingSent
  <1>8. QED
    BY <1>1, <1>6, <1>7

LEMMA CommitStep ==
  ASSUME IInv, NEW t \in Handlers, CommitImage(t)
  PROVE  IInv'
  <1> DEFINE p == tx[t].row
             d == ToDiscard(t, First(Written(t)))
  <1>1. /\ Writes(t) /\ ReleaseLocks(t)
        /\ gallery' = [gallery EXCEPT ![p] = Written(t)]
        /\ shown' = [shown EXCEPT ![p] = First(Written(t))]
        /\ products' = products \cup {p}
        /\ pending' = pending \ UsedUp(t) /\ expired' = expired \ UsedUp(t)
        /\ raced' = (raced \/ Outdated(t))
        /\ UNCHANGED <<stored, queue, unsent, faults>>
        /\ ThenDiscard(t, d)
    BY CommitEffects
  <1>2. /\ t \in Txs /\ p \in Products /\ tx[t].pc = "write" /\ UsedUp(t) \subseteq pending
        /\ tx[t].kind # "create" => p \in products /\ productLock[p] = t
        /\ Used(gallery[p]) \subseteq Shown /\ Used(gallery[p]) \cap pending = {}
        /\ \A i \in UsedUp(t) : uploadLock[i] = t
    BY <1>1, WriterFacts, GalleryFacts DEF UsedUp
  <1>3. /\ d \in Sent \cup {None} /\ d \in Images \cup {None}
        /\ d # None => tx[t].kind \in {"update", "delete"}
        /\ ~Outdated(t) => /\ d # None => d \in GoneBy(t) /\ d \in Used(gallery[p])
                           /\ GoneBy(t) \subseteq {d, None}
    BY <1>1, DiscardFacts
  <1>4. /\ gallery' \in [Products -> SUBSET GalleryRow]
        /\ shown' \in [Products -> Images \cup {None}] /\ products' \subseteq Products
        /\ EmptyInv' /\ GalleryAgrees' /\ UploadsAreUsedOnce'
        /\ \A q \in Products : IsFiniteSet(gallery'[q])
        /\ Shown' = (Shown \ GoneBy(t)) \cup UsedUp(t)
    BY <1>1, CommittedGalleries
  <1> HIDE DEF d
  <1>5. PICK r \in TxState : /\ tx' = [tx EXCEPT ![t] = r]
                             /\ IF d = None THEN r = Idle ELSE r = DiscardRecord(t, d)
    BY <1>1, <1>2, <1>3, Parts, ThenDiscardFacts
  <1>6. /\ tx'[t] = r /\ tx' \in [Txs -> TxState] /\ \A s \in Txs \ {t} : tx'[s] = tx[s]
    BY <1>2, <1>5, Parts, Moves
  <1>7. /\ r.pc = (IF d = None THEN "idle" ELSE "discard") /\ r.image = d
        /\ r.previous = None /\ r.todo = {} /\ r.row \in {p, None}
    <2>1. CASE d = None
      BY <1>5, <2>1, IdleFields
    <2>2. CASE d # None
      <3>1. d \in Images /\ r = DiscardRecord(t, d)
        BY <1>3, <1>5, <2>2
      <3>2. QED
        BY <1>2, <2>2, <3>1, Parts, DiscardRecordFields
    <2>3. QED
      BY <2>1, <2>2
  <1>8. TxInv(t)'
    <2>1. CASE d = None
      BY <1>2, <1>5, <1>6, <2>1, RestFacts
    <2>2. CASE d # None
      <3>1. /\ d \in Images /\ r = DiscardRecord(t, d) /\ tx[t].kind \in {"update", "delete"}
            /\ p \in products'
        BY <1>1, <1>3, <1>5, <2>2
      <3>2. QED
        BY <1>6, <3>1, Parts, DiscardingFacts
    <2>3. QED
      BY <2>1, <2>2
  <1>9. /\ Sent' = Sent /\ stored' = stored /\ queue' = queue /\ unsent' = unsent
        /\ faults' = faults /\ products \subseteq products'
    BY <1>1 DEF Sent
  <1>10. Saving' = Saving /\ Discarding \subseteq Discarding' /\ (d # None => d \in Discarding')
    BY <1>2, <1>6, <1>7, HandsKeep
  <1>11. \A s \in Txs : TxInv(s)'
    <2>1. ASSUME NEW s \in Txs \ {t}, tx[s].kind = "create"
          PROVE  tx[s].row \notin products' /\ tx'[t].row # tx[s].row
      <3>1. tx[s].row \notin products /\ tx[s].row # None
        BY <2>1, NoRow
      <3>2. tx[s].row # p
        BY <2>1, Parts DEF CreateInv
      <3>3. QED
        BY <1>1, <1>6, <1>7, <3>1, <3>2
    <2>2. /\ \A q \in Products : productLock[q] \in Txs \ {t} => productLock'[q] = productLock[q]
          /\ \A i \in Images : uploadLock[i] \in Txs \ {t} => uploadLock'[i] = uploadLock[i]
      BY <1>1, <1>2, Parts, Released
    <2>3. ASSUME NEW q \in products, productLock[q] \in Txs \ {t}
          PROVE  /\ productLock'[q] = productLock[q]
                 /\ gallery'[q] = gallery[q] /\ shown'[q] = shown[q]
      <3>1. q # p
        <4>1. tx[t].kind = "create" => p \notin products
          BY <1>2, NoRow
        <4>2. QED
          BY <1>2, <2>3, <4>1
      <3>2. QED
        BY <1>1, <2>2, <2>3, <3>1, Parts DEF TypeOK
    <2>4. ASSUME NEW i \in Images, uploadLock[i] \in Txs \ {t}
          PROVE  uploadLock'[i] = uploadLock[i] /\ (i \in pending => i \in pending')
      BY <1>1, <1>2, <2>2, <2>4
    <2>5. stored' \cap Sent \subseteq stored
      BY <1>9
    <2>6. QED
      BY <1>2, <1>6, <1>8, <1>9, <2>1, <2>3, <2>4, <2>5, Parts, OthersKeep
  <1>12. Saving' \cup pending' \cup Shown' \subseteq Saving \cup pending \cup Shown
    BY <1>1, <1>2, <1>4, <1>10
  <1>13. Dead \subseteq Dead'
    BY <1>9, <1>12, DeadLasts
  <1>14. LifeInv'
    <2>1. /\ stored' \cup pending' \cup queue' \cup Shown' \subseteq Sent'
          /\ Saving' \cap (pending' \cup Shown') = {}
      BY <1>1, <1>2, <1>4, <1>9, <1>10, Parts DEF LifeInv
    <2>2. /\ tx'[t].image \in Sent' \cup {None} /\ tx'[t].previous \in Sent' \cup {None}
          /\ tx'[t].todo \subseteq Sent' /\ tx'[t].pc # "save"
      BY <1>3, <1>6, <1>7, <1>9
    <2>3. QED
      BY <1>2, <1>6, <1>9, <2>1, <2>2, Parts, LifeStep
  <1>15. StoreInv'
    <2>1. ASSUME ~raced'
          PROVE  /\ ~raced /\ queue' \subseteq Dead' /\ expired \subseteq expired' \cup Dead'
                 /\ DoomedInv(t)'
                 /\ Saving' \cup (pending' \ expired') \cup Shown' \subseteq stored'
      <3>1. ~raced /\ ~Outdated(t)
        BY <1>1, <2>1
      <3>2. /\ queue \subseteq Dead /\ Saving \cup (pending \ expired) \cup Shown \subseteq stored
        BY <3>1, Parts DEF StoreInv
      <3>3. UsedUp(t) \cap expired = {}
        BY <3>1 DEF UsedUp, Outdated
      <3>4. DoomedInv(t)'
        <4>1. d # None => d \in Dead'
          BY <1>1, <1>2, <1>3, <1>4, <1>9, <1>10, <3>1, Parts DEF LifeInv, Dead
        <4>2. QED
          BY <1>6, <1>7, <4>1 DEF DoomedInv
      <3>5. QED
        BY <1>1, <1>2, <1>4, <1>9, <1>10, <1>13, <3>1, <3>2, <3>3, <3>4
    <2>2. QED
      BY <1>2, <1>6, <1>13, <2>1, Parts, StoreStep
  <1>16. LeakInv'
    <2>1. SUFFICES ASSUME ~raced', faults' = 0
                   PROVE  stored' \subseteq Shown' \cup pending' \cup queue' \cup Saving' \cup Discarding'
      BY DEF LeakInv
    <2>2. ~raced /\ ~Outdated(t) /\ faults = 0
      BY <1>1, <1>9, <2>1
    <2>3. stored \subseteq Shown \cup pending \cup queue \cup Saving \cup Discarding
      BY <2>2, Parts DEF LeakInv
    <2>4. None \notin stored
      BY Parts, ModelValues DEF TypeOK
    <2>5. stored \cap Shown \subseteq Shown' \cup Discarding'
      BY <1>3, <1>4, <1>10, <2>2, <2>4
    <2>6. pending \subseteq pending' \cup Shown'
      BY <1>1, <1>4
    <2>7. QED
      BY <1>9, <1>10, <2>3, <2>5, <2>6
  <1>17. TypeOK'
    <2>1. /\ stored' \subseteq Images /\ expired' \subseteq pending' /\ pending' \subseteq Images
          /\ queue' \subseteq Images /\ unsent' \subseteq Images /\ faults' \in 0 .. MaxFaults
      BY <1>1, Parts DEF TypeOK
    <2>2. raced' \in BOOLEAN
      BY <1>1, Parts DEF TypeOK
    <2>3. /\ productLock' \in [Products -> Handlers \cup {None}]
          /\ uploadLock' \in [Images -> Handlers \cup {None}]
      BY <1>1, <1>2, Parts, Released
    <2>4. QED
      BY <1>4, <1>6, <2>1, <2>2, <2>3 DEF TypeOK
  <1>18. QED
    BY <1>4, <1>11, <1>14, <1>15, <1>16, <1>17 DEF IInv

-----------------------------------------------------------------------------
(* The invariant is inductive                                              *)

LEMMA InitInv == Init => IInv
  <1> SUFFICES ASSUME Init PROVE IInv
    OBVIOUS
  <1>1. /\ stored = {} /\ pending = {} /\ expired = {} /\ queue = {} /\ products = Existing
        /\ gallery = [p \in Products |-> {}] /\ shown = [p \in Products |-> None]
        /\ productLock = [p \in Products |-> None] /\ uploadLock = [i \in Images |-> None]
        /\ tx = [t \in Txs |-> Idle] /\ unsent = Images /\ faults = 0 /\ raced = FALSE
    BY DEF Init
  <1>2. TypeOK
    <2>1. faults \in 0 .. MaxFaults /\ products \subseteq Products
      BY <1>1, ModelValues, ProductAssumption
    <2>2. /\ gallery \in [Products -> SUBSET GalleryRow] /\ shown \in [Products -> Images \cup {None}]
          /\ productLock \in [Products -> Handlers \cup {None}]
          /\ uploadLock \in [Images -> Handlers \cup {None}]
      BY <1>1
    <2>3. tx \in [Txs -> TxState]
      BY <1>1, IdleFields
    <2>4. QED
      BY <1>1, <2>1, <2>2, <2>3 DEF TypeOK
  <1>3. \A t \in Txs : /\ tx[t] = Idle
                       /\ tx[t].pc = "idle" /\ tx[t].kind = "none" /\ tx[t].row = None
                       /\ tx[t].image = None /\ tx[t].previous = None /\ tx[t].seen = <<>>
                       /\ tx[t].todo = {}
    BY <1>1, IdleFields
  <1>4. ASSUME NEW t \in Txs PROVE TxInv(t)
    <2>1. Shape(t)
      BY <1>3, EmptySeen, ModelValues DEF Shape, EditKinds, UseKinds
    <2>2. LockInv(t) /\ CreateInv(t) /\ ConsumeInv(t) /\ GoneInv(t)
      BY <1>3 DEF LockInv, CreateInv, ConsumeInv, Uses, GoneInv, EditKinds
    <2>3. QED
      BY <2>1, <2>2 DEF TxInv
  <1>5. Saving = {} /\ Discarding = {} /\ Sent = {}
    BY <1>1, <1>3 DEF Saving, Discarding, Sent
  <1>6. /\ \A p \in Products : gallery[p] = {} /\ Used(gallery[p]) = {} /\ shown[p] = None
        /\ Shown = {}
    BY <1>1 DEF Used, Shown
  <1>7. (\A p \in Products : IsFiniteSet(gallery[p])) /\ EmptyInv /\ GalleryAgrees
    BY <1>6, FS_EmptySet DEF EmptyInv, GalleryAgrees
  <1>8. UploadsAreUsedOnce
    <2>1. \A p \in Products : Cardinality(gallery[p]) = 0
      BY <1>6, FS_EmptySet
    <2>2. 0 <= MaxPerProduct
      BY ModelValues
    <2>3. QED
      BY <1>6, <2>1, <2>2 DEF UploadsAreUsedOnce
  <1>9. LifeInv
    BY <1>1, <1>3, <1>5, <1>6 DEF LifeInv
  <1>10. StoreInv
    <2>1. \A t \in Txs : DoomedInv(t)
      BY <1>3 DEF DoomedInv
    <2>2. QED
      BY <1>1, <1>5, <1>6, <2>1 DEF StoreInv
  <1>11. LeakInv
    BY <1>1 DEF LeakInv
  <1>12. QED
    BY <1>2, <1>4, <1>7, <1>8, <1>9, <1>10, <1>11 DEF IInv

LEMMA StutterStep ==
  ASSUME IInv, UNCHANGED vars
  PROVE  IInv'
  <1>1. UNCHANGED <<stored, pending, expired, queue, products, gallery, shown, productLock,
                    uploadLock, tx, unsent, faults, raced>>
    BY DEF vars
  <1>2. /\ Shown' = Shown /\ Sent' = Sent /\ Saving' = Saving /\ Discarding' = Discarding
        /\ Dead' = Dead
    BY <1>1 DEF Shown, Sent, Saving, Discarding, Dead
  <1>3. \A t \in Txs : TxInv(t)' /\ (DoomedInv(t) <=> DoomedInv(t)')
    <2>1. ASSUME NEW t \in Txs PROVE TxInv(t)' /\ (DoomedInv(t) <=> DoomedInv(t)')
      <3>1. Shape(t)' /\ LockInv(t)' /\ CreateInv(t)' /\ ConsumeInv(t)' /\ GoneInv(t)'
        BY <1>1, Parts DEF Shape, LockInv, CreateInv, ConsumeInv, Uses, GoneInv
      <3>2. DoomedInv(t) <=> DoomedInv(t)'
        BY <1>1, <1>2 DEF DoomedInv
      <3>3. QED
        BY <3>1, <3>2 DEF TxInv
    <2>2. QED
      BY <2>1
  <1>4. TypeOK' /\ EmptyInv' /\ GalleryAgrees' /\ UploadsAreUsedOnce'
        /\ \A p \in Products : IsFiniteSet(gallery'[p])
    BY <1>1, Parts DEF TypeOK, EmptyInv, GalleryAgrees, UploadsAreUsedOnce
  <1>5. LifeInv' /\ LeakInv'
    BY <1>1, <1>2, Parts DEF LifeInv, LeakInv
  <1>6. StoreInv'
    BY <1>1, <1>2, <1>3, Parts DEF StoreInv
  <1>7. QED
    BY <1>3, <1>4, <1>5, <1>6 DEF IInv

LEMMA RequestSteps ==
  ASSUME IInv, NEW t \in Handlers, RequestStep(t) \/ SaveFails(t)
  PROVE  IInv'
  <1>1. CASE SavePending(t)
    BY <1>1, SavePendingStep
  <1>2. CASE LockProduct(t)
    BY <1>2, LockProductStep
  <1>3. CASE KeepImage(t) \/ ConsumePending(t)
    BY <1>3, ConsumeSteps
  <1>4. CASE RejectUpload(t) \/ RejectRequest(t)
    BY <1>4, RejectSteps
  <1>5. CASE CommitImage(t)
    BY <1>5, CommitStep
  <1>6. CASE Discard(t)
    BY <1>6, DiscardStep
  <1>7. CASE SaveFails(t)
    BY <1>7, SaveFailsStep
  <1>8. QED
    BY <1>1, <1>2, <1>3, <1>4, <1>5, <1>6, <1>7 DEF RequestStep

LEMMA WorkerSteps ==
  ASSUME IInv, NEW w \in Workers, BeginPass(w) \/ WorkerStep(w)
  PROVE  IInv'
  <1>1. CASE BeginPass(w)
    BY <1>1, BeginPassStep
  <1>2. ASSUME NEW i \in Images, SweepFile(w, i) \/ RetryFile(w, i)
        PROVE  IInv'
    BY <1>2, WorkerFileStep
  <1>3. CASE SweepRow(w) \/ RetryRow(w)
    BY <1>3, WorkerRowStep
  <1>4. CASE SelectQueue(w)
    BY <1>4, SelectQueueStep
  <1>5. CASE EndPass(w)
    BY <1>5, EndPassStep
  <1>6. QED
    BY <1>1, <1>2, <1>3, <1>4, <1>5 DEF WorkerStep, SweepStep, RetryStep

\* A request for the images of a product begins.
BeginEdits ==
  \/ \E t \in Handlers, p \in Products, i \in pending : BeginCreate(t, p, i)
  \/ \E t \in Handlers, p \in Editable : \E i \in pending \cup Used(gallery[p]) : BeginUpdate(t, p, i)
  \/ \E t \in Handlers, p \in Editable, i \in pending, lead \in BOOLEAN : BeginAttach(t, p, i, lead)
  \/ \E t \in Handlers, p \in Editable : \E s \in SetToSeqs(Used(gallery[p])) : BeginReorder(t, p, s)
  \/ \E t \in Handlers, p \in Editable : \E i \in Used(gallery[p]) \cup {None} : BeginDelete(t, p, i)

LEMMA BeginEditsStep ==
  ASSUME IInv, BeginEdits
  PROVE  IInv'
  <1>1. ASSUME NEW t \in Handlers, NEW p \in Products, NEW i \in pending, BeginCreate(t, p, i)
        PROVE  IInv'
    BY <1>1, BeginCreateStep
  <1>2. ASSUME NEW t \in Handlers, NEW p \in Editable, NEW i \in pending \cup Used(gallery[p]),
               BeginUpdate(t, p, i)
        PROVE  IInv'
    BY <1>2, BeginUpdateStep
  <1>3. ASSUME NEW t \in Handlers, NEW p \in Editable, NEW i \in pending, NEW lead \in BOOLEAN,
               BeginAttach(t, p, i, lead)
        PROVE  IInv'
    BY <1>3, BeginAttachStep
  <1>4. ASSUME NEW t \in Handlers, NEW p \in Editable, NEW s \in SetToSeqs(Used(gallery[p])),
               BeginReorder(t, p, s)
        PROVE  IInv'
    BY <1>4, BeginReorderStep
  <1>5. ASSUME NEW t \in Handlers, NEW p \in Editable, NEW i \in Used(gallery[p]) \cup {None},
               BeginDelete(t, p, i)
        PROVE  IInv'
    BY <1>5, BeginDeleteStep
  <1>6. QED
    BY <1>1, <1>2, <1>3, <1>4, <1>5 DEF BeginEdits

LEMMA NextInv ==
  ASSUME IInv, [Next]_vars
  PROVE  IInv'
  <1>1. ASSUME NEW t \in Handlers, Upload(t)
        PROVE  IInv'
    BY <1>1, UploadStep
  <1>2. CASE BeginEdits
    BY <1>2, BeginEditsStep
  <1>3. ASSUME NEW t \in Handlers, RequestStep(t) \/ SaveFails(t)
        PROVE  IInv'
    BY <1>3, RequestSteps
  <1>4. ASSUME NEW t \in Handlers, NEW gone \in BOOLEAN, DiscardFails(t, gone)
        PROVE  IInv'
    BY <1>4, DiscardFailsStep
  <1>5. ASSUME NEW i \in Images, Expire(i)
        PROVE  IInv'
    BY <1>5, ExpireStep
  <1>6. ASSUME NEW w \in Workers, BeginPass(w) \/ WorkerStep(w)
        PROVE  IInv'
    BY <1>6, WorkerSteps
  <1>7. ASSUME NEW w \in Workers, NEW i \in Images, SkipFile(w, i)
        PROVE  IInv'
    BY <1>7, SkipFileStep
  <1>8. ASSUME NEW t \in Txs, Abort(t)
        PROVE  IInv'
    BY <1>8, AbortStep
  <1>9. CASE Quiescent \/ UNCHANGED vars
    BY <1>9, StutterStep DEF Quiescent
  <1>10. QED
    BY <1>1, <1>2, <1>3, <1>4, <1>5, <1>6, <1>7, <1>8, <1>9 DEF Next, BeginEdits

-----------------------------------------------------------------------------
(* Theorems                                                                *)

\* What requests and the cleanup worker rely on of each other - who holds which product
\* and which upload, what was read of them, who is to save or delete which file - holds
\* whatever runs at the same time and whatever fails.
THEOREM Inductive == Spec => []IInv
  <1>1. Init => IInv
    BY InitInv
  <1>2. IInv /\ [Next]_vars => IInv'
    BY NextInv
  <1>3. QED
    BY <1>1, <1>2, PTL DEF Spec

\* Files, rows, locks, requests and passes have the values the code can give them; the
\* positions that attach, replace, reorder and delete compute (apply_product_image_order,
\* replace_primary_product_image) are never negative.
THEOREM TypeCorrect == Spec => []TypeOK
  <1>1. IInv => TypeOK
    BY DEF IInv
  <1>2. QED
    BY <1>1, Inductive, PTL

\* product/service.rs: attach_product_image, update_product (replace_primary_product_image),
\* reorder_product_images and delete_product_image_internal keep one primary image, listed
\* first, distinct positions, and products.image_public_id naming it
\* (sync_product_primary_image), for any number of requests, images and products.
THEOREM GalleriesAgree == Spec => []GalleryAgrees
  <1>1. IInv => GalleryAgrees
    BY DEF IInv
  <1>2. QED
    BY <1>1, Inductive, PTL

\* consume_pending_product_image and MAX_PRODUCT_IMAGES: an upload is in one gallery at
\* most, never in one while it waits to be used or cleaned up, and no gallery is too large.
THEOREM UploadsUsedOnce == Spec => []UploadsAreUsedOnce
  <1>1. IInv => UploadsAreUsedOnce
    BY DEF IInv
  <1>2. QED
    BY <1>1, Inductive, PTL

\* The deletions of product/handler.rs and shared/maintenance.rs: unless a request went on
\* from an outdated read, no file is deleted that a gallery shows, whatever fails.
THEOREM GalleriesAlwaysExist == Spec => []GalleriesExist
  <1>1. IInv => GalleriesExist
    <2>1. ASSUME IInv, ~raced, NEW p \in Products
          PROVE  Used(gallery[p]) \subseteq stored
      BY <2>1, GalleryFacts, Parts DEF StoreInv
    <2>2. QED
      BY <2>1 DEF GalleriesExist
  <1>2. QED
    BY <1>1, Inductive, PTL

\* The same code: as long as no call fails and no read was outdated, a file in the store is
\* shown, waits to be used, is queued, or a request has it in hand.
THEOREM NothingIsLeaked == Spec => []NothingLeaks
  <1>1. IInv => NothingLeaks
    <2>1. SUFFICES ASSUME IInv PROVE Saving \cup Discarding \subseteq InHand
      BY Parts DEF LeakInv, NothingLeaks
    <2>2. ASSUME NEW t \in Txs, tx[t].pc \in {"save", "discard"}
          PROVE  t \in Handlers
      BY <2>1, <2>2, Parts, ModelValues DEF Shape
    <2>3. QED
      BY <2>2 DEF Saving, Discarding, InHand
  <1>2. QED
    BY <1>1, Inductive, PTL

=============================================================================
