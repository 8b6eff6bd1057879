---------------------------- MODULE Customer_proofs ----------------------------
(***************************************************************************)
(* IInv of CustomerInv is inductive, for every value of the constants, and *)
(* the safety properties of Customer follow.                               *)
(***************************************************************************)
EXTENDS CustomerInv, SequenceTheorems, TLAPS

-----------------------------------------------------------------------------
(* Values                                                                  *)

LEMMA ModelValues ==
  /\ None \notin Addresses /\ None \notin Orders /\ None \notin Contents
  /\ None \notin Files /\ None \notin Txs
  /\ MaxStock \in Nat \ {0} /\ MaxRequests \in Nat /\ MaxFaults \in Nat
  BY NoneAssumption, BoundAssumption

LEMMA IdleFields ==
  /\ Idle \in TxState
  /\ Idle.pc = "idle" /\ Idle.kind = "none" /\ Idle.row = None /\ Idle.content = None
  /\ Idle.wish = "keep" /\ Idle.default = FALSE /\ Idle.fallback = None
  /\ Idle.file = None /\ Idle.previous = None /\ Idle.n = 0
  BY BoundAssumption DEF Idle, TxState

\* The types of what a request has in its record.
LEMMA TxFields ==
  ASSUME TypeOK, NEW s \in Txs
  PROVE  /\ tx[s] \in TxState
         /\ tx[s].pc \in {"idle", "owner", "rows", "pick", "place", "save", "write", "discard",
                          "cart"}
         /\ tx[s].kind \in {"none", "create", "update", "delete", "checkout", "profile", "slip",
                            "add", "set"}
         /\ tx[s].row \in Addresses \cup Orders \cup {None}
         /\ tx[s].content \in Contents \cup {None} /\ tx[s].wish \in {"keep", "yes", "no"}
         /\ tx[s].default \in BOOLEAN /\ tx[s].fallback \in Addresses \cup {None}
         /\ tx[s].file \in Files \cup {None} /\ tx[s].previous \in Files \cup {None}
         /\ tx[s].n \in 0 .. MaxStock
  <1>1. tx[s] \in TxState
    BY DEF TypeOK
  <1>2. QED
    BY <1>1 DEF TxState

-----------------------------------------------------------------------------
(* The addresses                                                           *)

LEMMA BookFields ==
  ASSUME TypeOK
  PROVE  /\ Len(book) \in Nat /\ DOMAIN book = 1 .. Len(book)
         /\ book \in [1 .. Len(book) -> Address]
         /\ \A i \in DOMAIN book : book[i].id \in Addresses /\ book[i].content \in Contents
                                     /\ book[i].default \in BOOLEAN /\ book[i].id \in Ids
  <1>1. book \in Seq(Address)
    BY DEF TypeOK
  <1>2. Len(book) \in Nat /\ book \in [1 .. Len(book) -> Address] /\ DOMAIN book = 1 .. Len(book)
    BY <1>1, LenProperties
  <1>3. QED
    BY <1>2 DEF Address, Ids

\* An id names one address.
LEMMA NamedFacts ==
  ASSUME TypeOK, NEW a \in Ids
  PROVE  /\ Place(a) \in DOMAIN book /\ Named(a) = book[Place(a)] /\ Named(a).id = a
         /\ Named(a) \in Address /\ a \in Addresses
         /\ Named(a).content \in Contents /\ Named(a).default \in BOOLEAN
         /\ \A i \in DOMAIN book : book[i].id = a => i = Place(a) /\ book[i] = Named(a)
  <1>1. \E i \in DOMAIN book : book[i].id = a
    BY DEF Ids
  <1>2. Place(a) \in DOMAIN book /\ book[Place(a)].id = a
    BY <1>1 DEF Place
  <1>3. \A i \in DOMAIN book : book[i].id = a => i = Place(a)
    BY <1>2 DEF TypeOK
  <1>4. Named(a) \in Address
    BY <1>2, BookFields DEF Named
  <1>5. QED
    BY <1>2, <1>3, <1>4 DEF Named, Address

\* The others keep their order.
LEMMA OthersFacts ==
  ASSUME TypeOK, NEW a \in Ids
  PROVE  /\ Others(a) \in Seq(Address) /\ Len(Others(a)) = Len(book) - 1
         /\ \A i \in 1 .. Len(book) - 1 :
              Others(a)[i] = IF i < Place(a) THEN book[i] ELSE book[i + 1]
  <1> DEFINE k == Place(a)
             n == Len(book)
             front == SubSeq(book, 1, k - 1)
             rear == SubSeq(book, k + 1, n)
  <1>1. /\ k \in 1 .. n /\ n \in Nat /\ \A i \in 1 .. n : book[i] \in Address
    BY NamedFacts, BookFields
  <1>2. k \in Int /\ k - 1 \in Int /\ k + 1 \in Int /\ n \in Int /\ 1 \in Int
        /\ (\A i \in 1 .. k - 1 : book[i] \in Address)
        /\ (\A i \in k + 1 .. n : book[i] \in Address)
    BY <1>1
  <1> HIDE DEF k, n
  <1>3. /\ front \in Seq(Address) /\ Len(front) = k - 1
        /\ \A i \in 1 .. k - 1 : front[i] = book[i]
    <2>1. /\ front \in Seq(Address) /\ Len(front) = IF 1 <= k - 1 THEN k - 1 - 1 + 1 ELSE 0
          /\ \A i \in 1 .. k - 1 - 1 + 1 : front[i] = book[1 + i - 1]
      BY <1>2, SubSeqProperties
    <2>2. QED
      BY <1>1, <2>1
  <1>4. /\ rear \in Seq(Address) /\ Len(rear) = n - k
        /\ \A i \in 1 .. n - k : rear[i] = book[k + i]
    <2>1. /\ rear \in Seq(Address) /\ Len(rear) = IF k + 1 <= n THEN n - (k + 1) + 1 ELSE 0
          /\ \A i \in 1 .. n - (k + 1) + 1 : rear[i] = book[k + 1 + i - 1]
      BY <1>2, SubSeqProperties
    <2>2. QED
      BY <1>1, <2>1
  <1>5. /\ front \o rear \in Seq(Address) /\ Len(front \o rear) = Len(front) + Len(rear)
        /\ \A i \in 1 .. Len(front) + Len(rear) :
             (front \o rear)[i] = IF i <= Len(front) THEN front[i] ELSE rear[i - Len(front)]
    <2> HIDE DEF front, rear
    <2>1. QED
      BY <1>3, <1>4, ConcatProperties
  <1>6. Others(a) = front \o rear
    BY DEF Others, RemoveAt, k, n
  <1> HIDE DEF front, rear
  <1>7. Len(Others(a)) = n - 1
    BY <1>1, <1>3, <1>4, <1>5, <1>6
  <1>8. ASSUME NEW i \in 1 .. n - 1
        PROVE  Others(a)[i] = IF i < k THEN book[i] ELSE book[i + 1]
    <2>1. i \in 1 .. Len(front) + Len(rear)
      BY <1>1, <1>3, <1>4
    <2>2. CASE i < k
      BY <1>1, <1>3, <1>5, <1>6, <2>1, <2>2
    <2>3. CASE ~(i < k)
      <3>1. i - (k - 1) \in 1 .. n - k /\ k + (i - (k - 1)) = i + 1
        BY <1>1, <2>3
      <3>2. Others(a)[i] = rear[i - (k - 1)]
        BY <1>1, <1>3, <1>5, <1>6, <2>1, <2>3
      <3>3. QED
        BY <1>4, <2>3, <3>1, <3>2
    <2>4. QED
      BY <2>2, <2>3
  <1>9. QED
    BY <1>5, <1>6, <1>7, <1>8 DEF k, n

\* They are the addresses of the book without a, each once.
LEMMA OthersMembers ==
  ASSUME TypeOK, NEW a \in Ids
  PROVE  /\ Others(a) \in Seq(Address) /\ DOMAIN Others(a) = 1 .. Len(book) - 1
         /\ Len(Others(a)) = Len(book) - 1 /\ Len(book) - 1 \in Nat
         /\ \A i \in DOMAIN Others(a) :
              \E j \in DOMAIN book : Others(a)[i] = book[j] /\ book[j].id # a
         /\ \A j \in DOMAIN book : book[j].id # a =>
              \E i \in DOMAIN Others(a) : Others(a)[i] = book[j]
         /\ \A i, j \in DOMAIN Others(a) : Others(a)[i].id = Others(a)[j].id => i = j
  <1> DEFINE k == Place(a)
             n == Len(book)
             b == Others(a)
  <1>1. /\ k \in 1 .. n /\ n \in Nat /\ book[k].id = a /\ DOMAIN book = 1 .. n
        /\ \A i, j \in 1 .. n : book[i].id = book[j].id => i = j
    BY NamedFacts, BookFields DEF TypeOK
  <1>2. /\ b \in Seq(Address) /\ Len(b) = n - 1 /\ DOMAIN b = 1 .. n - 1
        /\ \A i \in 1 .. n - 1 : b[i] = IF i < k THEN book[i] ELSE book[i + 1]
    BY OthersFacts, LenProperties
  <1> HIDE DEF k, n, b
  <1> DEFINE at(i) == IF i < k THEN i ELSE i + 1
  <1>3. ASSUME NEW i \in 1 .. n - 1
        PROVE  at(i) \in 1 .. n /\ at(i) # k /\ b[i] = book[at(i)]
    BY <1>1, <1>2
  <1>4. ASSUME NEW i \in 1 .. n - 1, NEW j \in 1 .. n - 1, at(i) = at(j)
        PROVE  i = j
    BY <1>1, <1>4
  <1>5. ASSUME NEW j \in 1 .. n, book[j].id # a
        PROVE  \E i \in 1 .. n - 1 : b[i] = book[j]
    <2>1. j # k
      BY <1>1, <1>5
    <2>2. CASE j < k
      <3>1. j \in 1 .. n - 1 /\ b[j] = book[j]
        BY <1>1, <1>2, <2>2
      <3>2. QED
        BY <3>1
    <2>3. CASE j > k
      <3>1. j - 1 \in 1 .. n - 1 /\ ~(j - 1 < k) /\ j - 1 + 1 = j
        BY <1>1, <2>3
      <3>2. b[j - 1] = book[j]
        BY <1>2, <3>1
      <3>3. QED
        BY <3>1, <3>2
    <2>4. QED
      BY <1>1, <2>1, <2>2, <2>3
  <1>6. \A i \in 1 .. n - 1 : \E j \in 1 .. n : b[i] = book[j] /\ book[j].id # a
    BY <1>1, <1>3
  <1>7. \A i, j \in 1 .. n - 1 : b[i].id = b[j].id => i = j
    BY <1>1, <1>3, <1>4
  <1>8. n - 1 \in Nat
    BY <1>1
  <1> HIDE DEF at
  <1>9. QED
    BY <1>1, <1>2, <1>5, <1>6, <1>7, <1>8 DEF k, n, b

\* select_replacement_address_id finds another address, if there is one.
LEMMA LatestFacts ==
  ASSUME TypeOK, NEW a \in Ids
  PROVE  /\ Latest(a) \in Addresses \cup {None}
         /\ Latest(a) = None => Others(a) = <<>>
         /\ Latest(a) # None => Latest(a) \in Ids \ {a}
  <1> DEFINE b == Others(a)
  <1>1. /\ b \in Seq(Address) /\ DOMAIN b = 1 .. Len(b)
        /\ \A i \in DOMAIN b : \E j \in DOMAIN book : b[i] = book[j] /\ book[j].id # a
    BY OthersMembers, LenProperties
  <1>2. CASE b = <<>>
    BY <1>2 DEF Latest
  <1>3. CASE b # <<>>
    <2>1. Len(b) \in DOMAIN b /\ Latest(a) = b[Len(b)].id
      <3> HIDE DEF b
      <3>1. Len(b) \in Nat \ {0}
        BY <1>1, <1>3, EmptySeq
      <3>2. Len(b) \in DOMAIN b
        BY <1>1, <3>1
      <3>3. QED
        BY <1>3, <3>2 DEF Latest, Last, b
    <2>2. PICK j \in DOMAIN book : Latest(a) = book[j].id /\ book[j].id # a
      BY <1>1, <2>1
    <2>3. Latest(a) \in Ids \ {a} /\ Latest(a) \in Addresses
      BY <2>2, BookFields
    <2>4. QED
      BY <2>3, ModelValues
  <1>4. QED
    BY <1>2, <1>3

-----------------------------------------------------------------------------
(* What WriteAddresses commits                                             *)

\* The addresses that stay, as t changes them.
Rest(t, kept) ==
  [i \in DOMAIN kept |->
     [kept[i] EXCEPT !.default = IsDefault(t, kept[i]),
                     !.content = IF kept[i].id = tx[t].row THEN tx[t].content ELSE @]]

Made(t) == [id |-> tx[t].row, content |-> tx[t].content, default |-> tx[t].default]

LEMMA IsDefaultType ==
  ASSUME NEW t, NEW r, r.default \in BOOLEAN
  PROVE  IsDefault(t, r) \in BOOLEAN
  BY DEF IsDefault

LEMMA RestFacts ==
  ASSUME TypeOK, NEW t \in Txs, Shape(t), Changes(t),
         NEW kept \in Seq(Address),
         \A i \in DOMAIN kept : kept[i].id = tx[t].row => tx[t].kind = "update"
  PROVE  /\ Rest(t, kept) \in Seq(Address) /\ DOMAIN Rest(t, kept) = DOMAIN kept
         /\ Len(Rest(t, kept)) = Len(kept)
         /\ \A i \in DOMAIN kept :
              /\ Rest(t, kept)[i].id = kept[i].id
              /\ Rest(t, kept)[i].default = IsDefault(t, kept[i])
              /\ Rest(t, kept)[i].content = IF kept[i].id = tx[t].row THEN tx[t].content
                                                                    ELSE kept[i].content
  <1> DEFINE n == Len(kept)
  <1>1. n \in Nat /\ DOMAIN kept = 1 .. n /\ \A i \in 1 .. n : kept[i] \in Address
    BY LenProperties
  <1>2. ASSUME NEW i \in 1 .. n
        PROVE  /\ Rest(t, kept)[i] \in Address
               /\ Rest(t, kept)[i].id = kept[i].id
               /\ Rest(t, kept)[i].default = IsDefault(t, kept[i])
               /\ Rest(t, kept)[i].content = IF kept[i].id = tx[t].row THEN tx[t].content
                                                                     ELSE kept[i].content
    <2> DEFINE c == IF kept[i].id = tx[t].row THEN tx[t].content ELSE kept[i].content
               d == IsDefault(t, kept[i])
    <2>1. c \in Contents
      <3>1. CASE kept[i].id = tx[t].row
        BY <1>1, <3>1 DEF Shape
      <3>2. CASE kept[i].id # tx[t].row
        BY <1>1, <3>2 DEF Address
      <3>3. QED
        BY <3>1, <3>2
    <2>2. d \in BOOLEAN
      BY <1>1, IsDefaultType DEF Address
    <2>3. Rest(t, kept)[i] = [kept[i] EXCEPT !.default = d, !.content = c]
      BY <1>1 DEF Rest
    <2>4. kept[i] \in Address
      BY <1>1
    <2> HIDE DEF c, d
    <2>5. /\ [kept[i] EXCEPT !.default = d, !.content = c] \in Address
          /\ [kept[i] EXCEPT !.default = d, !.content = c].id = kept[i].id
          /\ [kept[i] EXCEPT !.default = d, !.content = c].default = d
          /\ [kept[i] EXCEPT !.default = d, !.content = c].content = c
      BY <2>1, <2>2, <2>4 DEF Address
    <2>6. QED
      BY <2>3, <2>5 DEF c, d
  <1>3. DOMAIN Rest(t, kept) = 1 .. n /\ Rest(t, kept) \in [1 .. n -> Address]
    <2>1. Rest(t, kept) = [i \in 1 .. n |-> Rest(t, kept)[i]]
      BY <1>1 DEF Rest
    <2>2. QED
      BY <1>2, <2>1
  <1>4. Rest(t, kept) \in Seq(Address)
    BY <1>1, <1>3, SeqDef
  <1>5. Len(Rest(t, kept)) = n
    BY <1>1, <1>3, <1>4, LenProperties
  <1>6. QED
    BY <1>1, <1>2, <1>3, <1>4, <1>5

\* The address r of the new book is one of the old one.
Stays(t, r) ==
  /\ r.id \in Ids
  /\ tx[t].kind = "delete" => r.id # tx[t].row
  /\ r.default = IsDefault(t, Named(r.id))
  /\ r.content = IF r.id = tx[t].row THEN tx[t].content ELSE Named(r.id).content

LEMMA WrittenFacts ==
  ASSUME TypeOK, NEW t \in Txs, Shape(t), Changes(t), Present(t),
         tx[t].kind = "create" => tx[t].row \notin Ids
  PROVE  /\ Written(t) \in Seq(Address)
         /\ \A i, j \in DOMAIN Written(t) : Written(t)[i].id = Written(t)[j].id => i = j
         /\ \A i \in DOMAIN Written(t) :
              \/ Stays(t, Written(t)[i])
              \/ tx[t].kind = "create" /\ Written(t)[i] = Made(t)
         /\ \A a \in Ids : \/ tx[t].kind = "delete" /\ a = tx[t].row
                           \/ \E i \in DOMAIN Written(t) : Written(t)[i].id = a
         /\ tx[t].kind = "create" => \E i \in DOMAIN Written(t) : Written(t)[i] = Made(t)
  <1> DEFINE a == tx[t].row
             kept == IF tx[t].kind = "delete" THEN Others(a) ELSE book
             rest == Rest(t, kept)
             n == Len(kept)
  <1>1. tx[t].kind \in AddressKinds /\ a \in Addresses
    BY DEF Changes, Shape
  <1>2. tx[t].kind # "create" => a \in Ids
    BY DEF Present
  <1>3. /\ kept \in Seq(Address) /\ DOMAIN kept = 1 .. n /\ n \in Nat
        /\ \A i \in DOMAIN kept : \E j \in DOMAIN book :
             kept[i] = book[j] /\ (tx[t].kind = "delete" => book[j].id # a)
        /\ \A j \in DOMAIN book : (tx[t].kind = "delete" => book[j].id # a) =>
             \E i \in DOMAIN kept : kept[i] = book[j]
        /\ \A i, j \in DOMAIN kept : kept[i].id = kept[j].id => i = j
    <2>1. CASE tx[t].kind = "delete"
      BY <1>2, <2>1, OthersMembers
    <2>2. CASE tx[t].kind # "delete"
      BY <2>2, BookFields DEF TypeOK
    <2>3. QED
      BY <2>1, <2>2
  <1> HIDE DEF kept
  <1>4. \A i \in DOMAIN kept : /\ kept[i].id \in Ids /\ kept[i] = Named(kept[i].id)
                               /\ tx[t].kind = "delete" => kept[i].id # a
    BY <1>3, NamedFacts, BookFields
  <1>5. \A i \in DOMAIN kept : kept[i].id = tx[t].row => tx[t].kind = "update"
    BY <1>1, <1>4 DEF AddressKinds
  <1>6. /\ rest \in Seq(Address) /\ DOMAIN rest = 1 .. n /\ Len(rest) = n
        /\ \A i \in 1 .. n : rest[i].id = kept[i].id /\ Stays(t, rest[i])
    BY <1>3, <1>4, <1>5, RestFacts DEF Stays
  <1>7. \A i, j \in 1 .. n : rest[i].id = rest[j].id => i = j
    BY <1>3, <1>6
  <1>8. \A b \in Ids : \/ tx[t].kind = "delete" /\ b = a
                       \/ \E i \in 1 .. n : rest[i].id = b
    <2> SUFFICES ASSUME NEW b \in Ids, tx[t].kind = "delete" => b # a
                 PROVE  \E i \in 1 .. n : rest[i].id = b
      OBVIOUS
    <2>1. PICK j \in DOMAIN book : book[j].id = b
      BY DEF Ids
    <2>2. PICK i \in DOMAIN kept : kept[i] = book[j]
      BY <1>3, <2>1
    <2>3. QED
      BY <1>3, <1>6, <2>1, <2>2
  <1>9. Written(t) = IF tx[t].kind = "create" THEN Append(rest, Made(t)) ELSE rest
    BY DEF Written, Rest, Made, kept
  <1> HIDE DEF rest
  <1>10. CASE tx[t].kind # "create"
    BY <1>6, <1>7, <1>8, <1>9, <1>10
  <1>11. CASE tx[t].kind = "create"
    <2> DEFINE b == Append(rest, Made(t))
    <2>1. Made(t) \in Address
      <3>1. tx[t].content \in Contents /\ tx[t].default \in BOOLEAN
        BY <1>11, TxFields DEF Shape
      <3>2. QED
        BY <1>1, <3>1 DEF Made, Address
    <2>2. /\ b \in Seq(Address) /\ DOMAIN b = 1 .. n + 1
          /\ \A i \in 1 .. n : b[i] = rest[i]
          /\ b[n + 1] = Made(t)
      <3>1. b \in Seq(Address) /\ Len(b) = n + 1
        BY <1>6, <2>1
      <3>2. DOMAIN b = 1 .. n + 1
        BY <3>1, LenProperties
      <3>3. (\A i \in 1 .. n : b[i] = rest[i]) /\ b[n + 1] = Made(t)
        BY <1>3, <1>6, <2>1
      <3>4. QED
        BY <3>1, <3>2, <3>3
    <2> HIDE DEF b
    <2>3. Made(t).id = a /\ a \notin Ids
      BY <1>11 DEF Made
    <2>4. \A i \in 1 .. n + 1 : i \in 1 .. n \/ i = n + 1
      BY <1>3
    <2>5. \A i \in 1 .. n : b[i].id \in Ids /\ Stays(t, b[i])
      BY <1>4, <1>6, <1>3, <2>2
    <2>6. \A i, j \in 1 .. n + 1 : b[i].id = b[j].id => i = j
      BY <1>6, <1>7, <2>2, <2>3, <2>4, <2>5
    <2>7. n + 1 \in 1 .. n + 1 /\ 1 .. n \subseteq 1 .. n + 1
      BY <1>3
    <2>8. \A c \in Ids : \E i \in 1 .. n + 1 : b[i].id = c
      BY <1>8, <1>11, <2>2, <2>7
    <2>9. Written(t) = b
      BY <1>9, <1>11 DEF b
    <2>10. QED
      BY <1>11, <2>2, <2>4, <2>5, <2>6, <2>7, <2>8, <2>9
  <1>12. QED
    BY <1>10, <1>11

-----------------------------------------------------------------------------
(* One default address                                                     *)

\* OneDefault, by ids.
DefaultIs(a) == a \in Ids /\ \A i \in DOMAIN book : book[i].default <=> book[i].id = a

LEMMA DefaultById ==
  ASSUME TypeOK
  PROVE  OneDefault <=> (book = <<>> \/ \E a \in Ids : DefaultIs(a))
  <1>1. ASSUME OneDefault, book # <<>>
        PROVE  \E a \in Ids : DefaultIs(a)
    <2>1. PICK i \in DOMAIN book : \A j \in DOMAIN book : book[j].default = (j = i)
      BY <1>1 DEF OneDefault
    <2>2. book[i].id \in Ids
      BY BookFields
    <2>3. \A j \in DOMAIN book : book[j].default <=> book[j].id = book[i].id
      BY <2>1 DEF TypeOK
    <2>4. QED
      BY <2>2, <2>3 DEF DefaultIs
  <1>2. ASSUME NEW a \in Ids, DefaultIs(a)
        PROVE  OneDefault
    <2>1. Place(a) \in DOMAIN book /\ \A j \in DOMAIN book : book[j].id = a <=> j = Place(a)
      BY NamedFacts
    <2>2. \A j \in DOMAIN book : book[j].default \in BOOLEAN
      BY BookFields
    <2>3. \A j \in DOMAIN book : book[j].default = (j = Place(a))
      BY <1>2, <2>1, <2>2 DEF DefaultIs
    <2>4. QED
      BY <2>1, <2>3 DEF OneDefault
  <1>3. CASE book = <<>>
    BY <1>3 DEF OneDefault
  <1>4. QED
    BY <1>1, <1>2, <1>3

\* The default address of the book that t commits, if it has addresses.
LEMMA NewDefault ==
  ASSUME TypeOK, OneDefault, NEW t \in Txs, Shape(t), AddressInv(t), Changes(t)
  PROVE  \/ Written(t) = <<>>
         \/ \E a \in Addresses :
              /\ \E i \in DOMAIN Written(t) : Written(t)[i].id = a
              /\ \A i \in DOMAIN Written(t) : Written(t)[i].default <=> Written(t)[i].id = a
  <1> DEFINE b == Written(t)
             a == tx[t].row
             k == tx[t].kind
             new == tx[t].fallback
  <1>1. /\ Present(t) /\ tx[t].default = Defaults(t) /\ new = Replacement(t)
        /\ k \in AddressKinds /\ a \in Addresses /\ (k = "create" => a \notin Ids)
        /\ (k # "create" => a \in Ids) /\ (k \in {"create", "delete"} => tx[t].wish # "no")
        /\ tx[t].wish \in {"keep", "yes", "no"} /\ tx[t].default \in BOOLEAN
    BY TxFields DEF AddressInv, Changes, Shape, Present
  <1>2. /\ \A i \in DOMAIN b : Stays(t, b[i]) \/ (k = "create" /\ b[i] = Made(t))
        /\ \A c \in Ids : (k = "delete" /\ c = a) \/ \E i \in DOMAIN b : b[i].id = c
        /\ k = "create" => \E i \in DOMAIN b : b[i] = Made(t)
        /\ DOMAIN b = 1 .. Len(b)
    BY <1>1, WrittenFacts, LenProperties
  <1>3. Made(t).id = a /\ Made(t).default = tx[t].default
    BY DEF Made
  <1>4. book = <<>> \/ \E d \in Ids : DefaultIs(d)
    BY DefaultById
  <1>5. \A c \in Ids : Named(c).id = c /\ c \in Addresses /\ Named(c).default \in BOOLEAN
    BY NamedFacts
  <1>6. ASSUME NEW d \in Ids, DefaultIs(d)
        PROVE  \A c \in Ids : Named(c).default <=> c = d
    BY <1>6, NamedFacts DEF DefaultIs
  <1> SUFFICES ASSUME b # <<>>
               PROVE  \E c \in Addresses :
                        /\ \E i \in DOMAIN b : b[i].id = c
                        /\ \A i \in DOMAIN b : b[i].default <=> b[i].id = c
    OBVIOUS
  <1> HIDE DEF b, k, new, a
  <1>7. CASE k = "create" /\ tx[t].default
    <2>1. \A i \in DOMAIN b : Stays(t, b[i]) => ~b[i].default /\ b[i].id # a
      BY <1>1, <1>5, <1>7 DEF Stays, IsDefault, Unsets, a, k, new
    <2>2. (\E i \in DOMAIN b : b[i].id = a) /\ \A i \in DOMAIN b : b[i].default <=> b[i].id = a
      BY <1>2, <1>3, <1>7, <2>1
    <2>3. QED
      BY <1>1, <2>2
  <1>8. CASE k = "create" /\ ~tx[t].default
    <2>1. tx[t].wish # "yes" /\ book # <<>> /\ new = None
      BY <1>1, <1>8 DEF Defaults, Replacement, k
    <2>2. PICK d \in Ids : DefaultIs(d)
      BY <1>4, <2>1
    <2>3. \A i \in DOMAIN b : Stays(t, b[i]) => b[i].default = Named(b[i].id).default /\ b[i].id \in Ids
      BY <1>1, <1>5, <1>8, <2>1, ModelValues DEF Stays, IsDefault, Unsets, a, k, new
    <2>4. \A i \in DOMAIN b : b[i].default <=> b[i].id = d
      BY <1>1, <1>2, <1>3, <1>6, <1>8, <2>2, <2>3
    <2>5. \E i \in DOMAIN b : b[i].id = d
      BY <1>2, <1>8
    <2>6. QED
      BY <1>5, <2>4, <2>5
  <1>9. ASSUME k # "create" PROVE \E d \in Ids : DefaultIs(d)
    <2>1. book # <<>>
      BY <1>1, <1>9, NamedFacts DEF a, k
    <2>2. QED
      BY <1>4, <2>1
  <1>10. CASE k = "update" /\ tx[t].wish = "yes"
    <2>1. \A i \in DOMAIN b : b[i].default <=> b[i].id = a
      BY <1>1, <1>2, <1>5, <1>10 DEF Stays, IsDefault, Unsets, a, k, new
    <2>2. \E i \in DOMAIN b : b[i].id = a
      BY <1>1, <1>2, <1>10
    <2>3. QED
      BY <1>1, <2>1, <2>2
  \* Nothing is promoted: the default address is as before, or it is updated and no other.
  <1>11. CASE k \in {"update", "delete"} /\ ~(k = "update" /\ tx[t].wish = "yes") /\ new = None
    <2>1. PICK d \in Ids : DefaultIs(d)
      BY <1>9, <1>11
    <2>2. ~(k = "delete" /\ d = a)
      <3>1. SUFFICES ASSUME k = "delete", d = a PROVE FALSE
        OBVIOUS
      <3>2. Defaults(t)
        BY <1>6, <2>1, <3>1 DEF Defaults, a, k
      <3>3. Latest(a) = None
        BY <1>1, <1>11, <3>1, <3>2 DEF Replacement, a, k, new
      <3>4. Others(a) = <<>>
        BY <3>1, <3>3, LatestFacts
      <3>5. b = <<>>
        BY <3>1, <3>4 DEF b, Written, a, k
      <3>6. QED
        BY <3>5
    <2>3. \A i \in DOMAIN b : Stays(t, b[i])
      BY <1>2, <1>11
    <2>4. \A c \in Ids : ~(k = "delete" /\ c = a) => (IsDefault(t, Named(c)) <=> c = d)
      <3>1. ASSUME NEW c \in Ids, c # a
            PROVE  IsDefault(t, Named(c)) <=> c = d
        BY <1>1, <1>5, <1>6, <1>11, <2>1, <3>1, ModelValues DEF IsDefault, Unsets, a, k, new
      <3>2. CASE k = "update"
        <4>1. Defaults(t) <=> a = d
          BY <1>1, <1>6, <2>1, <3>2 DEF Defaults, a, k
        <4>2. CASE tx[t].wish = "keep"
          BY <1>1, <1>5, <1>6, <2>1, <3>1, <3>2, <4>2 DEF IsDefault, a, k
        <4>3. CASE tx[t].wish = "no"
          BY <1>1, <1>5, <1>11, <3>1, <4>1, <4>3 DEF IsDefault, a, k, new
        <4>4. QED
          BY <1>1, <1>11, <3>2, <4>2, <4>3
      <3>3. CASE k = "delete"
        BY <3>1, <3>3
      <3>4. QED
        BY <1>11, <3>2, <3>3
    <2>5. \A i \in DOMAIN b : b[i].default <=> b[i].id = d
      BY <2>3, <2>4 DEF Stays, a, k
    <2>6. \E i \in DOMAIN b : b[i].id = d
      BY <1>2, <2>2
    <2>7. QED
      BY <1>5, <2>5, <2>6
  <1>12. CASE k \in {"update", "delete"} /\ ~(k = "update" /\ tx[t].wish = "yes") /\ new # None
    <2>1. PICK d \in Ids : DefaultIs(d)
      BY <1>9, <1>12
    <2>2. Defaults(t) /\ new = Latest(a) /\ (k = "delete" \/ tx[t].wish = "no")
      BY <1>1, <1>12 DEF Replacement, a, k, new
    <2>3. new \in Ids \ {a}
      BY <1>1, <1>12, <2>2, LatestFacts
    <2>4. d = a
      BY <1>1, <1>6, <1>12, <2>1, <2>2 DEF Defaults, a, k
    <2>5. \A i \in DOMAIN b : Stays(t, b[i])
      BY <1>2, <1>12
    <2>6. ASSUME NEW c \in Ids, ~(k = "delete" /\ c = a)
          PROVE  IsDefault(t, Named(c)) <=> c = new
      <3>1. CASE c = a
        BY <1>1, <1>5, <1>12, <2>2, <2>3, <2>6, <3>1 DEF IsDefault, a, k, new
      <3>2. CASE c # a
        BY <1>1, <1>5, <1>6, <1>12, <2>1, <2>4, <3>2 DEF IsDefault, Unsets, a, k, new
      <3>3. QED
        BY <3>1, <3>2
    <2>7. \A i \in DOMAIN b : b[i].default <=> b[i].id = new
      BY <2>5, <2>6 DEF Stays, a, k
    <2>8. \E i \in DOMAIN b : b[i].id = new
      BY <1>2, <2>3
    <2>9. QED
      BY <1>5, <2>3, <2>7, <2>8
  <1>13. k \in {"create", "update", "delete"}
    BY <1>1 DEF AddressKinds
  <1>14. QED
    BY <1>1, <1>7, <1>8, <1>10, <1>11, <1>12, <1>13

-----------------------------------------------------------------------------
(* What a step of t leaves to the others; t is None when no request moves.  *)

AddressesPart == (\A s \in Txs : AddressInv(s) /\ CheckoutInv(s)) /\ OneDefault
PicturesPart ==
  (unanswered => faults > 0) /\ PicturesInv /\ PicturesExist /\ NoFileIsForgotten
CartPart == (\A s \in Txs : CartInv(s)) /\ CartIsCovered

OnlyMoves(t) == tx' \in [Txs -> TxState] /\ \A s \in Txs \ {t} : tx'[s] = tx[s]

KeepsLocks(t) ==
  \A s \in Txs \ {t} :
    /\ userLock = s => userLock' = s
    /\ \A a \in Addresses : addressLock[a] = s => addressLock'[a] = s
    /\ \A o \in Orders : orderLock[o] = s => orderLock'[o] = s

LocksType ==
  /\ userLock \in Txs \cup {None}
  /\ addressLock \in [Addresses -> Txs \cup {None}]
  /\ orderLock \in [Orders -> Txs \cup {None}]

OrdersStay == \A o \in Orders : orders[o] # None => orders'[o] # None

SlipsStay ==
  \A o \in Orders :
    /\ orders[o] # None => orders'[o] # None /\ orders'[o].slip = orders[o].slip
    /\ orders[o] = None /\ orders'[o] # None => orders'[o].slip = None

LEMMA Parts ==
  ASSUME TypeOK', \A s \in Txs : Shape(s)', AddressesPart', PicturesPart', CartPart'
  PROVE  IInv'
  BY DEF IInv, AddressesPart, PicturesPart, CartPart

LEMMA Moves ==
  ASSUME TypeOK, NEW t \in Txs, NEW r \in TxState, tx' = [tx EXCEPT ![t] = r]
  PROVE  OnlyMoves(t) /\ tx'[t] = r
  BY DEF TypeOK, OnlyMoves

LEMMA Released ==
  ASSUME TypeOK, NEW t \in Txs, ReleaseLocks(t)
  PROVE  KeepsLocks(t) /\ LocksType'
  <1>1. userLock' \in Txs \cup {None} /\ (userLock # t => userLock' = userLock)
    BY DEF ReleaseLocks, TypeOK
  <1>2. /\ addressLock' \in [Addresses -> Txs \cup {None}]
        /\ \A a \in Addresses : addressLock[a] # t => addressLock'[a] = addressLock[a]
    BY DEF ReleaseLocks, TypeOK
  <1>3. /\ orderLock' \in [Orders -> Txs \cup {None}]
        /\ \A o \in Orders : orderLock[o] # t => orderLock'[o] = orderLock[o]
    BY DEF ReleaseLocks, TypeOK
  <1>4. QED
    BY <1>1, <1>2, <1>3 DEF KeepsLocks, LocksType

LEMMA ShapesKeep ==
  ASSUME IInv, NEW t, OnlyMoves(t), OrdersStay, t \in Txs => Shape(t)'
  PROVE  \A s \in Txs : Shape(s)'
  <1> SUFFICES ASSUME NEW s \in Txs, s # t
               PROVE  Shape(s)'
    OBVIOUS
  <1>1. Shape(s) /\ tx'[s] = tx[s]
    BY DEF IInv, OnlyMoves
  <1>2. QED
    BY <1>1 DEF Shape, OrdersStay

\* The book is as it was, and so is what was read of it.
LEMMA AddressesKeep ==
  ASSUME IInv, NEW t, OnlyMoves(t), book' = book, KeepsLocks(t),
         t \in Txs => AddressInv(t)' /\ CheckoutInv(t)'
  PROVE  AddressesPart'
  <1>1. Ids' = Ids /\ \A a \in Addresses : Named(a)' = Named(a) /\ Latest(a)' = Latest(a)
    BY DEF Ids, Named, Place, Latest, Others
  <1>2. ASSUME NEW s \in Txs, s # t
        PROVE  AddressInv(s)' /\ CheckoutInv(s)'
    <2>1. /\ AddressInv(s) /\ CheckoutInv(s) /\ Shape(s) /\ tx'[s] = tx[s]
          /\ userLock = s => userLock' = s
          /\ \A a \in Addresses : addressLock[a] = s => addressLock'[a] = s
      BY <1>2 DEF IInv, OnlyMoves, KeepsLocks
    <2>2. Owns(s)' = Owns(s) /\ Changes(s)' = Changes(s) /\ Present(s)' = Present(s)
      BY <1>1, <2>1 DEF Owns, Changes, Present
    <2>3. Changes(s) => tx[s].row \in Addresses /\ Defaults(s)' = Defaults(s)
                        /\ Replacement(s)' = Replacement(s)
      <3>1. Changes(s) => tx[s].row \in Addresses
        BY <2>1 DEF Shape, Changes
      <3>2. QED
        BY <1>1, <2>1, <3>1 DEF Defaults, Replacement
    <2>4. ASSUME tx[s].kind = "create", NEW z \in Txs \ {s}, tx'[z].kind = "create"
          PROVE  tx'[z].row # tx[s].row
      <3>1. CASE z = t
        BY <1>2, <2>1, <2>4, <3>1 DEF AddressInv
      <3>2. CASE z # t
        BY <2>1, <2>4, <3>2 DEF AddressInv, OnlyMoves
      <3>3. QED
        BY <3>1, <3>2
    <2>5. AddressInv(s)'
      BY <1>1, <2>1, <2>2, <2>3, <2>4 DEF AddressInv
    <2>6. CheckoutInv(s)'
      <3>1. tx[s].pc = "place" => tx[s].row \in Addresses
        BY <2>1 DEF Shape
      <3>2. QED
        BY <1>1, <2>1, <3>1 DEF CheckoutInv
    <2>7. QED
      BY <2>5, <2>6
  <1>3. OneDefault'
    BY DEF IInv, OneDefault
  <1>4. QED
    BY <1>2, <1>3 DEF AddressesPart

LEMMA SlipsKeep ==
  ASSUME SlipsStay
  PROVE  Slips' \subseteq Slips \cup {None} /\ Slips \subseteq Slips'
  BY DEF Slips, SlipsStay

\* The pictures are as they were; the file of t may be forgotten after a failure.
LEMMA PicturesKeep ==
  ASSUME IInv, NEW t, OnlyMoves(t), UNCHANGED pictureVars, SlipsStay, KeepsLocks(t),
         unanswered' = unanswered, faults \in Nat, faults' \in Nat, faults' >= faults,
         t \in Txs => /\ PreviousInv(t)'
                      /\ \/ tx'[t].file = tx[t].file
                         \/ tx'[t].file = None /\ faults' > 0
  PROVE  PicturesPart'
  <1>1. /\ TypeOK /\ (unanswered => faults > 0) /\ PicturesInv /\ PicturesExist
        /\ NoFileIsForgotten /\ avatar' = avatar /\ stored' = stored
    BY DEF IInv, pictureVars
  <1>2. Slips' \subseteq Slips \cup {None} /\ Slips \subseteq Slips'
    BY SlipsKeep
  <1>3. unanswered' => faults' > 0
    BY <1>1
  <1>4. PicturesExist'
    BY <1>1, <1>2 DEF PicturesExist
  <1>5. NoFileIsForgotten'
    <2> SUFFICES ASSUME faults' = 0, NEW f \in stored
                 PROVE  f \in {avatar} \cup Slips' \cup InHand'
      BY <1>1 DEF NoFileIsForgotten
    <2>1. faults = 0
      OBVIOUS
    <2>2. f \in {avatar} \cup Slips \cup InHand
      BY <1>1, <2>1 DEF NoFileIsForgotten
    <2>3. CASE f \in InHand
      <3>1. PICK s \in Txs : f = tx[s].file
        BY <2>3 DEF InHand
      <3>2. tx'[s].file = tx[s].file
        BY <2>1 DEF OnlyMoves
      <3>3. QED
        BY <3>1, <3>2 DEF InHand
    <2>4. QED
      BY <1>2, <2>2, <2>3
  <1>6. PicturesInv'
    <2> SUFFICES ASSUME ~unanswered
                 PROVE  /\ \A s \in Txs : FileInv(s)' /\ PreviousInv(s)'
                        /\ ShownOnce'
      BY DEF PicturesInv
    <2>1. ShownOnce /\ \A s \in Txs : FileInv(s) /\ PreviousInv(s)
      BY <1>1 DEF PicturesInv
    <2>2. ShownOnce'
      <3>1. avatar # None => avatar \notin Slips'
        BY <1>2, <2>1 DEF ShownOnce
      <3>2. ASSUME NEW o \in Orders, NEW p \in Orders, orders'[o] # None, orders'[p] # None,
                   orders'[o].slip = orders'[p].slip, orders'[o].slip # None
            PROVE  o = p
        BY <2>1, <3>2 DEF ShownOnce, SlipsStay
      <3>3. QED
        BY <1>1, <3>1, <3>2 DEF ShownOnce
    <2>3. \A s \in Txs : tx'[s].file = tx[s].file \/ tx'[s].file = None
      BY DEF OnlyMoves
    <2>4. ASSUME NEW s \in Txs
          PROVE  FileInv(s)'
      <3> SUFFICES ASSUME tx'[s].file # None
                   PROVE  /\ tx'[s].file \in stored' /\ tx'[s].file \notin Shown'
                          /\ \A z \in Txs \ {s} : tx'[z].file # tx'[s].file
        BY DEF FileInv
      <3>1. tx'[s].file = tx[s].file
        BY <2>3
      <3>2. /\ tx[s].file \in stored /\ tx[s].file \notin Shown
            /\ \A z \in Txs \ {s} : tx[z].file # tx[s].file
        BY <2>1, <3>1 DEF FileInv
      <3>3. Shown' \subseteq Shown \cup {None}
        BY <1>1, <1>2 DEF Shown
      <3>4. QED
        BY <1>1, <2>3, <3>1, <3>2, <3>3
    <2>5. ASSUME NEW s \in Txs, s # t
          PROVE  PreviousInv(s)'
      <3>1. /\ PreviousInv(s) /\ Shape(s) /\ tx'[s] = tx[s]
            /\ userLock = s => userLock' = s
            /\ \A o \in Orders : orderLock[o] = s => orderLock'[o] = s
        BY <2>1, <2>5 DEF IInv, OnlyMoves, KeepsLocks
      <3>2. Replaces(s) /\ tx[s].kind # "profile" => tx[s].row \in Orders /\ orders[tx[s].row] # None
        BY <3>1 DEF Shape, Replaces, PictureKinds
      <3>3. QED
        BY <1>1, <3>1, <3>2 DEF PreviousInv, Replaces, SlipsStay
    <2>6. QED
      BY <2>2, <2>4, <2>5
  <1>7. QED
    BY <1>3, <1>4, <1>5, <1>6 DEF PicturesPart

LEMMA CartsKeep ==
  ASSUME IInv, NEW t, OnlyMoves(t), peak' \in Nat, peak' >= peak, cart' <= peak',
         t \in Txs => CartInv(t)'
  PROVE  CartPart'
  <1>1. ASSUME NEW s \in Txs, s # t
        PROVE  CartInv(s)'
    <2>1. tx'[s] = tx[s] /\ tx[s].n <= peak /\ tx[s].n \in 0 .. MaxStock /\ peak \in 0 .. MaxStock
      BY <1>1, TxFields DEF IInv, CartInv, OnlyMoves, TypeOK
    <2>2. tx[s].n <= peak'
      BY <2>1, BoundAssumption
    <2>3. QED
      BY <2>1, <2>2 DEF CartInv
  <1>2. QED
    BY <1>1 DEF CartPart, CartIsCovered

-----------------------------------------------------------------------------
(* Steps that commit nothing                                               *)

\* A request goes on: it has read or locked something.
LEMMA QuietStep ==
  ASSUME IInv, NEW t \in Txs, NEW r \in TxState, tx' = [tx EXCEPT ![t] = r],
         book' = book, orders' = orders, UNCHANGED <<pictureVars, cartVars, countVars>>,
         KeepsLocks(t), LocksType',
         r.file = tx[t].file, r.n = tx[t].n,
         Shape(t)', AddressInv(t)', CheckoutInv(t)', PreviousInv(t)'
  PROVE  IInv'
  <1>1. /\ TypeOK /\ OnlyMoves(t) /\ tx'[t] = r
        /\ UNCHANGED pictureVars /\ UNCHANGED <<stock, peak, cart, requests, faults, unanswered>>
    BY Moves DEF IInv, cartVars, countVars
  <1>2. OrdersStay /\ SlipsStay
    BY DEF OrdersStay, SlipsStay
  <1>3. TypeOK'
    BY <1>1 DEF TypeOK, LocksType, OnlyMoves, pictureVars
  <1>4. faults \in Nat /\ peak \in Nat /\ stock \in Nat /\ cart \in Nat
    BY <1>1, BoundAssumption DEF TypeOK
  <1>5. CartInv(t)' /\ cart <= peak
    BY <1>1 DEF IInv, CartInv, CartIsCovered
  <1>6. CartPart'
    BY <1>1, <1>4, <1>5, CartsKeep
  <1>7. PicturesPart'
    BY <1>1, <1>2, <1>4, PicturesKeep
  <1>8. AddressesPart' /\ \A s \in Txs : Shape(s)'
    BY <1>1, <1>2, AddressesKeep, ShapesKeep
  <1>9. QED
    BY <1>3, <1>6, <1>7, <1>8, Parts

LEMMA NoLocks ==
  ASSUME IInv, NEW t, UNCHANGED <<userLock, addressLock, orderLock>>
  PROVE  KeepsLocks(t) /\ LocksType'
  BY DEF IInv, TypeOK, KeepsLocks, LocksType

\* A request that has to do with no address.
LEMMA NoAddress ==
  ASSUME NEW t \in Txs, tx'[t].kind \notin AddressKinds, tx'[t].pc # "place"
  PROVE  AddressInv(t)' /\ CheckoutInv(t)'
  BY DEF AddressInv, CheckoutInv, Owns, Changes, AddressKinds

LEMMA NoPicture ==
  ASSUME NEW t \in Txs, ~(tx'[t].kind \in PictureKinds /\ tx'[t].pc = "write")
  PROVE  PreviousInv(t)'
  BY DEF PreviousInv, Replaces

LEMMA LockOwnerStep ==
  ASSUME IInv, NEW t \in Txs, LockOwner(t)
  PROVE  IInv'
  <1> DEFINE r == [tx[t] EXCEPT !.pc = "rows"]
  <1>1. /\ TypeOK /\ tx[t].pc = "owner" /\ userLock = None /\ userLock' = t
        /\ tx' = [tx EXCEPT ![t] = r] /\ book' = book /\ orders' = orders
        /\ addressLock' = addressLock /\ orderLock' = orderLock
        /\ UNCHANGED <<pictureVars, cartVars, countVars>>
    BY DEF LockOwner, Goto, IInv, addressVars
  <1>2. Shape(t) /\ AddressInv(t)
    BY DEF IInv
  <1>3. /\ r \in TxState /\ r.pc = "rows" /\ r.kind = tx[t].kind /\ r.row = tx[t].row
        /\ r.content = tx[t].content /\ r.wish = tx[t].wish /\ r.file = tx[t].file
        /\ r.previous = tx[t].previous /\ r.n = tx[t].n
    BY <1>1, TxFields DEF TxState
  <1> HIDE DEF r
  <1>4. OnlyMoves(t) /\ tx'[t] = r
    BY <1>1, <1>3, Moves
  <1>5. KeepsLocks(t) /\ LocksType'
    BY <1>1, ModelValues DEF KeepsLocks, LocksType, TypeOK
  <1>6. Shape(t)'
    BY <1>1, <1>2, <1>3, <1>4 DEF Shape, AddressKinds, PictureKinds
  <1>7. AddressInv(t)'
    BY <1>1, <1>2, <1>3, <1>4 DEF AddressInv, Owns, Changes, Ids, OnlyMoves
  <1>8. CheckoutInv(t)' /\ PreviousInv(t)'
    BY <1>3, <1>4 DEF CheckoutInv, PreviousInv, Replaces
  <1>9. QED
    BY <1>1, <1>3, <1>5, <1>6, <1>7, <1>8, QuietStep

\* What the statements of an address request lock contains the address it is about.
LEMMA LockedFacts ==
  ASSUME TypeOK, NEW t \in Txs, Shape(t), tx[t].kind \in AddressKinds, Present(t), NEW any
  PROVE  tx[t].kind # "create" => tx[t].row \in Locked(t, any)
  BY DEF Locked, Present, AddressKinds, Shape

LEMMA ReadAddressesStep ==
  ASSUME IInv, NEW t \in Txs, NEW any \in Addresses, ReadAddresses(t, any)
  PROVE  IInv'
  <1> DEFINE r == Seen(t)
  <1>1. /\ TypeOK /\ tx[t].pc = "rows" /\ Present(t)
        /\ \A a \in Locked(t, any) : addressLock[a] = None
        /\ addressLock' = [a \in Addresses |-> IF a \in Locked(t, any) THEN t ELSE addressLock[a]]
        /\ tx' = [tx EXCEPT ![t] = r] /\ book' = book /\ orders' = orders
        /\ userLock' = userLock /\ orderLock' = orderLock
        /\ UNCHANGED <<pictureVars, cartVars, countVars>>
    BY DEF ReadAddresses, Goto, IInv
  <1>2. Shape(t) /\ AddressInv(t) /\ tx[t].kind \in AddressKinds
    BY <1>1 DEF IInv, Shape
  <1>3. Defaults(t) \in BOOLEAN /\ Replacement(t) \in Addresses \cup {None}
    <2>1. tx[t].kind # "create" => tx[t].row \in Ids
      BY <1>1 DEF Present
    <2>2. Defaults(t) \in BOOLEAN
      <3>1. CASE tx[t].kind = "create"
        BY <3>1 DEF Defaults
      <3>2. CASE tx[t].kind # "create"
        BY <1>1, <2>1, <3>2, NamedFacts DEF Defaults
      <3>3. QED
        BY <3>1, <3>2
    <2>3. CASE tx[t].kind = "create"
      BY <1>2, <2>2, <2>3 DEF Replacement, Shape
    <2>4. CASE tx[t].kind # "create"
      BY <1>1, <2>1, <2>2, <2>4, LatestFacts DEF Replacement
    <2>5. QED
      BY <2>2, <2>3, <2>4
  <1>4. /\ r \in TxState /\ r.pc = "write" /\ r.kind = tx[t].kind /\ r.row = tx[t].row
        /\ r.content = tx[t].content /\ r.wish = tx[t].wish /\ r.file = tx[t].file
        /\ r.default = Defaults(t) /\ r.fallback = Replacement(t)
        /\ r.previous = tx[t].previous /\ r.n = tx[t].n
    BY <1>1, <1>3, TxFields DEF TxState, Seen
  <1> HIDE DEF r
  <1>5. OnlyMoves(t) /\ tx'[t] = r
    BY <1>1, <1>4, Moves
  <1>6. KeepsLocks(t) /\ LocksType'
    BY <1>1, ModelValues DEF KeepsLocks, LocksType, TypeOK
  <1>7. Shape(t)'
    BY <1>1, <1>2, <1>4, <1>5 DEF Shape, AddressKinds, PictureKinds
  <1>8. AddressInv(t)'
    <2>1. userLock = t
      BY <1>1, <1>2 DEF AddressInv, Owns
    <2>2. Ids' = Ids /\ \A a \in Addresses : Named(a)' = Named(a) /\ Latest(a)' = Latest(a)
      BY <1>1 DEF Ids, Latest, Named, Others, Place
    <2>3. tx[t].row \in Addresses /\ Present(t)' = Present(t)
      BY <1>2, <1>4, <1>5, <2>2 DEF Shape, AddressKinds, Present
    <2>4. Defaults(t)' = Defaults(t) /\ Replacement(t)' = Replacement(t)
      BY <1>1, <1>4, <1>5, <2>2, <2>3 DEF Defaults, Replacement
    <2>5. tx[t].kind # "create" => addressLock'[tx[t].row] = t
      BY <1>1, <1>2, <2>3, LockedFacts
    <2>6. /\ tx'[t].kind = tx[t].kind /\ tx'[t].row = tx[t].row /\ userLock' = t
          /\ tx'[t].default = Defaults(t)' /\ tx'[t].fallback = Replacement(t)'
          /\ Present(t)'
      BY <1>1, <1>4, <1>5, <2>1, <2>3, <2>4
    <2>7. ASSUME tx'[t].kind = "create"
          PROVE  /\ tx'[t].row \notin Ids'
                 /\ \A s \in Txs \ {t} : tx'[s].kind = "create" => tx'[s].row # tx'[t].row
      BY <1>2, <1>5, <2>2, <2>6, <2>7 DEF AddressInv, OnlyMoves
    <2>8. QED
      BY <2>5, <2>6, <2>7 DEF AddressInv
  <1>9. CheckoutInv(t)' /\ PreviousInv(t)'
    BY <1>2, <1>4, <1>5 DEF CheckoutInv, PreviousInv, Replaces, AddressKinds, PictureKinds
  <1>10. QED
    BY <1>1, <1>4, <1>6, <1>7, <1>8, <1>9, QuietStep

LEMMA PickAddressStep ==
  ASSUME IInv, NEW t \in Txs, PickAddress(t)
  PROVE  IInv'
  <1> DEFINE a == tx[t].row
             c == Named(a).content
             r == [tx[t] EXCEPT !.pc = "place", !.content = c]
  <1>1. /\ TypeOK /\ tx[t].pc = "pick" /\ a \in Ids /\ addressLock[a] = None
        /\ addressLock' = [addressLock EXCEPT ![a] = t]
        /\ tx' = [tx EXCEPT ![t] = r] /\ book' = book /\ orders' = orders
        /\ userLock' = userLock /\ orderLock' = orderLock
        /\ UNCHANGED <<pictureVars, cartVars, countVars>>
    BY DEF PickAddress, Goto, IInv
  <1>2. Shape(t) /\ tx[t].kind = "checkout"
    BY <1>1 DEF IInv, Shape
  <1>3. a \in Addresses /\ c \in Contents
    BY <1>1, NamedFacts
  <1> HIDE DEF c
  <1>4. /\ r \in TxState /\ r.pc = "place" /\ r.kind = tx[t].kind /\ r.row = a
        /\ r.content = c /\ r.wish = tx[t].wish /\ r.file = tx[t].file
        /\ r.previous = tx[t].previous /\ r.n = tx[t].n
    <2>1. tx[t] \in TxState
      BY <1>1, TxFields
    <2>2. QED
      BY <1>3, <2>1 DEF TxState
  <1> HIDE DEF r, a
  <1>5. OnlyMoves(t) /\ tx'[t] = r
    BY <1>1, <1>4, Moves
  <1>6. KeepsLocks(t) /\ LocksType'
    BY <1>1, <1>3, ModelValues DEF KeepsLocks, LocksType, TypeOK
  <1>7. Shape(t)'
    BY <1>1, <1>2, <1>4, <1>5 DEF Shape, AddressKinds, PictureKinds, a
  <1>8. AddressInv(t)' /\ PreviousInv(t)'
    BY <1>2, <1>4, <1>5 DEF AddressInv, Owns, Changes, AddressKinds, PreviousInv, Replaces, PictureKinds
  <1>9. CheckoutInv(t)'
    <2>1. Ids' = Ids /\ Named(a)' = Named(a)
      BY <1>1, <1>4, <1>5 DEF Ids, Named, Place, a
    <2>2. addressLock'[a] = t
      BY <1>1, <1>3 DEF TypeOK
    <2>3. tx'[t].row = a /\ tx'[t].content = Named(a).content
      BY <1>4, <1>5 DEF c
    <2>4. Named(tx[t].row)' = Named(a)
      BY <1>1, <1>4, <1>5 DEF Named, Place, a
    <2>5. QED
      BY <1>1, <2>1, <2>2, <2>3, <2>4 DEF CheckoutInv
  <1>10. QED
    BY <1>1, <1>4, <1>6, <1>7, <1>8, <1>9, QuietStep

LEMMA LockProfileStep ==
  ASSUME IInv, NEW t \in Txs, LockProfile(t)
  PROVE  IInv'
  <1> DEFINE r == [tx[t] EXCEPT !.pc = "write", !.previous = avatar]
  <1>1. /\ TypeOK /\ tx[t].pc = "save" /\ tx[t].kind = "profile" /\ userLock = None /\ userLock' = t
        /\ tx' = [tx EXCEPT ![t] = r] /\ book' = book /\ orders' = orders
        /\ addressLock' = addressLock /\ orderLock' = orderLock
        /\ UNCHANGED <<pictureVars, cartVars, countVars>> /\ avatar' = avatar
    BY DEF LockProfile, Goto, IInv, addressVars, pictureVars
  <1>2. Shape(t)
    BY DEF IInv
  <1>3. /\ r \in TxState /\ r.pc = "write" /\ r.kind = "profile" /\ r.row = tx[t].row
        /\ r.content = tx[t].content /\ r.wish = tx[t].wish /\ r.file = tx[t].file
        /\ r.previous = avatar /\ r.n = tx[t].n
    BY <1>1, TxFields DEF TxState, TypeOK
  <1> HIDE DEF r
  <1>4. OnlyMoves(t) /\ tx'[t] = r
    BY <1>1, <1>3, Moves
  <1>5. KeepsLocks(t) /\ LocksType'
    BY <1>1, ModelValues DEF KeepsLocks, LocksType, TypeOK
  <1>6. Shape(t)'
    BY <1>1, <1>2, <1>3, <1>4 DEF Shape, AddressKinds, PictureKinds
  <1>7. AddressInv(t)' /\ CheckoutInv(t)'
    BY <1>3, <1>4, NoAddress DEF AddressKinds
  <1>8. PreviousInv(t)'
    BY <1>1, <1>3, <1>4 DEF PreviousInv
  <1>9. QED
    BY <1>1, <1>3, <1>5, <1>6, <1>7, <1>8, QuietStep

LEMMA LockOrderStep ==
  ASSUME IInv, NEW t \in Txs, LockOrder(t)
  PROVE  IInv'
  <1> DEFINE o == tx[t].row
             f == orders[o].slip
             r == [tx[t] EXCEPT !.pc = "write", !.previous = f]
  <1>1. /\ TypeOK /\ tx[t].pc = "save" /\ tx[t].kind = "slip"
        /\ orderLock[o] = None /\ orderLock' = [orderLock EXCEPT ![o] = t]
        /\ tx' = [tx EXCEPT ![t] = r] /\ book' = book /\ orders' = orders
        /\ addressLock' = addressLock /\ userLock' = userLock
        /\ UNCHANGED <<pictureVars, cartVars, countVars>>
    BY DEF LockOrder, Goto, IInv, addressVars
  <1>2. Shape(t) /\ o \in Orders /\ orders[o] # None
    BY <1>1 DEF IInv, Shape
  <1>3. f \in Files \cup {None}
    BY <1>1, <1>2 DEF TypeOK, Order
  <1> HIDE DEF f
  <1>4. /\ r \in TxState /\ r.pc = "write" /\ r.kind = "slip" /\ r.row = o
        /\ r.content = tx[t].content /\ r.wish = tx[t].wish /\ r.file = tx[t].file
        /\ r.previous = f /\ r.n = tx[t].n
    <2>1. tx[t] \in TxState /\ tx[t].kind = "slip"
      BY <1>1, TxFields
    <2>2. QED
      BY <1>3, <2>1 DEF TxState
  <1> HIDE DEF r, o
  <1>5. OnlyMoves(t) /\ tx'[t] = r
    BY <1>1, <1>4, Moves
  <1>6. KeepsLocks(t) /\ LocksType'
    BY <1>1, <1>2, ModelValues DEF KeepsLocks, LocksType, TypeOK
  <1>7. Shape(t)'
    BY <1>1, <1>2, <1>4, <1>5 DEF Shape, AddressKinds, PictureKinds, o
  <1>8. AddressInv(t)' /\ CheckoutInv(t)'
    BY <1>4, <1>5, NoAddress DEF AddressKinds
  <1>9. PreviousInv(t)'
    BY <1>1, <1>2, <1>4, <1>5 DEF PreviousInv, TypeOK, f
  <1>10. QED
    BY <1>1, <1>4, <1>6, <1>7, <1>8, <1>9, QuietStep

-----------------------------------------------------------------------------
(* The rollback                                                            *)

\* The request is over, or takes its file back; only after a failure is it forgotten.
LEMMA RollbackStep ==
  ASSUME IInv, NEW t \in Txs, NEW r \in TxState, Rollback(t, r),
         faults' \in 0 .. MaxFaults, faults' >= faults,
         \/ r = Idle /\ (tx[t].file = None \/ faults' > 0)
         \/ r = ThenDiscard(tx[t].file)
  PROVE  IInv'
  <1>1. /\ TypeOK /\ ReleaseLocks(t) /\ tx' = [tx EXCEPT ![t] = r]
        /\ book' = book /\ orders' = orders /\ UNCHANGED pictureVars
        /\ UNCHANGED <<stock, peak, cart, requests, unanswered>>
    BY DEF Rollback, Goto, IInv, cartVars
  <1>2. /\ r.kind = "none" /\ r.previous = None /\ r.n = 0
        /\ r.pc = IF r.file = None THEN "idle" ELSE "discard"
        /\ r.file = tx[t].file \/ (r.file = None /\ faults' > 0)
    <2>1. CASE r = Idle /\ (tx[t].file = None \/ faults' > 0)
      BY <2>1, IdleFields
    <2>2. CASE r = ThenDiscard(tx[t].file) /\ tx[t].file # None
      BY <2>2, IdleFields DEF ThenDiscard, Idle
    <2>3. CASE r = ThenDiscard(tx[t].file) /\ tx[t].file = None
      BY <2>3, IdleFields DEF ThenDiscard
    <2>4. QED
      BY <2>1, <2>2, <2>3
  <1>3. OnlyMoves(t) /\ tx'[t] = r
    BY <1>1, Moves
  <1>4. KeepsLocks(t) /\ LocksType'
    BY <1>1, Released
  <1>5. OrdersStay /\ SlipsStay
    BY <1>1 DEF OrdersStay, SlipsStay
  <1>6. TypeOK'
    BY <1>1, <1>3, <1>4 DEF TypeOK, LocksType, OnlyMoves, pictureVars
  <1>7. faults \in Nat /\ faults' \in Nat /\ peak \in Nat /\ cart \in Nat
    BY <1>1, BoundAssumption DEF TypeOK
  <1>8. Shape(t)'
    BY <1>2, <1>3, ModelValues DEF Shape, AddressKinds, PictureKinds
  <1>9. AddressInv(t)' /\ CheckoutInv(t)' /\ PreviousInv(t)'
    BY <1>2, <1>3, NoAddress, NoPicture DEF AddressKinds, PictureKinds
  <1>10. CartPart'
    <2>1. CartInv(t)'
      BY <1>1, <1>2, <1>3, <1>7 DEF CartInv
    <2>2. cart <= peak
      BY DEF IInv, CartIsCovered
    <2>3. QED
      BY <1>1, <1>3, <1>7, <2>1, <2>2, CartsKeep
  <1>11. PicturesPart'
    BY <1>1, <1>2, <1>3, <1>4, <1>5, <1>7, <1>9, PicturesKeep
  <1>12. AddressesPart' /\ \A s \in Txs : Shape(s)'
    BY <1>1, <1>3, <1>4, <1>5, <1>8, <1>9, AddressesKeep, ShapesKeep
  <1>13. QED
    BY <1>6, <1>10, <1>11, <1>12, Parts

\* The request fails with nothing to take back.
LEMMA RefusedStep ==
  ASSUME IInv, NEW t \in Txs, Rollback(t, Idle), UNCHANGED faults, tx[t].file = None
  PROVE  IInv'
  <1>1. faults' \in 0 .. MaxFaults /\ faults' >= faults
    BY BoundAssumption DEF IInv, TypeOK
  <1>2. QED
    BY <1>1, IdleFields, RollbackStep

LEMMA ThenDiscardType ==
  ASSUME NEW f \in Files \cup {None}
  PROVE  ThenDiscard(f) \in TxState
  <1>1. Idle \in TxState
    BY IdleFields
  <1>2. [Idle EXCEPT !.pc = "discard", !.file = f] \in TxState
    BY <1>1 DEF TxState, Idle
  <1>3. QED
    BY <1>1, <1>2 DEF ThenDiscard

LEMMA OrderIsClosedStep ==
  ASSUME IInv, NEW t \in Txs, OrderIsClosed(t)
  PROVE  IInv'
  <1>1. Rollback(t, ThenDiscard(tx[t].file)) /\ faults' = faults
    BY DEF OrderIsClosed
  <1>2. ThenDiscard(tx[t].file) \in TxState
    BY TxFields, ThenDiscardType DEF IInv
  <1>3. faults' \in 0 .. MaxFaults /\ faults' >= faults
    BY <1>1, BoundAssumption DEF IInv, TypeOK
  <1>4. QED
    BY <1>1, <1>2, <1>3, RollbackStep

LEMMA FaultFacts ==
  ASSUME TypeOK, Fault
  PROVE  faults \in Nat /\ faults' \in 0 .. MaxFaults /\ faults' \in Nat
         /\ faults' >= faults /\ faults' > 0
  BY BoundAssumption DEF Fault, TypeOK

LEMMA SaveFailsStep ==
  ASSUME IInv, NEW t \in Txs, SaveFails(t)
  PROVE  IInv'
  <1>1. Rollback(t, ThenDiscard(tx[t].file)) /\ Fault
    BY DEF SaveFails
  <1>2. ThenDiscard(tx[t].file) \in TxState
    BY TxFields, ThenDiscardType DEF IInv
  <1>3. faults' \in 0 .. MaxFaults /\ faults' >= faults
    BY <1>1, FaultFacts DEF IInv
  <1>4. QED
    BY <1>1, <1>2, <1>3, RollbackStep

LEMMA AbortStep ==
  ASSUME IInv, NEW t \in Txs, Abort(t)
  PROVE  IInv'
  <1>1. Rollback(t, Idle) /\ Fault
    BY DEF Abort
  <1>2. faults' \in 0 .. MaxFaults /\ faults' >= faults /\ faults' > 0
    BY <1>1, FaultFacts DEF IInv
  <1>3. QED
    BY <1>1, <1>2, IdleFields, RollbackStep

\* 404, 400, 40P01: none of these requests has a file.
LEMMA RefusedSteps ==
  ASSUME IInv, NEW t \in Txs, AddressIsGone(t) \/ NoSuchAddress(t) \/ DeadlockVictim(t)
  PROVE  IInv'
  <1>1. Rollback(t, Idle) /\ UNCHANGED faults
    BY DEF AddressIsGone, NoSuchAddress, DeadlockVictim
  <1>2. tx[t].pc \in {"rows", "pick", "place"}
    BY DEF AddressIsGone, NoSuchAddress, DeadlockVictim, Deadlocked
  <1>3. tx[t].file = None
    BY <1>2 DEF IInv, Shape, AddressKinds, PictureKinds
  <1>4. QED
    BY <1>1, <1>3, RefusedStep

-----------------------------------------------------------------------------
(* The beginning of a request                                              *)

LEMMA BeginFacts ==
  ASSUME IInv, NEW t \in Txs, NEW r \in TxState, Begin(t, r)
  PROVE  /\ TypeOK /\ tx[t].kind = "none" /\ tx[t].file = None
         /\ OnlyMoves(t) /\ tx'[t] = r /\ tx' = [tx EXCEPT ![t] = r]
         /\ requests' \in 0 .. MaxRequests
         /\ book' = book /\ orders' = orders /\ avatar' = avatar /\ unanswered' = unanswered
         /\ stock' = stock /\ peak' = peak /\ cart' = cart /\ faults' = faults
         /\ KeepsLocks(t) /\ LocksType'
  <1>1. /\ TypeOK /\ tx[t].pc = "idle" /\ tx' = [tx EXCEPT ![t] = r]
        /\ requests < MaxRequests /\ requests' = requests + 1
        /\ UNCHANGED <<addressVars, orders, avatar, cartVars, userLock, orderLock, faults, unanswered>>
    BY DEF Begin, Goto, IInv
  <1>2. tx[t].kind = "none" /\ tx[t].file = None
    BY <1>1 DEF IInv, Shape
  <1>3. requests' \in 0 .. MaxRequests
    BY <1>1, BoundAssumption DEF TypeOK
  <1>4. OnlyMoves(t) /\ tx'[t] = r
    BY <1>1, Moves
  <1>5. KeepsLocks(t) /\ LocksType'
    BY <1>1, NoLocks DEF addressVars
  <1>6. QED
    BY <1>1, <1>2, <1>3, <1>4, <1>5 DEF addressVars, cartVars

\* A request without a file.
LEMMA BeginStep ==
  ASSUME IInv, NEW t \in Txs, NEW r \in TxState, Begin(t, r), UNCHANGED <<stored, unsent>>,
         r.file = None, r.pc \in {"owner", "pick", "save", "cart"}, r.n <= peak,
         Shape(t)',
         r.kind = "create" => NewAddress(r.row)
  PROVE  IInv'
  <1>1. /\ TypeOK /\ tx[t].kind = "none" /\ tx[t].file = None
        /\ OnlyMoves(t) /\ tx'[t] = r
        /\ requests' \in 0 .. MaxRequests
        /\ book' = book /\ orders' = orders /\ avatar' = avatar /\ unanswered' = unanswered
        /\ stock' = stock /\ peak' = peak /\ cart' = cart /\ faults' = faults
        /\ KeepsLocks(t) /\ LocksType'
    BY BeginFacts
  <1>2. OrdersStay /\ SlipsStay /\ UNCHANGED pictureVars
    BY <1>1 DEF OrdersStay, SlipsStay, pictureVars
  <1>3. TypeOK'
    BY <1>1 DEF TypeOK, LocksType, OnlyMoves
  <1>4. faults \in Nat /\ peak \in Nat /\ cart \in Nat /\ cart <= peak
    BY <1>1, BoundAssumption DEF TypeOK, IInv, CartIsCovered
  <1>5. CartInv(t)'
    BY <1>1 DEF CartInv
  <1>6. AddressInv(t)' /\ CheckoutInv(t)'
    <2>1. ~Owns(t)' /\ ~Changes(t)' /\ CheckoutInv(t)'
      BY <1>1 DEF Owns, Changes, CheckoutInv
    <2>2. CASE r.kind = "create"
      <3>1. r.row \notin Ids /\ \A s \in Txs : tx[s].row # r.row
        BY <2>2 DEF NewAddress
      <3>2. Ids' = Ids
        BY <1>1 DEF Ids
      <3>3. QED
        BY <1>1, <2>1, <3>1, <3>2 DEF AddressInv, OnlyMoves
    <2>3. CASE r.kind # "create"
      BY <1>1, <2>1, <2>3 DEF AddressInv
    <2>4. QED
      BY <2>1, <2>2, <2>3
  <1>7. PreviousInv(t)'
    BY <1>1 DEF PreviousInv, Replaces
  <1>8. CartPart'
    BY <1>1, <1>4, <1>5, CartsKeep
  <1>9. PicturesPart'
    BY <1>1, <1>2, <1>4, <1>7, PicturesKeep
  <1>10. AddressesPart' /\ \A s \in Txs : Shape(s)'
    BY <1>1, <1>2, <1>6, AddressesKeep, ShapesKeep
  <1>11. QED
    BY <1>3, <1>8, <1>9, <1>10, Parts

LEMMA PeakFacts ==
  ASSUME IInv
  PROVE  0 <= peak /\ stock \in 0 .. MaxStock /\ stock <= peak /\ peak \in Nat
  BY BoundAssumption DEF IInv, TypeOK

LEMMA BeginAddressStep ==
  ASSUME IInv, NEW t \in Txs, BeginAddress(t)
  PROVE  IInv'
  <1>1. PICK a \in Addresses :
          \/ \E c \in Contents, wish \in {"keep", "yes"} : BeginCreateAddress(t, a, c, wish)
          \/ \E c \in Contents, wish \in {"keep", "yes", "no"} : BeginUpdateAddress(t, a, c, wish)
          \/ BeginDeleteAddress(t, a)
          \/ BeginCheckout(t, a)
    BY DEF BeginAddress
  <1>2. ASSUME NEW c \in Contents, NEW wish \in {"keep", "yes"}, BeginCreateAddress(t, a, c, wish)
        PROVE  IInv'
    <2> DEFINE r == [Idle EXCEPT !.pc = "owner", !.kind = "create", !.row = a,
                                 !.content = c, !.wish = wish]
    <2>1. NewAddress(a) /\ Begin(t, r) /\ UNCHANGED <<stored, unsent>>
      BY <1>2 DEF BeginCreateAddress
    <2>2. /\ r \in TxState /\ r.pc = "owner" /\ r.kind = "create" /\ r.row = a /\ r.content = c
          /\ r.wish = wish /\ r.file = None /\ r.previous = None /\ r.n = 0
      BY IdleFields DEF TxState, Idle
    <2> HIDE DEF r
    <2>3. tx'[t] = r
      BY <2>1, <2>2, BeginFacts
    <2>4. Shape(t)'
      BY <2>2, <2>3 DEF Shape, AddressKinds, PictureKinds
    <2>5. QED
      BY <2>1, <2>2, <2>4, PeakFacts, BeginStep
  <1>3. ASSUME NEW c \in Contents, NEW wish \in {"keep", "yes", "no"},
               BeginUpdateAddress(t, a, c, wish)
        PROVE  IInv'
    <2> DEFINE r == [Idle EXCEPT !.pc = "owner", !.kind = "update", !.row = a,
                                 !.content = c, !.wish = wish]
    <2>1. Begin(t, r) /\ UNCHANGED <<stored, unsent>>
      BY <1>3 DEF BeginUpdateAddress
    <2>2. /\ r \in TxState /\ r.pc = "owner" /\ r.kind = "update" /\ r.row = a /\ r.content = c
          /\ r.wish = wish /\ r.file = None /\ r.previous = None /\ r.n = 0
      BY IdleFields DEF TxState, Idle
    <2> HIDE DEF r
    <2>3. tx'[t] = r
      BY <2>1, <2>2, BeginFacts
    <2>4. Shape(t)'
      BY <2>2, <2>3 DEF Shape, AddressKinds, PictureKinds
    <2>5. QED
      BY <2>1, <2>2, <2>4, PeakFacts, BeginStep
  <1>4. CASE BeginDeleteAddress(t, a)
    <2> DEFINE r == [Idle EXCEPT !.pc = "owner", !.kind = "delete", !.row = a]
    <2>1. Begin(t, r) /\ UNCHANGED <<stored, unsent>>
      BY <1>4 DEF BeginDeleteAddress
    <2>2. /\ r \in TxState /\ r.pc = "owner" /\ r.kind = "delete" /\ r.row = a
          /\ r.wish = "keep" /\ r.file = None /\ r.previous = None /\ r.n = 0
      BY IdleFields DEF TxState, Idle
    <2> HIDE DEF r
    <2>3. tx'[t] = r
      BY <2>1, <2>2, BeginFacts
    <2>4. Shape(t)'
      BY <2>2, <2>3 DEF Shape, AddressKinds, PictureKinds
    <2>5. QED
      BY <2>1, <2>2, <2>4, PeakFacts, BeginStep
  <1>5. CASE BeginCheckout(t, a)
    <2> DEFINE r == [Idle EXCEPT !.pc = "pick", !.kind = "checkout", !.row = a]
    <2>1. Begin(t, r) /\ UNCHANGED <<stored, unsent>>
      BY <1>5 DEF BeginCheckout
    <2>2. /\ r \in TxState /\ r.pc = "pick" /\ r.kind = "checkout" /\ r.row = a
          /\ r.wish = "keep" /\ r.file = None /\ r.previous = None /\ r.n = 0
      BY IdleFields DEF TxState, Idle
    <2> HIDE DEF r
    <2>3. tx'[t] = r
      BY <2>1, <2>2, BeginFacts
    <2>4. Shape(t)'
      BY <2>2, <2>3 DEF Shape, AddressKinds, PictureKinds
    <2>5. QED
      BY <2>1, <2>2, <2>4, PeakFacts, BeginStep
  <1>6. QED
    BY <1>1, <1>2, <1>3, <1>4, <1>5

LEMMA BeginRemoveImageStep ==
  ASSUME IInv, NEW t \in Txs, BeginRemoveImage(t)
  PROVE  IInv'
  <1> DEFINE r == [Idle EXCEPT !.pc = "save", !.kind = "profile"]
  <1>1. Begin(t, r) /\ UNCHANGED <<stored, unsent>>
    BY DEF BeginRemoveImage
  <1>2. /\ r \in TxState /\ r.pc = "save" /\ r.kind = "profile"
        /\ r.file = None /\ r.previous = None /\ r.n = 0
    BY IdleFields DEF TxState, Idle
  <1> HIDE DEF r
  <1>3. tx'[t] = r
    BY <1>1, <1>2, BeginFacts
  <1>4. Shape(t)'
    BY <1>2, <1>3 DEF Shape, AddressKinds, PictureKinds
  <1>5. QED
    BY <1>1, <1>2, <1>4, PeakFacts, BeginStep

LEMMA BeginCartStep ==
  ASSUME IInv, NEW t \in Txs, NEW kind \in {"add", "set"}, BeginCart(t, kind)
  PROVE  IInv'
  <1> DEFINE r == [Idle EXCEPT !.pc = "cart", !.kind = kind, !.n = stock]
  <1>1. Begin(t, r) /\ UNCHANGED <<stored, unsent>>
    BY DEF BeginCart
  <1>2. /\ r \in TxState /\ r.pc = "cart" /\ r.kind = kind
        /\ r.file = None /\ r.previous = None /\ r.n = stock
    BY IdleFields, PeakFacts DEF TxState, Idle
  <1> HIDE DEF r
  <1>3. tx'[t] = r
    BY <1>1, <1>2, BeginFacts
  <1>4. Shape(t)'
    BY <1>2, <1>3 DEF Shape, AddressKinds, PictureKinds
  <1>5. QED
    BY <1>1, <1>2, <1>4, PeakFacts, BeginStep

-----------------------------------------------------------------------------
(* Files                                                                   *)

\* Nothing of the addresses and the cart is touched; what the pictures need is shown apart.
LEMMA PictureStep ==
  ASSUME IInv, NEW t \in Txs, NEW r \in TxState, tx' = [tx EXCEPT ![t] = r],
         book' = book, UNCHANGED cartVars, KeepsLocks(t), LocksType',
         r.kind \in PictureKinds \cup {"none"}, r.pc # "place", r.n <= peak,
         orders' \in [Orders -> Order \cup {None}], OrdersStay,
         avatar' \in Files \cup {None},
         stored' \subseteq Files, unsent' \subseteq Files \ stored',
         requests' \in 0 .. MaxRequests, faults' \in 0 .. MaxFaults, unanswered' \in BOOLEAN,
         Shape(t)', PicturesPart'
  PROVE  IInv'
  <1>1. OnlyMoves(t) /\ tx'[t] = r
    BY Moves DEF IInv
  <1>2. /\ TypeOK /\ peak \in Nat /\ cart \in Nat /\ cart <= peak
        /\ stock' = stock /\ peak' = peak /\ cart' = cart
    BY PeakFacts DEF IInv, TypeOK, CartIsCovered, cartVars
  <1>3. TypeOK'
    BY <1>1, <1>2 DEF TypeOK, LocksType, OnlyMoves
  <1>4. CartInv(t)'
    BY <1>1, <1>2 DEF CartInv
  <1>5. CartPart'
    BY <1>1, <1>2, <1>4, CartsKeep
  <1>6. AddressInv(t)' /\ CheckoutInv(t)'
    BY <1>1, NoAddress DEF AddressKinds, PictureKinds
  <1>7. AddressesPart' /\ \A s \in Txs : Shape(s)'
    BY <1>1, <1>6, AddressesKeep, ShapesKeep
  <1>8. QED
    BY <1>3, <1>5, <1>7, Parts

\* The file has never been seen before.
LEMMA BeginUploadStep ==
  ASSUME IInv, NEW t \in Txs, NEW kind \in PictureKinds, NEW row \in Orders \cup {None},
         BeginUpload(t, kind, row), kind = "slip" => row \in Orders /\ orders[row] # None
  PROVE  IInv'
  <1>1. PICK i \in unsent :
          /\ stored' = stored \cup {i} /\ unsent' = unsent \ {i}
          /\ Begin(t, [Idle EXCEPT !.pc = "save", !.kind = kind, !.row = row, !.file = i])
    BY DEF BeginUpload
  <1> DEFINE r == [Idle EXCEPT !.pc = "save", !.kind = kind, !.row = row, !.file = i]
  <1>2. TypeOK /\ i \in Files /\ i \notin stored /\ i # None
    BY <1>1, ModelValues DEF IInv, TypeOK
  <1>3. /\ r \in TxState /\ r.pc = "save" /\ r.kind = kind /\ r.row = row
        /\ r.file = i /\ r.previous = None /\ r.n = 0
    BY <1>2, IdleFields DEF TxState, Idle, PictureKinds
  <1> HIDE DEF r
  <1>4. /\ OnlyMoves(t) /\ tx'[t] = r /\ tx' = [tx EXCEPT ![t] = r] /\ tx[t].file = None
        /\ requests' \in 0 .. MaxRequests
        /\ book' = book /\ orders' = orders /\ avatar' = avatar /\ unanswered' = unanswered
        /\ stock' = stock /\ peak' = peak /\ cart' = cart /\ faults' = faults
        /\ KeepsLocks(t) /\ LocksType'
    BY <1>1, <1>3, BeginFacts DEF r
  <1>5. Shape(t)'
    BY <1>2, <1>3, <1>4 DEF Shape, AddressKinds, PictureKinds
  <1>6. /\ (unanswered => faults > 0) /\ PicturesInv /\ PicturesExist /\ NoFileIsForgotten
        /\ Slips' = Slips
    BY <1>4 DEF IInv, Slips
  <1>7. (unanswered' => faults' > 0) /\ PicturesExist'
    BY <1>1, <1>4, <1>6 DEF PicturesExist
  <1>8. NoFileIsForgotten'
    <2> SUFFICES ASSUME faults = 0, NEW f \in stored \cup {i}
                 PROVE  f \in {avatar} \cup Slips \cup InHand'
      BY <1>1, <1>4, <1>6 DEF NoFileIsForgotten
    <2>1. CASE f = i
      BY <1>3, <1>4, <2>1 DEF InHand
    <2>2. CASE f \in InHand /\ f # None
      <3>1. PICK s \in Txs : f = tx[s].file /\ s # t
        BY <1>4, <2>2 DEF InHand
      <3>2. QED
        BY <1>4, <3>1 DEF InHand, OnlyMoves
    <2>3. None \notin stored
      BY <1>2, ModelValues DEF TypeOK
    <2>4. QED
      BY <1>2, <1>6, <2>1, <2>2, <2>3 DEF NoFileIsForgotten
  <1>9. PicturesInv'
    <2> SUFFICES ASSUME ~unanswered
                 PROVE  /\ \A s \in Txs : FileInv(s)' /\ PreviousInv(s)'
                        /\ ShownOnce'
      BY <1>4 DEF PicturesInv
    <2>1. /\ ShownOnce /\ \A s \in Txs : FileInv(s) /\ PreviousInv(s)
          /\ {avatar} \cup Slips \subseteq stored \cup {None}
      BY <1>6 DEF PicturesInv, PicturesExist
    <2>2. ShownOnce'
      BY <1>4, <1>6, <2>1 DEF ShownOnce
    <2>3. FileInv(t)'
      <3>1. \A s \in Txs \ {t} : tx'[s].file # i
        BY <1>2, <1>4, <2>1 DEF FileInv, OnlyMoves
      <3>2. i \notin Shown' /\ i \in stored'
        BY <1>1, <1>2, <1>4, <1>6, <2>1 DEF Shown
      <3>3. QED
        BY <1>3, <1>4, <3>1, <3>2 DEF FileInv
    <2>4. ASSUME NEW s \in Txs \ {t}
          PROVE  FileInv(s)' /\ PreviousInv(s)'
      <3>1. FileInv(s) /\ PreviousInv(s) /\ tx'[s] = tx[s]
        BY <1>4, <2>1 DEF OnlyMoves
      <3>2. tx[s].file # i
        BY <1>2, <3>1 DEF FileInv
      <3>3. FileInv(s)'
        <4> SUFFICES ASSUME tx[s].file # None
                     PROVE  /\ tx[s].file \in stored' /\ tx[s].file \notin Shown'
                            /\ \A z \in Txs \ {s} : tx'[z].file # tx[s].file
          BY <3>1 DEF FileInv
        <4>1. Shown' = Shown
          BY <1>4, <1>6 DEF Shown
        <4>2. QED
          BY <1>1, <1>3, <1>4, <3>1, <3>2, <4>1 DEF FileInv, OnlyMoves
      <3>4. PreviousInv(s)'
        <4>1. userLock = s => userLock' = s
          BY <1>4 DEF KeepsLocks
        <4>2. Shape(s) /\ \A o \in Orders : orderLock[o] = s => orderLock'[o] = s
          BY <1>4 DEF KeepsLocks, IInv
        <4>3. QED
          BY <1>4, <3>1, <4>1, <4>2 DEF PreviousInv, Replaces, Shape, PictureKinds
      <3>5. QED
        BY <3>3, <3>4
    <2>5. PreviousInv(t)'
      BY <1>3, <1>4, NoPicture
    <2>6. QED
      BY <2>2, <2>3, <2>4, <2>5
  <1>10. PicturesPart'
    BY <1>7, <1>8, <1>9 DEF PicturesPart
  <1>11. /\ stored' \subseteq Files /\ unsent' \subseteq Files \ stored'
         /\ orders' \in [Orders -> Order \cup {None}] /\ OrdersStay /\ avatar' \in Files \cup {None}
         /\ faults' \in 0 .. MaxFaults /\ unanswered' \in BOOLEAN
    BY <1>1, <1>2, <1>4 DEF TypeOK, OrdersStay
  <1>12. r.n <= peak /\ UNCHANGED cartVars
    BY <1>3, <1>4, PeakFacts DEF cartVars
  <1>13. QED
    BY <1>3, <1>4, <1>5, <1>10, <1>11, <1>12, PictureStep

\* The request is over, or has a file to delete.
LEMMA ThenDiscardFields ==
  ASSUME NEW f \in Files \cup {None}
  PROVE  /\ ThenDiscard(f) \in TxState /\ ThenDiscard(f).kind = "none"
         /\ ThenDiscard(f).pc = IF f = None THEN "idle" ELSE "discard"
         /\ ThenDiscard(f).file = f /\ ThenDiscard(f).previous = None /\ ThenDiscard(f).n = 0
  <1>1. CASE f = None
    BY <1>1, IdleFields, ThenDiscardType DEF ThenDiscard
  <1>2. CASE f # None
    BY <1>2, IdleFields, ThenDiscardType DEF ThenDiscard, Idle
  <1>3. QED
    BY <1>1, <1>2

\* What is shown after the UPDATE.
NewPicture(t) ==
  /\ avatar' = IF tx[t].kind = "profile" THEN tx[t].file ELSE avatar
  /\ orders' = IF tx[t].kind = "slip" THEN [orders EXCEPT ![tx[t].row].slip = tx[t].file]
                                       ELSE orders

LEMMA NewOrders ==
  ASSUME IInv, NEW t \in Txs, Replaces(t), NewPicture(t)
  PROVE  /\ orders' \in [Orders -> Order \cup {None}] /\ avatar' \in Files \cup {None}
         /\ \A o \in Orders : orders[o] # None <=> orders'[o] # None
         /\ \A o \in Orders : ~(tx[t].kind = "slip" /\ o = tx[t].row) => orders'[o] = orders[o]
         /\ tx[t].kind = "slip" => /\ tx[t].row \in Orders /\ orders[tx[t].row] # None
                                   /\ tx[t].file # None
                                   /\ orders'[tx[t].row].slip = tx[t].file
  <1> DEFINE o == tx[t].row
             f == tx[t].file
  <1>1. /\ TypeOK /\ Shape(t) /\ f \in Files \cup {None}
        /\ orders \in [Orders -> Order \cup {None}] /\ avatar \in Files \cup {None}
    BY TxFields DEF IInv, TypeOK
  <1>2. CASE tx[t].kind = "slip"
    <2>1. o \in Orders /\ orders[o] # None /\ f # None
      BY <1>1, <1>2 DEF Shape
    <2>2. orders[o] \in Order
      BY <1>1, <2>1
    <2>3. /\ [orders[o] EXCEPT !.slip = f] \in Order
          /\ [orders[o] EXCEPT !.slip = f].slip = f
      <3> HIDE DEF o, f
      <3>1. QED
        BY <1>1, <2>2 DEF Order
    <2>4. None \notin Order
      BY NoOrderAssumption
    <2>5. orders' = [orders EXCEPT ![o] = [orders[o] EXCEPT !.slip = f]] /\ avatar' = avatar
      BY <1>2 DEF NewPicture
    <2> HIDE DEF o, f
    <2>6. QED
      BY <1>1, <1>2, <2>1, <2>3, <2>4, <2>5 DEF o, f
  <1>3. CASE tx[t].kind # "slip"
    BY <1>1, <1>3 DEF NewPicture
  <1>4. QED
    BY <1>2, <1>3

LEMMA NewShown ==
  ASSUME IInv, NEW t \in Txs, Replaces(t), NewPicture(t), ~unanswered
  PROVE  /\ \A f \in Shown' : f \in Shown \/ f = tx[t].file
         /\ \A f \in Shown : f \in Shown' \/ f = tx[t].previous \/ f = None
         /\ tx[t].file # None => tx[t].file \in Shown'
         /\ tx[t].previous # None => tx[t].previous \in Shown /\ tx[t].previous \notin Shown'
         /\ ShownOnce'
  <1> DEFINE o == tx[t].row
             f == tx[t].file
             old == tx[t].previous
  <1>1. /\ Shape(t) /\ FileInv(t) /\ PreviousInv(t) /\ ShownOnce /\ tx[t].kind \in PictureKinds
        /\ f # None => f \notin Shown
    BY DEF IInv, PicturesInv, Replaces, FileInv
  <1>2. /\ \A p \in Orders : orders[p] # None <=> orders'[p] # None
        /\ \A p \in Orders : ~(tx[t].kind = "slip" /\ p = o) => orders'[p] = orders[p]
        /\ tx[t].kind = "slip" => /\ o \in Orders /\ orders[o] # None /\ f # None
                                   /\ orders'[o].slip = f
    BY NewOrders
  <1> HIDE DEF o, f, old
  <1>3. CASE tx[t].kind = "profile"
    <2>1. avatar' = f /\ old = avatar /\ Slips' = Slips
      BY <1>1, <1>2, <1>3 DEF NewPicture, PreviousInv, Slips, f, old, Replaces
    <2>2. avatar' # None => avatar' \notin Slips'
      BY <1>1, <2>1 DEF Shown
    <2>3. old # None => old \notin Slips /\ old # f
      BY <1>1, <2>1 DEF ShownOnce, Shown
    <2>4. ShownOnce'
      <3>1. \A p, q \in Orders :
              orders'[p] # None /\ orders'[q] # None /\ orders'[p].slip = orders'[q].slip
                /\ orders'[p].slip # None => p = q
        BY <1>1, <1>2, <1>3 DEF ShownOnce
      <3>2. QED
        BY <2>2, <3>1 DEF ShownOnce
    <2>5. QED
      BY <2>1, <2>3, <2>4 DEF Shown, f, old
  <1>4. CASE tx[t].kind = "slip"
    <2>1. avatar' = avatar /\ old = orders[o].slip /\ o \in Orders /\ orders[o] # None
      BY <1>1, <1>2, <1>4 DEF NewPicture, PreviousInv, Replaces, PictureKinds, o, old
    <2>2. f # None /\ f \notin Shown /\ orders'[o].slip = f /\ orders'[o] # None
      BY <1>1, <1>2, <1>4
    <2>3. ASSUME NEW p \in Orders, p # o
          PROVE  orders'[p] = orders[p]
      BY <1>2, <2>3
    <2>4. \A g \in Slips' : g = f \/ \E p \in Orders \ {o} : orders[p] # None /\ g = orders[p].slip
      BY <1>2, <2>2, <2>3 DEF Slips
    <2>5. \A p \in Orders \ {o} : orders[p] # None => orders[p].slip \in Slips /\ orders[p].slip \in Slips'
      BY <2>3 DEF Slips
    <2>6. old \in Slips /\ f \in Slips'
      BY <2>1, <2>2 DEF Slips
    <2>7. \A g \in Slips : g = old \/ g \in Slips'
      BY <2>1, <2>5 DEF Slips
    <2>8. old # None => old \notin Shown'
      <3>1. SUFFICES ASSUME old # None
                     PROVE  old # avatar /\ old \notin Slips'
        BY <2>1 DEF Shown
      <3>2. old # avatar
        BY <1>1, <2>6, <3>1 DEF ShownOnce
      <3>3. old # f
        BY <2>2, <2>6 DEF Shown
      <3>4. \A p \in Orders \ {o} : orders[p] # None => orders[p].slip # old
        BY <1>1, <2>1, <3>1 DEF ShownOnce
      <3>5. QED
        BY <2>4, <3>2, <3>3, <3>4
    <2>9. ShownOnce'
      <3>1. avatar' # None => avatar' \notin Slips'
        BY <1>1, <2>1, <2>2, <2>4, <2>5 DEF ShownOnce, Shown
      <3>2. ASSUME NEW p \in Orders, NEW q \in Orders, orders'[p] # None, orders'[q] # None,
                   orders'[p].slip = orders'[q].slip, orders'[p].slip # None
            PROVE  p = q
        <4>1. CASE p # o /\ q # o
          BY <1>1, <1>2, <2>3, <3>2, <4>1 DEF ShownOnce
        <4>2. CASE p = o /\ q # o
          <5>1. orders[q].slip = f /\ orders[q].slip \in Slips
            BY <1>2, <2>2, <2>3, <2>5, <3>2, <4>2
          <5>2. QED
            BY <2>2, <5>1 DEF Shown
        <4>3. CASE p # o /\ q = o
          <5>1. orders[p].slip = f /\ orders[p].slip \in Slips
            BY <1>2, <2>2, <2>3, <2>5, <3>2, <4>3
          <5>2. QED
            BY <2>2, <5>1 DEF Shown
        <4>4. QED
          BY <4>1, <4>2, <4>3
      <3>3. QED
        BY <3>1, <3>2 DEF ShownOnce
    <2>10. QED
      BY <2>1, <2>2, <2>4, <2>5, <2>6, <2>7, <2>8, <2>9 DEF Shown, f, old
  <1>5. QED
    BY <1>1, <1>3, <1>4 DEF PictureKinds

LEMMA WritePictureStep ==
  ASSUME IInv, NEW t \in Txs, WritePicture(t)
  PROVE  IInv'
  <1> DEFINE f == tx[t].file
             old == tx[t].previous
             r == ThenDiscard(old)
  <1>1. /\ TypeOK /\ Replaces(t) /\ NewPicture(t) /\ ReleaseLocks(t)
        /\ tx' = [tx EXCEPT ![t] = r] /\ book' = book /\ stored' = stored /\ unsent' = unsent
        /\ UNCHANGED <<cartVars, requests, faults, unanswered>>
    BY DEF WritePicture, Replaces, PictureKinds, NewPicture, Goto, countVars, IInv
  <1>2. /\ r \in TxState /\ r.kind = "none" /\ r.previous = None /\ r.n = 0
        /\ r.pc = IF old = None THEN "idle" ELSE "discard"
        /\ r.file = old
    BY <1>1, TxFields, ThenDiscardFields
  <1> HIDE DEF r
  <1>3. OnlyMoves(t) /\ tx'[t] = r
    BY <1>1, <1>2, Moves
  <1>4. KeepsLocks(t) /\ LocksType'
    BY <1>1, Released
  <1>5. /\ orders' \in [Orders -> Order \cup {None}] /\ avatar' \in Files \cup {None}
        /\ OrdersStay
        /\ \A o \in Orders : ~(tx[t].kind = "slip" /\ o = tx[t].row) => orders'[o] = orders[o]
    BY <1>1, NewOrders DEF OrdersStay
  <1>6. /\ stored' \subseteq Files /\ unsent' \subseteq Files \ stored' /\ stored \subseteq Files
        /\ requests' \in 0 .. MaxRequests /\ faults' \in 0 .. MaxFaults /\ unanswered' \in BOOLEAN
    BY <1>1 DEF TypeOK
  <1>7. Shape(t)'
    BY <1>2, <1>3, ModelValues DEF Shape, AddressKinds, PictureKinds
  <1>8. /\ (unanswered => faults > 0) /\ PicturesInv /\ PicturesExist /\ NoFileIsForgotten
    BY DEF IInv
  <1>9. ASSUME ~unanswered
        PROVE  /\ \A g \in Shown' : g \in Shown \/ g = f
               /\ \A g \in Shown : g \in Shown' \/ g = old \/ g = None
               /\ f # None => f \in Shown' /\ f \in stored
               /\ old # None => old \in Shown /\ old \notin Shown' /\ old \in stored
               /\ ShownOnce'
    <2>1. FileInv(t) /\ Shown \ {None} \subseteq stored
      BY <1>8, <1>9 DEF PicturesInv, PicturesExist, Shown
    <2>2. QED
      BY <1>1, <1>9, <2>1, NewShown DEF FileInv
  <1>10. (unanswered' => faults' > 0) /\ PicturesExist'
    <2> SUFFICES ASSUME ~unanswered
                 PROVE  Shown' \ {None} \subseteq stored
      BY <1>1, <1>8 DEF PicturesExist, Shown
    <2>1. Shown \ {None} \subseteq stored
      BY <1>8 DEF PicturesExist, Shown
    <2>2. QED
      BY <1>9, <2>1
  <1>11. NoFileIsForgotten'
    <2> SUFFICES ASSUME faults = 0, NEW g \in stored
                 PROVE  g \in Shown' \cup InHand'
      BY <1>1 DEF NoFileIsForgotten, Shown
    <2>1. ~unanswered /\ faults \in Nat
      BY <1>1, <1>8, BoundAssumption DEF TypeOK
    <2>2. g \in Shown \cup InHand /\ g # None
      BY <1>6, <1>8, ModelValues DEF NoFileIsForgotten, Shown
    <2>3. CASE g \in Shown
      <3>1. g \in Shown' \/ g = old
        BY <1>9, <2>1, <2>2, <2>3
      <3>2. old \in InHand'
        BY <1>2, <1>3 DEF InHand
      <3>3. QED
        BY <3>1, <3>2
    <2>4. CASE g \in InHand
      <3>1. PICK s \in Txs : g = tx[s].file
        BY <2>4 DEF InHand
      <3>2. CASE s = t
        BY <1>9, <2>1, <2>2, <3>1, <3>2
      <3>3. CASE s # t
        BY <1>3, <3>1, <3>3 DEF InHand, OnlyMoves
      <3>4. QED
        BY <3>2, <3>3
    <2>5. QED
      BY <2>2, <2>3, <2>4
  <1>12. PicturesInv'
    <2> SUFFICES ASSUME ~unanswered
                 PROVE  /\ \A s \in Txs : FileInv(s)' /\ PreviousInv(s)'
                        /\ ShownOnce'
      BY <1>1 DEF PicturesInv
    <2>1. \A s \in Txs : FileInv(s) /\ PreviousInv(s)
      BY <1>8 DEF PicturesInv
    <2>2. FileInv(t)'
      <3> SUFFICES ASSUME old # None
                   PROVE  /\ old \in stored /\ old \notin Shown'
                          /\ \A s \in Txs \ {t} : tx'[s].file # old
        BY <1>1, <1>2, <1>3 DEF FileInv
      <3>1. \A s \in Txs \ {t} : tx[s].file # old
        BY <1>9, <2>1 DEF FileInv
      <3>2. QED
        BY <1>3, <1>9, <3>1 DEF OnlyMoves
    <2>3. ASSUME NEW s \in Txs \ {t}
          PROVE  FileInv(s)' /\ PreviousInv(s)'
      <3>1. FileInv(s) /\ PreviousInv(s) /\ tx'[s] = tx[s] /\ Shape(s) /\ PreviousInv(t)
        BY <1>3, <2>1 DEF OnlyMoves, IInv
      <3>2. FileInv(s)'
        <4> SUFFICES ASSUME tx[s].file # None
                     PROVE  /\ tx[s].file \in stored /\ tx[s].file \notin Shown'
                            /\ \A z \in Txs \ {s} : tx'[z].file # tx[s].file
          BY <1>1, <3>1 DEF FileInv
        <4>1. /\ tx[s].file \in stored /\ tx[s].file \notin Shown
              /\ \A z \in Txs \ {s} : tx[z].file # tx[s].file
          BY <3>1 DEF FileInv
        <4>2. tx[s].file # f
          BY <4>1
        <4>3. old # None => old # tx[s].file
          BY <1>9, <4>1
        <4>4. QED
          BY <1>2, <1>3, <1>9, <4>1, <4>2, <4>3 DEF OnlyMoves
      <3>3. PreviousInv(s)'
        <4> SUFFICES ASSUME Replaces(s)
                     PROVE  PreviousInv(s)'
          BY <3>1 DEF PreviousInv, Replaces
        <4>1. CASE tx[s].kind = "profile"
          <5>1. userLock = s /\ tx[s].previous = avatar
            BY <3>1, <4>1 DEF PreviousInv
          <5>2. tx[t].kind # "profile"
            BY <1>1, <3>1, <5>1 DEF PreviousInv
          <5>3. avatar' = avatar /\ userLock' = s
            BY <1>1, <1>4, <5>1, <5>2 DEF NewPicture, KeepsLocks
          <5>4. QED
            BY <3>1, <4>1, <5>1, <5>3 DEF PreviousInv
        <4>2. CASE tx[s].kind # "profile"
          <5>1. /\ orderLock[tx[s].row] = s /\ tx[s].previous = orders[tx[s].row].slip
                /\ tx[s].row \in Orders
            BY <3>1, <4>2 DEF PreviousInv, Shape, Replaces, PictureKinds
          <5>2. ~(tx[t].kind = "slip" /\ tx[s].row = tx[t].row)
            BY <1>1, <3>1, <5>1 DEF PreviousInv
          <5>3. orders'[tx[s].row] = orders[tx[s].row] /\ orderLock'[tx[s].row] = s
            BY <1>4, <1>5, <5>1, <5>2 DEF KeepsLocks
          <5>4. QED
            BY <3>1, <4>2, <5>1, <5>3 DEF PreviousInv
        <4>3. QED
          BY <4>1, <4>2
      <3>4. QED
        BY <3>2, <3>3
    <2>4. PreviousInv(t)'
      BY <1>2, <1>3, NoPicture DEF PictureKinds
    <2>5. QED
      BY <1>9, <2>2, <2>3, <2>4
  <1>13. PicturesPart'
    BY <1>10, <1>11, <1>12 DEF PicturesPart
  <1>14. r.n <= peak /\ UNCHANGED cartVars /\ r.pc # "place"
    BY <1>1, <1>2, PeakFacts
  <1>15. QED
    BY <1>1, <1>2, <1>4, <1>5, <1>6, <1>7, <1>13, <1>14, PictureStep

LEMMA WriteUnansweredStep ==
  ASSUME IInv, NEW t \in Txs, WriteUnanswered(t)
  PROVE  IInv'
  <1> DEFINE r == ThenDiscard(tx[t].file)
  <1>1. /\ TypeOK /\ Replaces(t) /\ NewPicture(t) /\ ReleaseLocks(t) /\ Fault /\ unanswered' = TRUE
        /\ tx' = [tx EXCEPT ![t] = r] /\ book' = book /\ stored' = stored /\ unsent' = unsent
        /\ UNCHANGED <<cartVars, requests>>
    BY DEF WriteUnanswered, Replaces, PictureKinds, NewPicture, Goto, IInv
  <1>2. /\ r \in TxState /\ r.kind = "none" /\ r.previous = None /\ r.n = 0
        /\ r.pc = IF tx[t].file = None THEN "idle" ELSE "discard"
        /\ r.file = tx[t].file
    BY <1>1, TxFields, ThenDiscardFields
  <1> HIDE DEF r
  <1>3. OnlyMoves(t) /\ tx'[t] = r
    BY <1>1, <1>2, Moves
  <1>4. KeepsLocks(t) /\ LocksType'
    BY <1>1, Released
  <1>5. /\ orders' \in [Orders -> Order \cup {None}] /\ avatar' \in Files \cup {None}
        /\ OrdersStay
    BY <1>1, NewOrders DEF OrdersStay
  <1>6. /\ stored' \subseteq Files /\ unsent' \subseteq Files \ stored'
        /\ requests' \in 0 .. MaxRequests /\ unanswered' \in BOOLEAN
    BY <1>1 DEF TypeOK
  <1>7. faults' \in 0 .. MaxFaults /\ faults' > 0 /\ faults' \in Nat
    BY <1>1, FaultFacts
  <1>8. Shape(t)'
    BY <1>2, <1>3, ModelValues DEF Shape, AddressKinds, PictureKinds
  <1>9. PicturesPart'
    BY <1>1, <1>7 DEF PicturesPart, PicturesInv, PicturesExist, NoFileIsForgotten
  <1>10. r.n <= peak /\ r.pc # "place"
    BY <1>2, PeakFacts
  <1>11. QED
    BY <1>1, <1>2, <1>4, <1>5, <1>6, <1>7, <1>8, <1>9, <1>10, PictureStep

LEMMA DiscardStep ==
  ASSUME IInv, NEW t \in Txs, Discard(t)
  PROVE  IInv'
  <1> DEFINE f == tx[t].file
  <1>1. /\ TypeOK /\ tx[t].pc = "discard" /\ stored' = stored \ {f} /\ unsent' = unsent
        /\ tx' = [tx EXCEPT ![t] = Idle] /\ book' = book /\ orders' = orders /\ avatar' = avatar
        /\ userLock' = userLock /\ addressLock' = addressLock /\ orderLock' = orderLock
        /\ UNCHANGED cartVars /\ requests' = requests /\ faults' = faults
        /\ unanswered' = unanswered
    BY DEF Discard, Goto, IInv, addressVars, countVars
  <1>2. f # None
    BY <1>1 DEF IInv, Shape
  <1>3. OnlyMoves(t) /\ tx'[t] = Idle
    BY <1>1, IdleFields, Moves
  <1>4. KeepsLocks(t) /\ LocksType'
    BY <1>1, NoLocks
  <1>5. /\ stored' \subseteq Files /\ unsent' \subseteq Files \ stored' /\ stored \subseteq Files
        /\ requests' \in 0 .. MaxRequests /\ faults' \in 0 .. MaxFaults /\ unanswered' \in BOOLEAN
        /\ orders' \in [Orders -> Order \cup {None}] /\ avatar' \in Files \cup {None} /\ OrdersStay
    BY <1>1 DEF TypeOK, OrdersStay
  <1>6. Shape(t)'
    BY <1>3, IdleFields DEF Shape, AddressKinds, PictureKinds
  <1>7. /\ (unanswered => faults > 0) /\ PicturesInv /\ PicturesExist /\ NoFileIsForgotten
        /\ Slips' = Slips /\ Shown' = Shown
    BY <1>1 DEF IInv, Slips, Shown
  <1>8. ~unanswered => FileInv(t)
    BY <1>7 DEF PicturesInv
  <1>9. PicturesExist'
    BY <1>1, <1>2, <1>7, <1>8 DEF PicturesExist, FileInv, Shown
  <1>10. NoFileIsForgotten'
    <2> SUFFICES ASSUME faults = 0, NEW g \in stored, g # f
                 PROVE  g \in {avatar} \cup Slips \cup InHand'
      BY <1>1, <1>7 DEF NoFileIsForgotten
    <2>1. CASE g \in InHand
      <3>1. PICK s \in Txs : g = tx[s].file /\ s # t
        BY <2>1 DEF InHand
      <3>2. QED
        BY <1>3, <3>1 DEF InHand, OnlyMoves
    <2>2. QED
      BY <1>7, <2>1 DEF NoFileIsForgotten
  <1>11. PicturesInv'
    <2> SUFFICES ASSUME ~unanswered
                 PROVE  /\ \A s \in Txs : FileInv(s)' /\ PreviousInv(s)'
                        /\ ShownOnce'
      BY <1>1 DEF PicturesInv
    <2>1. ShownOnce /\ \A s \in Txs : FileInv(s) /\ PreviousInv(s)
      BY <1>7 DEF PicturesInv
    <2>2. ShownOnce'
      BY <1>1, <1>7, <2>1 DEF ShownOnce
    <2>3. FileInv(t)' /\ PreviousInv(t)'
      BY <1>3, IdleFields DEF FileInv, PreviousInv, Replaces
    <2>4. ASSUME NEW s \in Txs \ {t}
          PROVE  FileInv(s)' /\ PreviousInv(s)'
      <3>1. FileInv(s) /\ PreviousInv(s) /\ tx'[s] = tx[s]
        BY <1>3, <2>1 DEF OnlyMoves
      <3>2. FileInv(s)'
        <4> SUFFICES ASSUME tx[s].file # None
                     PROVE  /\ tx[s].file \in stored' /\ tx[s].file \notin Shown'
                            /\ \A z \in Txs \ {s} : tx'[z].file # tx[s].file
          BY <3>1 DEF FileInv
        <4>1. /\ tx[s].file \in stored /\ tx[s].file \notin Shown
              /\ \A z \in Txs \ {s} : tx[z].file # tx[s].file
          BY <3>1 DEF FileInv
        <4>2. QED
          BY <1>1, <1>3, <1>7, <4>1, IdleFields DEF OnlyMoves
      <3>3. PreviousInv(s)'
        BY <1>1, <3>1 DEF PreviousInv, Replaces
      <3>4. QED
        BY <3>2, <3>3
    <2>5. QED
      BY <2>2, <2>3, <2>4
  <1>12. PicturesPart'
    BY <1>1, <1>7, <1>9, <1>10, <1>11 DEF PicturesPart
  <1>13. 0 <= peak
    BY PeakFacts
  <1>14. QED
    BY <1>1, <1>4, <1>5, <1>6, <1>12, <1>13, IdleFields, PictureStep

-----------------------------------------------------------------------------
(* The cart, and steps of others                                           *)

\* The cart is covered: what the upsert accepts is not more than the stock it has read.
LEMMA CartStep ==
  ASSUME IInv, NEW t \in Txs, NEW q \in 1 .. MaxStock, WriteCart(t, q) \/ RefuseCart(t, q)
  PROVE  IInv'
  <1>1. /\ TypeOK /\ tx[t].pc = "cart" /\ tx' = [tx EXCEPT ![t] = Idle]
        /\ book' = book /\ orders' = orders /\ UNCHANGED pictureVars
        /\ addressLock' = addressLock /\ userLock' = userLock /\ orderLock' = orderLock
        /\ stock' = stock /\ peak' = peak
        /\ requests' = requests /\ faults' = faults /\ unanswered' = unanswered
        /\ cart' = cart \/ (Accepts(t, q) /\ cart' = IF tx[t].kind = "add" THEN cart + q ELSE q)
    BY DEF WriteCart, RefuseCart, Goto, IInv, addressVars, cartVars, countVars
  <1>2. /\ tx[t].file = None /\ tx[t].n <= peak /\ tx[t].n \in 0 .. MaxStock
    BY <1>1, TxFields DEF IInv, Shape, CartInv, PictureKinds
  <1>3. cart \in Nat /\ peak \in Nat /\ cart <= peak /\ faults \in Nat /\ 0 <= peak
    BY <1>1, PeakFacts, BoundAssumption DEF IInv, CartIsCovered, TypeOK
  <1>4. cart' \in Nat /\ cart' <= peak
    BY <1>1, <1>2, <1>3 DEF Accepts
  <1>5. OnlyMoves(t) /\ tx'[t] = Idle
    BY <1>1, IdleFields, Moves
  <1>6. KeepsLocks(t) /\ LocksType'
    BY <1>1, NoLocks
  <1>7. OrdersStay /\ SlipsStay
    BY <1>1 DEF OrdersStay, SlipsStay
  <1>8. TypeOK'
    BY <1>1, <1>4, <1>5 DEF TypeOK, OnlyMoves, pictureVars
  <1>9. Shape(t)' /\ AddressInv(t)' /\ CheckoutInv(t)' /\ PreviousInv(t)' /\ CartInv(t)'
    <2>1. Shape(t)'
      BY <1>5, IdleFields DEF Shape, AddressKinds, PictureKinds
    <2>2. AddressInv(t)' /\ CheckoutInv(t)' /\ PreviousInv(t)'
      BY <1>5, IdleFields, NoAddress, NoPicture DEF AddressKinds, PictureKinds
    <2>3. CartInv(t)'
      BY <1>1, <1>3, <1>5, IdleFields DEF CartInv
    <2>4. QED
      BY <2>1, <2>2, <2>3
  <1>10. CartPart'
    BY <1>1, <1>3, <1>4, <1>5, <1>9, CartsKeep
  <1>11. tx'[t].file = tx[t].file
    BY <1>2, <1>5, IdleFields
  <1>12. PicturesPart'
    BY <1>1, <1>3, <1>5, <1>6, <1>7, <1>9, <1>11, PicturesKeep
  <1>13. AddressesPart' /\ \A s \in Txs : Shape(s)'
    BY <1>1, <1>5, <1>6, <1>7, <1>9, AddressesKeep, ShapesKeep
  <1>14. QED
    BY <1>8, <1>10, <1>12, <1>13, Parts

\* No request moves, nobody's addresses, pictures or locks change.
LEMMA EnvironmentStep ==
  ASSUME IInv, tx' = tx, book' = book, UNCHANGED pictureVars,
         UNCHANGED <<userLock, addressLock, orderLock>>,
         orders' \in [Orders -> Order \cup {None}], SlipsStay,
         stock' \in 0 .. MaxStock, peak' \in stock' .. MaxStock, peak' >= peak,
         cart' \in Nat, cart' <= peak',
         requests' \in 0 .. MaxRequests, faults' = faults, unanswered' = unanswered
  PROVE  IInv'
  <1>1. TypeOK /\ peak' \in Nat /\ faults \in Nat /\ None \notin Txs
    BY ModelValues DEF IInv, TypeOK
  <1>2. OnlyMoves(None) /\ KeepsLocks(None) /\ OrdersStay
    BY <1>1 DEF OnlyMoves, KeepsLocks, OrdersStay, SlipsStay, TypeOK
  <1>3. TypeOK'
    BY <1>1 DEF TypeOK, pictureVars
  <1>4. CartPart'
    BY <1>1, <1>2, CartsKeep
  <1>5. PicturesPart'
    BY <1>1, <1>2, PicturesKeep
  <1>6. AddressesPart' /\ \A s \in Txs : Shape(s)'
    BY <1>1, <1>2, AddressesKeep, ShapesKeep
  <1>7. QED
    BY <1>3, <1>4, <1>5, <1>6, Parts

LEMMA CloseOrderStep ==
  ASSUME IInv, NEW o \in Orders, CloseOrder(o)
  PROVE  IInv'
  <1>1. /\ TypeOK /\ orders[o] # None /\ orders' = [orders EXCEPT ![o].open = FALSE]
        /\ UNCHANGED <<addressVars, pictureVars, cartVars, userLock, orderLock, tx, countVars>>
    BY DEF CloseOrder, IInv
  <1>2. orders[o] \in Order /\ orders \in [Orders -> Order \cup {None}]
    BY <1>1 DEF TypeOK
  <1>3. /\ [orders[o] EXCEPT !.open = FALSE] \in Order
        /\ [orders[o] EXCEPT !.open = FALSE].slip = orders[o].slip
    BY <1>2 DEF Order
  <1>4. orders' \in [Orders -> Order \cup {None}] /\ SlipsStay
    BY <1>1, <1>2, <1>3, NoOrderAssumption DEF SlipsStay
  <1>5. /\ book' = book /\ addressLock' = addressLock /\ stock' = stock /\ peak' = peak /\ cart' = cart
        /\ requests' = requests /\ faults' = faults /\ unanswered' = unanswered
    BY <1>1 DEF addressVars, cartVars, countVars
  <1>6. stock' \in 0 .. MaxStock /\ peak' \in stock' .. MaxStock /\ peak' >= peak
        /\ cart' \in Nat /\ cart' <= peak' /\ requests' \in 0 .. MaxRequests
    BY <1>1, <1>5, PeakFacts DEF TypeOK, IInv, CartIsCovered
  <1>7. QED
    BY <1>1, <1>4, <1>5, <1>6, EnvironmentStep

LEMMA ChangeStockStep ==
  ASSUME IInv, NEW n \in 0 .. MaxStock, ChangeStock(n)
  PROVE  IInv'
  <1>1. /\ TypeOK /\ stock' = n /\ peak' = (IF n > peak THEN n ELSE peak)
        /\ UNCHANGED <<addressVars, orders, pictureVars, cart, userLock, orderLock, tx, countVars>>
    BY DEF ChangeStock, IInv
  <1>2. /\ book' = book /\ addressLock' = addressLock /\ orders' = orders /\ cart' = cart
        /\ requests' = requests /\ faults' = faults /\ unanswered' = unanswered
    BY <1>1 DEF addressVars, countVars
  <1>3. orders' \in [Orders -> Order \cup {None}] /\ SlipsStay
    BY <1>1, <1>2 DEF SlipsStay, TypeOK
  <1>4. cart \in Nat /\ cart <= peak /\ peak \in 0 .. MaxStock /\ MaxStock \in Nat
    BY <1>1, BoundAssumption DEF TypeOK, IInv, CartIsCovered
  <1>5. stock' \in 0 .. MaxStock /\ peak' \in stock' .. MaxStock /\ peak' >= peak
        /\ cart' \in Nat /\ cart' <= peak' /\ requests' \in 0 .. MaxRequests
    BY <1>1, <1>2, <1>4 DEF TypeOK
  <1>6. QED
    BY <1>1, <1>2, <1>3, <1>5, EnvironmentStep

LEMMA DropCartStep ==
  ASSUME IInv, DropCart
  PROVE  IInv'
  <1>1. /\ TypeOK /\ cart' = 0 /\ requests < MaxRequests /\ requests' = requests + 1
        /\ UNCHANGED <<addressVars, orders, pictureVars, stock, peak, userLock, orderLock, tx>>
        /\ faults' = faults /\ unanswered' = unanswered
    BY DEF DropCart, IInv
  <1>2. book' = book /\ addressLock' = addressLock /\ orders' = orders
    BY <1>1 DEF addressVars
  <1>3. orders' \in [Orders -> Order \cup {None}] /\ SlipsStay
    BY <1>1, <1>2 DEF SlipsStay, TypeOK
  <1>4. stock' \in 0 .. MaxStock /\ peak' \in stock' .. MaxStock /\ peak' >= peak
        /\ cart' \in Nat /\ cart' <= peak' /\ requests' \in 0 .. MaxRequests
    BY <1>1, PeakFacts, BoundAssumption DEF TypeOK
  <1>5. QED
    BY <1>1, <1>2, <1>3, <1>4, EnvironmentStep

LEMMA StutterStep ==
  ASSUME IInv, UNCHANGED vars
  PROVE  IInv'
  <1>1. /\ tx' = tx /\ book' = book /\ UNCHANGED pictureVars
        /\ UNCHANGED <<userLock, addressLock, orderLock>> /\ orders' = orders
        /\ stock' = stock /\ peak' = peak /\ cart' = cart
        /\ requests' = requests /\ faults' = faults /\ unanswered' = unanswered
    BY DEF vars, pictureVars
  <1>2. orders' \in [Orders -> Order \cup {None}] /\ SlipsStay
    BY <1>1 DEF IInv, TypeOK, SlipsStay
  <1>3. stock' \in 0 .. MaxStock /\ peak' \in stock' .. MaxStock /\ peak' >= peak
        /\ cart' \in Nat /\ cart' <= peak' /\ requests' \in 0 .. MaxRequests
    BY <1>1, PeakFacts DEF IInv, TypeOK, CartIsCovered
  <1>4. QED
    BY <1>1, <1>2, <1>3, EnvironmentStep

\* A commit of t that changes no picture that is shown.
LEMMA CommitStep ==
  ASSUME IInv, NEW t \in Txs, tx' = [tx EXCEPT ![t] = Idle], tx[t].file = None,
         UNCHANGED pictureVars, ReleaseLocks(t),
         book' \in Seq(Address),
         \A i, j \in DOMAIN book' : book'[i].id = book'[j].id => i = j,
         orders' \in [Orders -> Order \cup {None}], SlipsStay,
         stock' = stock, peak' = peak, cart' \in Nat, cart' <= peak,
         requests' = requests, faults' = faults, unanswered' = unanswered,
         AddressesPart'
  PROVE  IInv'
  <1>1. TypeOK /\ OnlyMoves(t) /\ tx'[t] = Idle
    BY IdleFields, Moves DEF IInv
  <1>2. KeepsLocks(t) /\ LocksType'
    BY <1>1, Released
  <1>3. TypeOK'
    BY <1>1, <1>2 DEF TypeOK, LocksType, OnlyMoves, pictureVars
  <1>4. faults \in Nat /\ peak \in Nat /\ 0 <= peak
    BY <1>1, PeakFacts, BoundAssumption DEF TypeOK
  <1>5. Shape(t)' /\ PreviousInv(t)' /\ CartInv(t)' /\ tx'[t].file = tx[t].file
    <2>1. Shape(t)'
      BY <1>1, IdleFields DEF Shape, AddressKinds, PictureKinds
    <2>2. QED
      BY <1>1, <1>4, <2>1, IdleFields, NoPicture DEF PictureKinds, CartInv
  <1>6. OrdersStay
    BY DEF OrdersStay, SlipsStay
  <1>7. CartPart'
    BY <1>1, <1>4, <1>5, CartsKeep
  <1>8. PicturesPart'
    BY <1>1, <1>2, <1>4, <1>5, PicturesKeep
  <1>9. \A s \in Txs : Shape(s)'
    BY <1>1, <1>5, <1>6, ShapesKeep
  <1>10. QED
    BY <1>3, <1>7, <1>8, <1>9, Parts

LEMMA PlaceOrderStep ==
  ASSUME IInv, NEW t \in Txs, NEW o \in Orders, PlaceOrder(t, o)
  PROVE  IInv'
  <1> DEFINE made == [open |-> TRUE, ship |-> tx[t].row, snapshot |-> tx[t].content, slip |-> None]
  <1>1. /\ TypeOK /\ tx[t].pc = "place" /\ orders[o] = None /\ orders' = [orders EXCEPT ![o] = made]
        /\ cart' = 0 /\ ReleaseLocks(t) /\ tx' = [tx EXCEPT ![t] = Idle]
        /\ book' = book /\ UNCHANGED pictureVars /\ stock' = stock /\ peak' = peak
        /\ requests' = requests /\ faults' = faults /\ unanswered' = unanswered
    BY DEF PlaceOrder, Goto, IInv, countVars
  <1>2. /\ tx[t].file = None /\ tx[t].row \in Ids /\ tx[t].content = Named(tx[t].row).content
    BY <1>1 DEF IInv, Shape, CheckoutInv, PictureKinds
  <1>3. tx[t].row \in Addresses /\ tx[t].content \in Contents
    BY <1>1, <1>2, NamedFacts
  <1>4. made \in Order /\ made.slip = None
    BY <1>3 DEF Order
  <1> HIDE DEF made
  <1>5. orders' \in [Orders -> Order \cup {None}] /\ SlipsStay
    BY <1>1, <1>4 DEF TypeOK, SlipsStay
  <1>6. OnlyMoves(t) /\ tx'[t] = Idle /\ KeepsLocks(t)
    BY <1>1, IdleFields, Moves, Released
  <1>7. AddressInv(t)' /\ CheckoutInv(t)'
    BY <1>6, IdleFields, NoAddress DEF AddressKinds
  <1>8. AddressesPart'
    BY <1>1, <1>6, <1>7, AddressesKeep
  <1>9. /\ book' \in Seq(Address) /\ cart' \in Nat /\ cart' <= peak
        /\ \A i, j \in DOMAIN book' : book'[i].id = book'[j].id => i = j
    BY <1>1, PeakFacts DEF TypeOK
  <1>10. QED
    BY <1>1, <1>2, <1>5, <1>8, <1>9, CommitStep

-----------------------------------------------------------------------------
(* The addresses are written                                               *)

\* What the ids name after a commit.
LEMMA NamedAfter ==
  ASSUME \A i, j \in DOMAIN book' : book'[i].id = book'[j].id => i = j,
         NEW i \in DOMAIN book', NEW a, book'[i].id = a
  PROVE  a \in Ids' /\ Named(a)' = book'[i]
  <1>1. a \in Ids'
    BY DEF Ids
  <1>2. Place(a)' \in DOMAIN book' /\ book'[Place(a)'].id = a
    BY DEF Place
  <1>3. Place(a)' = i
    BY <1>2
  <1>4. QED
    BY <1>1, <1>3 DEF Named

\* The default address after a commit.
LEMMA DefaultAfter ==
  ASSUME NEW b \in Seq(Address), book' = b,
         \A i, j \in DOMAIN b : b[i].id = b[j].id => i = j,
         \/ b = <<>>
         \/ \E a \in Addresses :
              /\ \E i \in DOMAIN b : b[i].id = a
              /\ \A i \in DOMAIN b : b[i].default <=> b[i].id = a
  PROVE  OneDefault'
  <1>1. CASE b = <<>>
    BY <1>1 DEF OneDefault
  <1>2. CASE b # <<>>
    <2>1. PICK a \in Addresses :
            /\ \E i \in DOMAIN b : b[i].id = a
            /\ \A i \in DOMAIN b : b[i].default <=> b[i].id = a
      BY <1>2
    <2>2. PICK i \in DOMAIN b : b[i].id = a
      BY <2>1
    <2>3. \A j \in DOMAIN b : b[j].default \in BOOLEAN
      <3>1. \A j \in DOMAIN b : b[j] \in Address
        BY LenProperties
      <3>2. QED
        BY <3>1 DEF Address
    <2>4. \A j \in DOMAIN b : b[j].default = (j = i)
      BY <2>1, <2>2, <2>3
    <2>5. QED
      BY <2>4 DEF OneDefault
  <1>3. QED
    BY <1>1, <1>2

\* t holds the row of the customer, so nobody else is about to write addresses, and the
\* address it writes, so no checkout has it.
LEMMA WriteAddressesStep ==
  ASSUME IInv, NEW t \in Txs, WriteAddresses(t)
  PROVE  IInv'
  <1> DEFINE gone == IF tx[t].kind = "delete" THEN ShippedTo(tx[t].row) ELSE {}
             b == Written(t)
             a == tx[t].row
  <1>1. /\ TypeOK /\ tx[t].pc = "write" /\ tx[t].kind \in {"create", "update", "delete"}
        /\ book' = b
        /\ orders' = [o \in Orders |-> IF o \in gone THEN [orders[o] EXCEPT !.ship = None]
                                                     ELSE orders[o]]
        /\ ReleaseLocks(t) /\ tx' = [tx EXCEPT ![t] = Idle]
        /\ UNCHANGED pictureVars /\ stock' = stock /\ peak' = peak /\ cart' = cart
        /\ requests' = requests /\ faults' = faults /\ unanswered' = unanswered
    BY DEF WriteAddresses, Goto, IInv, cartVars, countVars
  <1>2. /\ Shape(t) /\ AddressInv(t) /\ Changes(t) /\ Owns(t) /\ userLock = t /\ OneDefault
        /\ Present(t) /\ tx[t].file = None
        /\ tx[t].kind = "create" => a \notin Ids
        /\ tx[t].kind # "create" => addressLock[a] = t
    BY <1>1 DEF IInv, Changes, Owns, AddressKinds, AddressInv, Shape, PictureKinds
  <1>3. /\ b \in Seq(Address)
        /\ \A i, j \in DOMAIN b : b[i].id = b[j].id => i = j
        /\ \A i \in DOMAIN b : Stays(t, b[i]) \/ (tx[t].kind = "create" /\ b[i] = Made(t))
        /\ \A c \in Ids : (tx[t].kind = "delete" /\ c = a) \/ \E i \in DOMAIN b : b[i].id = c
    BY <1>1, <1>2, WrittenFacts
  <1>4. \/ b = <<>>
        \/ \E c \in Addresses :
             /\ \E i \in DOMAIN b : b[i].id = c
             /\ \A i \in DOMAIN b : b[i].default <=> b[i].id = c
    BY <1>1, <1>2, NewDefault
  <1> HIDE DEF b
  <1>5. OneDefault'
    BY <1>1, <1>3, <1>4, DefaultAfter
  <1>6. \A o \in Orders : orders[o] # None =>
          /\ [orders[o] EXCEPT !.ship = None] \in Order
          /\ [orders[o] EXCEPT !.ship = None].slip = orders[o].slip
    BY <1>1 DEF TypeOK, Order
  <1>7. gone \subseteq {o \in Orders : orders[o] # None}
    BY DEF ShippedTo
  <1> HIDE DEF gone
  <1>8. orders' \in [Orders -> Order \cup {None}] /\ SlipsStay
    BY <1>1, <1>6, <1>7, NoOrderAssumption DEF TypeOK, SlipsStay
  <1>9. OnlyMoves(t) /\ tx'[t] = Idle /\ KeepsLocks(t)
    BY <1>1, IdleFields, Moves, Released
  <1>10. ASSUME NEW s \in Txs, s # t
         PROVE  AddressInv(s)' /\ CheckoutInv(s)'
    <2>1. /\ tx'[s] = tx[s] /\ AddressInv(s) /\ CheckoutInv(s) /\ Shape(s)
          /\ \A c \in Addresses : addressLock[c] = s => addressLock'[c] = s
      BY <1>9, <1>10 DEF IInv, OnlyMoves, KeepsLocks
    <2>2. ~Owns(s)' /\ ~Changes(s)'
      BY <1>2, <1>10, <2>1 DEF AddressInv, Owns, Changes
    <2>3. ASSUME tx[s].kind = "create"
          PROVE  /\ tx[s].row \notin Ids'
                 /\ \A z \in Txs \ {s} : tx'[z].kind = "create" => tx'[z].row # tx[s].row
      <3>1. /\ tx[s].row \notin Ids
            /\ \A z \in Txs \ {s} : tx[z].kind = "create" => tx[z].row # tx[s].row
        BY <2>1, <2>3 DEF AddressInv
      <3>2. \A z \in Txs \ {s} : tx'[z].kind = "create" => tx'[z].row # tx[s].row
        BY <1>9, <3>1, IdleFields DEF OnlyMoves
      <3>3. \A i \in DOMAIN b : b[i].id \in Ids \/ (tx[t].kind = "create" /\ b[i].id = a)
        BY <1>3 DEF Stays, Made
      <3>4. tx[t].kind = "create" => tx[s].row # a
        BY <1>10, <3>1
      <3>5. tx[s].row \notin Ids'
        BY <1>1, <3>1, <3>3, <3>4 DEF Ids
      <3>6. QED
        BY <3>2, <3>5
    <2>4. AddressInv(s)'
      BY <2>1, <2>2, <2>3 DEF AddressInv
    <2>5. CheckoutInv(s)'
      <3> SUFFICES ASSUME NEW c, c = tx[s].row, tx[s].pc = "place"
                   PROVE  /\ c \in Ids' /\ addressLock'[c] = s
                          /\ tx[s].content = Named(c)'.content
        BY <2>1 DEF CheckoutInv
      <3>1. c \in Ids /\ addressLock[c] = s /\ tx[s].content = Named(c).content /\ c \in Addresses
        BY <1>1, <2>1, NamedFacts DEF CheckoutInv
      <3>2. c # a
        BY <1>2, <1>10, <3>1
      <3>3. PICK i \in DOMAIN b : b[i].id = c
        BY <1>3, <3>1, <3>2
      <3>4. Stays(t, b[i])
        BY <1>3, <3>2, <3>3 DEF Made
      <3>5. b[i].content = Named(c).content
        BY <3>2, <3>3, <3>4 DEF Stays
      <3>6. c \in Ids' /\ Named(c)' = b[i]
        BY <1>1, <1>3, <3>3, NamedAfter
      <3>7. QED
        BY <2>1, <3>1, <3>5, <3>6
    <2>6. QED
      BY <2>4, <2>5
  <1>11. AddressInv(t)' /\ CheckoutInv(t)'
    BY <1>9, IdleFields, NoAddress DEF AddressKinds
  <1>12. AddressesPart'
    BY <1>5, <1>10, <1>11 DEF AddressesPart
  <1>13. /\ book' \in Seq(Address) /\ cart' \in Nat /\ cart' <= peak
         /\ \A i, j \in DOMAIN book' : book'[i].id = book'[j].id => i = j
    BY <1>1, <1>3 DEF TypeOK, IInv, CartIsCovered
  <1>14. QED
    BY <1>1, <1>2, <1>8, <1>12, <1>13, CommitStep

-----------------------------------------------------------------------------
(* The invariant                                                           *)

LEMMA InitInv == Init => IInv
  <1> SUFFICES ASSUME Init PROVE IInv
    OBVIOUS
  <1>1. /\ book = <<>> /\ orders = [o \in Orders |-> None] /\ avatar = None
        /\ stored = {} /\ unsent = Files /\ stock = 1 /\ peak = 1 /\ cart = 0
        /\ userLock = None /\ addressLock = [a \in Addresses |-> None]
        /\ orderLock = [o \in Orders |-> None] /\ tx = [t \in Txs |-> Idle]
        /\ requests = 0 /\ faults = 0 /\ unanswered = FALSE
    BY DEF Init
  <1>2. TypeOK
    <2>1. book \in Seq(Address) /\ DOMAIN book = {}
      BY <1>1, EmptySeq
    <2>2. stock \in 0 .. MaxStock /\ peak \in stock .. MaxStock /\ cart \in Nat
          /\ requests \in 0 .. MaxRequests /\ faults \in 0 .. MaxFaults
      BY <1>1, BoundAssumption
    <2>3. QED
      BY <1>1, <2>1, <2>2, IdleFields DEF TypeOK
  <1>3. Slips = {}
    BY <1>1 DEF Slips
  <1>4. ASSUME NEW t \in Txs
        PROVE  /\ Shape(t) /\ AddressInv(t) /\ CheckoutInv(t) /\ CartInv(t)
               /\ FileInv(t) /\ PreviousInv(t)
    <2>1. tx[t] = Idle
      BY <1>1
    <2>2. Shape(t)
      BY <2>1, IdleFields DEF Shape, AddressKinds, PictureKinds
    <2>3. AddressInv(t) /\ CheckoutInv(t) /\ CartInv(t)
      BY <1>1, <2>1, IdleFields DEF AddressInv, Owns, Changes, CheckoutInv, CartInv, AddressKinds
    <2>4. FileInv(t) /\ PreviousInv(t)
      BY <2>1, IdleFields DEF FileInv, PreviousInv, Replaces
    <2>5. QED
      BY <2>2, <2>3, <2>4
  <1>5. OneDefault /\ CartIsCovered /\ PicturesExist /\ NoFileIsForgotten /\ ShownOnce
    BY <1>1, <1>3 DEF OneDefault, CartIsCovered, PicturesExist, NoFileIsForgotten, ShownOnce
  <1>6. QED
    BY <1>1, <1>2, <1>4, <1>5 DEF IInv, PicturesInv

LEMMA NextInv ==
  ASSUME IInv, [Next]_vars
  PROVE  IInv'
  <1>1. ASSUME NEW t \in Txs, BeginAddress(t)
        PROVE  IInv'
    BY <1>1, BeginAddressStep
  <1>2. ASSUME NEW t \in Txs, BeginOther(t)
        PROVE  IInv'
    <2>1. CASE BeginProfileImage(t)
      BY <2>1, BeginUploadStep DEF BeginProfileImage, PictureKinds
    <2>2. CASE BeginRemoveImage(t)
      BY <2>2, BeginRemoveImageStep
    <2>3. ASSUME NEW o \in Orders, BeginSlip(t, o)
          PROVE  IInv'
      BY <2>3, BeginUploadStep DEF BeginSlip, PictureKinds
    <2>4. ASSUME NEW kind \in {"add", "set"}, BeginCart(t, kind)
          PROVE  IInv'
      BY <2>4, BeginCartStep
    <2>5. QED
      BY <1>2, <2>1, <2>2, <2>3, <2>4 DEF BeginOther
  <1>3. ASSUME NEW t \in Txs, Step(t)
        PROVE  IInv'
    <2>1. CASE LockOwner(t)
      BY <2>1, LockOwnerStep
    <2>2. CASE AddressIsGone(t) \/ NoSuchAddress(t) \/ DeadlockVictim(t)
      BY <2>2, RefusedSteps
    <2>3. CASE WriteAddresses(t)
      BY <2>3, WriteAddressesStep
    <2>4. ASSUME NEW any \in Addresses, ReadAddresses(t, any)
          PROVE  IInv'
      BY <2>4, ReadAddressesStep
    <2>5. CASE PickAddress(t)
      BY <2>5, PickAddressStep
    <2>6. ASSUME NEW o \in Orders, PlaceOrder(t, o)
          PROVE  IInv'
      BY <2>6, PlaceOrderStep
    <2>7. CASE LockProfile(t)
      BY <2>7, LockProfileStep
    <2>8. CASE LockOrder(t)
      BY <2>8, LockOrderStep
    <2>9. CASE OrderIsClosed(t)
      BY <2>9, OrderIsClosedStep
    <2>10. CASE WritePicture(t)
      BY <2>10, WritePictureStep
    <2>11. CASE Discard(t)
      BY <2>11, DiscardStep
    <2>12. ASSUME NEW q \in 1 .. MaxStock, WriteCart(t, q) \/ RefuseCart(t, q)
           PROVE  IInv'
      BY <2>12, CartStep
    <2>13. QED
      BY <1>3, <2>1, <2>2, <2>3, <2>4, <2>5, <2>6, <2>7, <2>8, <2>9, <2>10, <2>11, <2>12
         DEF Step
  <1>4. ASSUME NEW t \in Txs, SaveFails(t) \/ WriteUnanswered(t) \/ Abort(t)
        PROVE  IInv'
    BY <1>4, SaveFailsStep, WriteUnansweredStep, AbortStep
  <1>5. ASSUME NEW o \in Orders, CloseOrder(o)
        PROVE  IInv'
    BY <1>5, CloseOrderStep
  <1>6. ASSUME NEW n \in 0 .. MaxStock, ChangeStock(n)
        PROVE  IInv'
    BY <1>6, ChangeStockStep
  <1>7. CASE DropCart
    BY <1>7, DropCartStep
  <1>8. CASE Quiescent \/ UNCHANGED vars
    BY <1>8, StutterStep DEF Quiescent
  <1>9. QED
    BY <1>1, <1>2, <1>3, <1>4, <1>5, <1>6, <1>7, <1>8 DEF Next

-----------------------------------------------------------------------------
(* What an order says of its address                                       *)

\* What a step does to orders that are placed, and to those that are not.
SaysTheSame ==
  \A o \in Orders : orders'[o] # None =>
    orders[o] # None /\ orders'[o].snapshot = orders[o].snapshot

LEMMA PictureSaysTheSame ==
  ASSUME IInv, NEW t \in Txs, WritePicture(t) \/ WriteUnanswered(t)
  PROVE  SaysTheSame
  <1> DEFINE row == tx[t].row
             file == tx[t].file
  <1>1. /\ TypeOK /\ Shape(t)
        /\ orders' = IF tx[t].kind = "slip" THEN [orders EXCEPT ![row].slip = file] ELSE orders
    BY DEF IInv, WritePicture, WriteUnanswered
  <1>2. CASE tx[t].kind = "slip"
    <2>1. row \in Orders /\ orders[row] \in Order
      BY <1>1, <1>2 DEF Shape, TypeOK
    <2> HIDE DEF row, file
    <2>2. [orders[row] EXCEPT !.slip = file].snapshot = orders[row].snapshot
      BY <2>1 DEF Order
    <2>3. orders' = [orders EXCEPT ![row] = [orders[row] EXCEPT !.slip = file]]
      BY <1>1, <1>2
    <2>4. orders[row] # None
      BY <2>1, NoOrderAssumption
    <2>5. QED
      BY <1>1, <2>1, <2>2, <2>3, <2>4 DEF SaysTheSame, TypeOK
  <1>3. CASE tx[t].kind # "slip"
    BY <1>1, <1>3 DEF SaysTheSame
  <1>4. QED
    BY <1>2, <1>3

LEMMA OrderSaysTheSame ==
  ASSUME IInv, NEW o \in Orders, CloseOrder(o)
  PROVE  SaysTheSame
  <1>1. TypeOK /\ orders[o] # None /\ orders' = [orders EXCEPT ![o].open = FALSE]
    BY DEF IInv, CloseOrder
  <1>2. orders[o] \in Order
    BY <1>1 DEF TypeOK
  <1>3. [orders[o] EXCEPT !.open = FALSE].snapshot = orders[o].snapshot
    BY <1>2 DEF Order
  <1>4. QED
    BY <1>1, <1>3 DEF SaysTheSame, TypeOK

\* ON DELETE SET NULL takes the id away, not what the order says.
LEMMA AddressSaysTheSame ==
  ASSUME IInv, NEW t \in Txs, WriteAddresses(t)
  PROVE  SaysTheSame
  <1> DEFINE gone == IF tx[t].kind = "delete" THEN ShippedTo(tx[t].row) ELSE {}
  <1>1. TypeOK /\ orders' = [o \in Orders |-> IF o \in gone THEN [orders[o] EXCEPT !.ship = None]
                                                           ELSE orders[o]]
    BY DEF IInv, WriteAddresses
  <1>2. gone \subseteq {o \in Orders : orders[o] # None}
    BY DEF ShippedTo
  <1>3. \A o \in Orders : orders[o] # None =>
          [orders[o] EXCEPT !.ship = None].snapshot = orders[o].snapshot
    BY <1>1 DEF TypeOK, Order
  <1> HIDE DEF gone
  <1>4. QED
    BY <1>1, <1>2, <1>3 DEF SaysTheSame

\* The address a checkout has picked is in the book, and says what the order is given.
LEMMA PlacedAsAddressed ==
  ASSUME IInv, NEW t \in Txs, NEW o \in Orders, PlaceOrder(t, o)
  PROVE  \A p \in Orders : orders'[p] # None =>
           IF orders[p] = None
             THEN \E r \in ToSet(book') : r.id = orders'[p].ship /\ r.content = orders'[p].snapshot
             ELSE orders'[p].snapshot = orders[p].snapshot
  <1> DEFINE made == [open |-> TRUE, ship |-> tx[t].row, snapshot |-> tx[t].content, slip |-> None]
             a == tx[t].row
  <1>1. /\ TypeOK /\ orders' = [orders EXCEPT ![o] = made] /\ book' = book /\ orders[o] = None
        /\ a \in Ids /\ tx[t].content = Named(a).content
    BY DEF PlaceOrder, IInv, CheckoutInv
  <1>2. Place(a) \in DOMAIN book /\ Named(a) = book[Place(a)] /\ Named(a).id = a
    BY <1>1, NamedFacts
  <1>3. Named(a) \in ToSet(book')
    BY <1>1, <1>2 DEF ToSet
  <1>4. made.ship = Named(a).id /\ made.snapshot = Named(a).content
    BY <1>1, <1>2
  <1> HIDE DEF made, a
  <1>5. QED
    BY <1>1, <1>3, <1>4 DEF TypeOK

LEMMA NextShips ==
  ASSUME IInv, [Next]_vars
  PROVE  \A o \in Orders : orders'[o] # None =>
           IF orders[o] = None
             THEN \E r \in ToSet(book') : r.id = orders'[o].ship /\ r.content = orders'[o].snapshot
             ELSE orders'[o].snapshot = orders[o].snapshot
  <1> DEFINE Goal ==
        \A o \in Orders : orders'[o] # None =>
          IF orders[o] = None
            THEN \E r \in ToSet(book') : r.id = orders'[o].ship /\ r.content = orders'[o].snapshot
            ELSE orders'[o].snapshot = orders[o].snapshot
  <1>1. SaysTheSame => Goal
    BY DEF SaysTheSame
  <1>2. orders' = orders => Goal
    OBVIOUS
  <1>3. ASSUME NEW t \in Txs, NEW o \in Orders, PlaceOrder(t, o)
        PROVE  Goal
    BY <1>3, PlacedAsAddressed
  <1> HIDE DEF Goal
  <1>4. ASSUME NEW t \in Txs, BeginAddress(t) \/ BeginOther(t)
        PROVE  orders' = orders
    BY <1>4 DEF BeginAddress, BeginOther, BeginCreateAddress, BeginUpdateAddress,
       BeginDeleteAddress, BeginCheckout, BeginProfileImage, BeginRemoveImage, BeginSlip,
       BeginUpload, BeginCart, Begin
  <1>5. ASSUME NEW t \in Txs, Step(t)
        PROVE  Goal
    <2>1. CASE LockOwner(t) \/ AddressIsGone(t) \/ NoSuchAddress(t) \/ DeadlockVictim(t)
      BY <1>2, <2>1 DEF LockOwner, AddressIsGone, NoSuchAddress, DeadlockVictim, Rollback
    <2>2. CASE LockProfile(t) \/ LockOrder(t) \/ OrderIsClosed(t) \/ Discard(t) \/ PickAddress(t)
      BY <1>2, <2>2 DEF LockProfile, LockOrder, OrderIsClosed, Rollback, Discard, PickAddress
    <2>3. ASSUME NEW any \in Addresses, ReadAddresses(t, any)
          PROVE  Goal
      BY <1>2, <2>3 DEF ReadAddresses
    <2>4. ASSUME NEW q \in 1 .. MaxStock, WriteCart(t, q) \/ RefuseCart(t, q)
          PROVE  Goal
      BY <1>2, <2>4 DEF WriteCart, RefuseCart
    <2>5. CASE WriteAddresses(t)
      BY <1>1, <2>5, AddressSaysTheSame
    <2>6. CASE WritePicture(t)
      BY <1>1, <2>6, PictureSaysTheSame
    <2>7. QED
      BY <1>3, <1>5, <2>1, <2>2, <2>3, <2>4, <2>5, <2>6 DEF Step
  <1>6. ASSUME NEW t \in Txs, SaveFails(t) \/ Abort(t)
        PROVE  orders' = orders
    BY <1>6 DEF SaveFails, Abort, Rollback
  <1>7. ASSUME NEW t \in Txs, WriteUnanswered(t)
        PROVE  Goal
    BY <1>1, <1>7, PictureSaysTheSame
  <1>8. ASSUME NEW o \in Orders, CloseOrder(o)
        PROVE  Goal
    BY <1>1, <1>8, OrderSaysTheSame
  <1>9. (\E n \in 0 .. MaxStock : ChangeStock(n)) \/ DropCart \/ Quiescent \/ UNCHANGED vars
          => orders' = orders
    BY DEF ChangeStock, DropCart, Quiescent, vars
  <1>10. Goal
    BY <1>2, <1>4, <1>5, <1>6, <1>7, <1>8, <1>9 DEF Next
  <1>11. QED
    BY <1>10 DEF Goal

-----------------------------------------------------------------------------
(* Theorems                                                                *)

\* What address requests, checkouts, uploads and the cart rely on of each other - who
\* holds which row, what was read of it, where each file is - holds whatever requests
\* run at the same time and whatever fails.
THEOREM Inductive == Spec => []IInv
  <1>1. Init => IInv
    BY InitInv
  <1>2. IInv /\ [Next]_vars => IInv'
    BY NextInv
  <1>3. QED
    BY <1>1, <1>2, PTL DEF Spec

\* Rows, locks and requests have the values the code can give them; an id names one
\* address (the primary key of addresses).
THEOREM TypeCorrect == Spec => []TypeOK
  <1>1. IInv => TypeOK
    BY DEF IInv
  <1>2. QED
    BY <1>1, Inductive, PTL

\* create_address, update_address and delete_address of address/service.rs: a customer
\* with addresses has exactly one default address, whichever of these run at the same
\* time: the index idx_addresses_one_default_per_user is never run into.
THEOREM AlwaysOneDefault == Spec => []OneDefault
  <1>1. IInv => OneDefault
    BY DEF IInv
  <1>2. QED
    BY <1>1, Inductive, PTL

\* update_profile, update_order_payment_slip and their handlers: whoever replaces a
\* picture, and whatever fails on the way, the picture that is shown is in the store,
\* unless a commit went through and its answer was lost.
THEOREM ShownPicturesExist == Spec => []PicturesExist
  <1>1. IInv => PicturesExist
    BY DEF IInv
  <1>2. QED
    BY <1>1, Inductive, PTL

\* The same handlers: as long as no call fails, a file in the store is shown, or a
\* request has it in hand and is going to save or delete it.
THEOREM FilesAreRemembered == Spec => []NoFileIsForgotten
  <1>1. IInv => NoFileIsForgotten
    BY DEF IInv
  <1>2. QED
    BY <1>1, Inductive, PTL

\* add_item_to_cart and update_cart_item_quantity of cart/service.rs: the quantity in
\* the cart is never more than the stock has been, although it is read before.
THEOREM CartsAreCovered == Spec => []CartIsCovered
  <1>1. IInv => CartIsCovered
    BY DEF IInv
  <1>2. QED
    BY <1>1, Inductive, PTL

\* create_order of order/service.rs: an order is committed with what its address says
\* at that moment, and goes on to say it when the address is changed or deleted.
THEOREM ShipsAsAddressed == Spec => ShippedAsAddressed
  <1>1. IInv /\ [Next]_vars =>
          [\A o \in Orders : orders'[o] # None =>
             IF orders[o] = None
               THEN \E r \in ToSet(book') : r.id = orders'[o].ship /\ r.content = orders'[o].snapshot
               ELSE orders'[o].snapshot = orders[o].snapshot]_vars
    BY NextShips
  <1>2. QED
    BY <1>1, Inductive, PTL DEF Spec, ShippedAsAddressed

=============================================================================
