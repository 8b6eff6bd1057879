--------------------------- MODULE Catalogue_proofs ---------------------------
(***************************************************************************)
(* IInv of CatalogueInv is inductive, for every value of the constants; so *)
(* slugs are of one row each, and the lookups of Catalogue implement       *)
(* SlugDirectory, for products and for categories.                         *)
(***************************************************************************)
EXTENDS CatalogueInv, TLAPS

-----------------------------------------------------------------------------
(* Values                                                                  *)

LEMMA ModelValues ==
  /\ None \notin Rows /\ None \notin Names /\ None \notin Slugs /\ None \notin Txs
  /\ None \notin Categories /\ None \notin Products
  BY NoneAssumption DEF Rows

LEMMA IdleFields ==
  /\ Idle \in TxState
  /\ Idle.pc = "idle" /\ Idle.row = None /\ ~Idle.renames /\ Idle.name = None
  /\ Idle.category = None /\ Idle.slug = None
  BY DEF Idle, TxState

\* The types of what a request's record holds.
LEMMA TxFields ==
  ASSUME TypeOK, NEW s \in Txs
  PROVE  /\ tx[s].pc \in {"idle", "lock", "name", "current", "former", "write", "delete"}
         /\ tx[s].row \in Rows \cup {None} /\ tx[s].renames \in BOOLEAN
         /\ tx[s].name \in Names \cup {None}
         /\ tx[s].category \in Categories \cup {None}
         /\ tx[s].n \in Nat \ {0} /\ tx[s].free \in BOOLEAN
         /\ tx[s].slug \in Slugs \cup {None}
  <1>1. tx[s] \in TxState
    BY DEF TypeOK
  <1>2. QED
    BY <1>1 DEF TxState

\* The rows of the table of r are rows, and share it with r.
LEMMA KinFacts ==
  ASSUME NEW r \in Rows
  PROVE  /\ Kin(r) \subseteq Rows /\ r \in Kin(r)
         /\ \A q \in Kin(r) : Kin(q) = Kin(r)
  BY KindAssumption DEF Kin, Rows

\* The suffixes of a name.
LEMMA Suffixes ==
  ASSUME NEW x \in Names
  PROVE  /\ Len(SlugOf[x]) \in Nat /\ 1 \in 1 .. Len(SlugOf[x])
         /\ \A n \in 1 .. Len(SlugOf[x]) : SlugOf[x][n] \in Slugs
  <1>1. SlugOf[x] \in Seq(Slugs)
    BY SlugAssumption
  <1>2. MaxRequests \in Nat /\ Len(SlugOf[x]) > MaxRequests
    BY BoundAssumption
  <1>3. Len(SlugOf[x]) \in Nat /\ \A n \in 1 .. Len(SlugOf[x]) : SlugOf[x][n] \in Slugs
    BY <1>1
  <1>4. QED
    BY <1>2, <1>3

-----------------------------------------------------------------------------
(* Steps that commit nothing                                               *)

\* Such a step of t disturbs nobody else.
LEMMA LocalStep ==
  ASSUME IInv, NEW t \in Txs, TypeOK', TxInv(t)',
         UNCHANGED <<rowVars, overtaken>>,
         \A s \in Txs \ {t} : tx'[s] = tx[s],
         \A r \in Rows : rowLock[r] \in Txs \ {t} => rowLock'[r] = rowLock[r],
         \A s \in Txs \ {t} : Creating(s) /\ Running(t)' => tx'[t].row # tx[s].row
  PROVE  IInv'
  <1> USE DEF IInv
  <1>1. name' = name /\ slug' = slug /\ former' = former /\ overtaken' = overtaken
    BY DEF rowVars
  <1>2. RowsInv' /\ OneRowPerSlug'
    BY <1>1 DEF RowsInv, OneRowPerSlug, Kin
  <1>3. ASSUME NEW s \in Txs \ {t}
        PROVE  TxInv(s)'
    <2>1. tx'[s] = tx[s] /\ TxInv(s)
      OBVIOUS
    <2>2. Shape(s)'
      BY <2>1 DEF TxInv, Shape, Running
    <2>3. CreateInv(s)'
      <3>1. SUFFICES ASSUME Creating(s)'
                     PROVE  CreateInv(s)'
        BY DEF CreateInv
      <3>2. Creating(s)
        BY <2>1, <3>1 DEF Creating, Running
      <3>3. slug[tx[s].row] = None /\ tx[s].name \in Names
        BY <2>1, <3>2 DEF TxInv, CreateInv
      <3>4. \A u \in Txs \ {s} : Running(u)' => tx'[u].row # tx'[s].row
        <4>1. \A u \in Txs \ {s} : Running(u) => tx[u].row # tx[s].row
          BY <2>1, <3>2 DEF TxInv, CreateInv
        <4>2. QED
          BY <2>1, <3>2, <4>1 DEF Running
      <3>5. QED
        BY <1>1, <2>1, <3>3, <3>4 DEF CreateInv
    <2>4. UpdateInv(s)'
      <3>1. SUFFICES ASSUME tx[s].renames, tx[s].pc \notin {"idle", "lock"}
                     PROVE  rowLock'[tx[s].row] = s /\ slug[tx[s].row] # None
        BY <1>1, <2>1 DEF UpdateInv
      <3>2. rowLock[tx[s].row] = s /\ slug[tx[s].row] # None /\ tx[s].row \in Rows
        BY <2>1, <3>1 DEF TxInv, UpdateInv, Shape, Running
      <3>3. QED
        BY <3>2
    <2>5. SearchInv(s)' /\ WriteInv(s)'
      BY <1>1, <2>1 DEF TxInv, SearchInv, WriteInv, Searching, Candidate, Kin
    <2>6. QED
      BY <2>2, <2>3, <2>4, <2>5 DEF TxInv
  <1>4. QED
    BY <1>2, <1>3

\* A transaction that ends without a commit.
LEMMA RollbackStep ==
  ASSUME IInv, NEW t \in Txs, Rollback(t)
  PROVE  IInv'
  <1> USE DEF IInv
  <1>1. tx' = [tx EXCEPT ![t] = Idle]
    BY DEF Rollback, Finish, Goto
  <1>2. rowLock' = [r \in Rows |-> IF rowLock[r] = t THEN None ELSE rowLock[r]]
    BY DEF Rollback, Finish
  <1>3. UNCHANGED <<rowVars, requests, overtaken>>
    BY DEF Rollback
  <1>4. TypeOK'
    BY <1>1, <1>2, <1>3, IdleFields DEF TypeOK, rowVars
  <1>5. tx'[t] = Idle /\ \A s \in Txs \ {t} : tx'[s] = tx[s]
    BY <1>1 DEF TypeOK
  <1>6. TxInv(t)'
    BY <1>5, IdleFields
       DEF TxInv, Shape, Running, CreateInv, Creating, UpdateInv, SearchInv, Searching, WriteInv
  <1>7. \A r \in Rows : rowLock[r] \in Txs \ {t} => rowLock'[r] = rowLock[r]
    BY <1>2
  <1>8. ~Running(t)'
    BY <1>5, IdleFields DEF Running
  <1>9. QED
    BY <1>3, <1>4, <1>5, <1>6, <1>7, <1>8, LocalStep

\* A request begins; what it is to do is in record.
LEMMA BeginStep ==
  ASSUME IInv, NEW t \in Txs, NEW record \in TxState, Begin(t, record), TxInv(t)',
         \A s \in Txs \ {t} : Creating(s) => record.row # tx[s].row
  PROVE  IInv'
  <1> USE DEF IInv
  <1>1. tx' = [tx EXCEPT ![t] = record]
    BY DEF Begin, Goto
  <1>2. UNCHANGED <<rowVars, rowLock, overtaken>>
    BY DEF Begin
  <1>3. requests' \in 0 .. MaxRequests
    BY BoundAssumption DEF Begin, TypeOK
  <1>4. TypeOK'
    BY <1>1, <1>2, <1>3 DEF TypeOK, rowVars
  <1>5. tx'[t] = record /\ \A s \in Txs \ {t} : tx'[s] = tx[s]
    BY <1>1 DEF TypeOK
  <1>6. QED
    BY <1>2, <1>4, <1>5, LocalStep

\* The record of a request that looks for the n-th slug of its name.
LEMMA TryFacts ==
  ASSUME NEW record \in TxState, NEW n \in Nat \ {0}
  PROVE  /\ Try(record, n) \in TxState
         /\ Try(record, n).pc = "current" /\ Try(record, n).n = n
         /\ Try(record, n).free = Unclaimed(Kin(record.row), record, n)
         /\ Try(record, n).row = record.row /\ Try(record, n).name = record.name
         /\ Try(record, n).renames = record.renames
         /\ Try(record, n).category = record.category
         /\ Try(record, n).slug = record.slug
  <1>1. Unclaimed(Kin(record.row), record, n) \in BOOLEAN
    BY DEF Unclaimed
  <1>2. QED
    BY <1>1 DEF Try, TxState

\* A request that begins to look for a slug, on a row it creates or holds.
LEMMA TryKeepsTx ==
  ASSUME TypeOK, NEW t \in Txs, NEW record \in TxState, NEW n \in Nat \ {0},
         UNCHANGED <<rowVars, overtaken>>, tx'[t] = Try(record, n),
         record.row \in Rows, record.category # None => record.row \in Products,
         record.slug = None,
         record.name \in Names, n \in 1 .. Len(SlugOf[record.name]),
         record.renames => rowLock'[record.row] = t /\ slug[record.row] # None,
         ~record.renames => /\ slug[record.row] = None
                            /\ \A s \in Txs \ {t} : Running(s)' => tx'[s].row # record.row
  PROVE  TxInv(t)'
  <1> DEFINE r == record.row
             sought == SlugOf[record.name][n]
  <1>1. /\ tx'[t].pc = "current" /\ tx'[t].n = n
        /\ tx'[t].free = Unclaimed(Kin(r), record, n)
        /\ tx'[t].row = r /\ tx'[t].name = record.name /\ tx'[t].renames = record.renames
        /\ tx'[t].category = record.category /\ tx'[t].slug = record.slug
    BY TryFacts
  <1>2. slug' = slug /\ former' = former
    BY DEF rowVars
  <1>3. Shape(t)'
    BY <1>1 DEF Shape, Running
  <1>4. CreateInv(t)'
    BY <1>1, <1>2 DEF CreateInv, Creating
  <1>5. UpdateInv(t)'
    BY <1>1, <1>2 DEF UpdateInv
  <1>6. SearchInv(t)'
    <2>1. Candidate(t)' = sought
      BY <1>1 DEF Candidate
    <2>2. ~tx'[t].free =>
            \E q \in Kin(r) \ {r} : slug[q] = sought \/ sought \in former[q]
      BY <1>1 DEF Unclaimed
    <2>3. Kin(tx[t].row)' = Kin(r)
      BY <1>1 DEF Kin
    <2>4. QED
      BY <1>1, <1>2, <2>1, <2>2, <2>3 DEF SearchInv
  <1>7. WriteInv(t)'
    BY <1>1 DEF WriteInv
  <1>8. QED
    BY <1>3, <1>4, <1>5, <1>6, <1>7 DEF TxInv

-----------------------------------------------------------------------------
(* Requests begin                                                          *)

LEMMA BeginCreateCategoryStep ==
  ASSUME IInv, NEW t \in Txs, NEW c \in Categories, NEW x \in Names,
         BeginCreateCategory(t, c, x)
  PROVE  IInv'
  <1> DEFINE record == [Idle EXCEPT !.pc = "name", !.row = c, !.name = x]
  <1>1. record \in TxState
    BY IdleFields DEF TxState, Rows
  <1>1a. /\ record.pc = "name" /\ record.row = c /\ record.name = x
         /\ record.renames = FALSE /\ record.category = None /\ record.slug = None
    BY DEF Idle
  <1> HIDE DEF record
  <1>2. Begin(t, record) /\ Fresh(c)
    BY DEF BeginCreateCategory, record
  <1>3. tx'[t] = record /\ \A s \in Txs \ {t} : tx'[s] = tx[s]
    BY <1>2 DEF Begin, Goto, IInv, TypeOK
  <1>4. slug' = slug
    BY <1>2 DEF Begin, rowVars
  <1>5. slug[c] = None /\ \A s \in Txs : tx[s].row # c
    BY <1>2 DEF Fresh, Exists
  <1>6. Shape(t)'
    BY <1>1a, <1>3 DEF Shape, Running, Rows
  <1>7. CreateInv(t)'
    BY <1>1a, <1>3, <1>4, <1>5 DEF CreateInv, Running
  <1>8. UpdateInv(t)' /\ SearchInv(t)' /\ WriteInv(t)'
    BY <1>1a, <1>3 DEF UpdateInv, SearchInv, Searching, WriteInv
  <1>9. QED
    BY <1>1, <1>1a, <1>2, <1>5, <1>6, <1>7, <1>8, BeginStep DEF TxInv

\* A request that is to lock a row that is there, or to delete it.
LEMMA BeginKnownRow ==
  ASSUME IInv, NEW t \in Txs, NEW record \in TxState, Begin(t, record),
         record.row \in Rows, Exists(record.row), record.slug = None,
         record.category # None => record.row \in Products,
         \/ record.pc = "lock" /\ record.renames
         \/ record.pc = "delete" /\ ~record.renames /\ record.row \in Categories
  PROVE  IInv'
  <1>1. tx'[t] = record
    BY DEF Begin, Goto, IInv, TypeOK
  <1>2. Shape(t)'
    BY <1>1 DEF Shape, Running
  <1>3. CreateInv(t)' /\ SearchInv(t)' /\ WriteInv(t)'
    BY <1>1 DEF CreateInv, Creating, SearchInv, Searching, WriteInv
  <1>4. UpdateInv(t)'
    BY <1>1 DEF UpdateInv
  <1>5. \A s \in Txs \ {t} : Creating(s) => record.row # tx[s].row
    BY DEF IInv, TxInv, CreateInv, Exists
  <1>6. QED
    BY <1>2, <1>3, <1>4, <1>5, BeginStep DEF TxInv

LEMMA BeginUpdateCategoryStep ==
  ASSUME IInv, NEW t \in Txs, NEW c \in Categories, NEW x \in Names,
         BeginUpdateCategory(t, c, x)
  PROVE  IInv'
  <1> DEFINE record == [Idle EXCEPT !.pc = "lock", !.row = c, !.renames = TRUE, !.name = x]
  <1>1. record \in TxState
    BY IdleFields DEF TxState, Rows
  <1>2. /\ record.pc = "lock" /\ record.row = c /\ record.renames = TRUE
        /\ record.category = None /\ record.slug = None
    BY DEF Idle
  <1>3. Exists(c) /\ Begin(t, record) /\ c \in Rows
    BY DEF BeginUpdateCategory, Rows
  <1> HIDE DEF record
  <1>4. QED
    BY <1>1, <1>2, <1>3, BeginKnownRow

LEMMA BeginDeleteCategoryStep ==
  ASSUME IInv, NEW t \in Txs, NEW c \in Categories, BeginDeleteCategory(t, c)
  PROVE  IInv'
  <1> DEFINE record == [Idle EXCEPT !.pc = "delete", !.row = c]
  <1>1. record \in TxState
    BY IdleFields DEF TxState, Rows
  <1>2. /\ record.pc = "delete" /\ record.row = c /\ record.renames = FALSE
        /\ record.category = None /\ record.slug = None
    BY DEF Idle
  <1>3. Exists(c) /\ Begin(t, record) /\ c \in Rows
    BY DEF BeginDeleteCategory, Rows
  <1> HIDE DEF record
  <1>4. QED
    BY <1>1, <1>2, <1>3, BeginKnownRow

LEMMA BeginUpdateProductStep ==
  ASSUME IInv, NEW t \in Txs, NEW p \in Products, NEW x \in Names \cup {None},
         NEW c \in Categories \cup {None}, BeginUpdateProduct(t, p, x, c)
  PROVE  IInv'
  <1> DEFINE record == [Idle EXCEPT !.pc = "lock", !.row = p, !.renames = TRUE,
                                    !.name = x, !.category = c]
  <1>1. record \in TxState
    BY IdleFields DEF TxState, Rows
  <1>2. /\ record.pc = "lock" /\ record.row = p /\ record.renames = TRUE
        /\ record.slug = None
    BY DEF Idle
  <1>3. Exists(p) /\ Begin(t, record) /\ p \in Rows
    BY DEF BeginUpdateProduct, Rows
  <1> HIDE DEF record
  <1>4. QED
    BY <1>1, <1>2, <1>3, BeginKnownRow

LEMMA BeginCreateProductStep ==
  ASSUME IInv, NEW t \in Txs, NEW p \in Products, NEW x \in Names,
         NEW c \in Categories \cup {None}, BeginCreateProduct(t, p, x, c)
  PROVE  IInv'
  <1> DEFINE record == [Idle EXCEPT !.row = p, !.name = x, !.category = c]
  <1>1. record \in TxState
    BY IdleFields DEF TxState, Rows
  <1>2. record.row = p /\ record.name = x /\ record.renames = FALSE /\ record.slug = None
    BY DEF Idle
  <1>3. Begin(t, Try(record, 1)) /\ Fresh(p) /\ p \in Rows
    BY DEF BeginCreateProduct, Rows
  <1> HIDE DEF record
  <1>4. tx'[t] = Try(record, 1) /\ \A s \in Txs \ {t} : tx'[s] = tx[s]
    BY <1>3 DEF Begin, Goto, IInv, TypeOK
  <1>5. UNCHANGED <<rowVars, overtaken>>
    BY <1>3 DEF Begin
  <1>6. slug[p] = None /\ \A s \in Txs : tx[s].row # p
    BY <1>3 DEF Fresh, Exists
  <1>7. TxInv(t)'
    BY <1>1, <1>2, <1>3, <1>4, <1>5, <1>6, Suffixes, TryKeepsTx DEF IInv
  <1>8. Try(record, 1) \in TxState /\ Try(record, 1).row = p
    BY <1>1, <1>2, TryFacts
  <1>9. QED
    BY <1>3, <1>6, <1>7, <1>8, BeginStep

-----------------------------------------------------------------------------
(* Statements                                                              *)

\* A request goes on with its row: what it held, and holds from now on.
LEMMA StatementStep ==
  ASSUME IInv, NEW t \in Txs, NEW record \in TxState, Goto(t, record), TxInv(t)',
         UNCHANGED <<rowVars, requests, overtaken>>,
         Running(t), record.row = tx[t].row,
         \/ rowLock' = rowLock
         \/ tx[t].row \in Rows /\ rowLock[tx[t].row] = None /\ rowLock' = [rowLock EXCEPT ![tx[t].row] = t]
  PROVE  IInv'
  <1> USE DEF IInv
  <1>1. tx' = [tx EXCEPT ![t] = record]
    BY DEF Goto
  <1>2. rowLock' \in [Rows -> Txs \cup {None}]
    BY DEF TypeOK
  <1>3. TypeOK'
    BY <1>1, <1>2 DEF TypeOK, rowVars
  <1>4. tx'[t] = record /\ \A s \in Txs \ {t} : tx'[s] = tx[s]
    BY <1>1 DEF TypeOK
  <1>5. \A r \in Rows : rowLock[r] \in Txs \ {t} => rowLock'[r] = rowLock[r]
    BY ModelValues DEF TypeOK
  <1>6. \A s \in Txs \ {t} : Creating(s) => tx[t].row # tx[s].row
    BY DEF TxInv, CreateInv
  <1>7. QED
    BY <1>3, <1>4, <1>5, <1>6, LocalStep

\* Renamed leaves the request to look for a slug, or to write without one.
LEMMA RenamedKeepsTx ==
  ASSUME IInv, NEW t \in Txs, tx'[t] = Renamed(t), tx[t].pc \in {"lock", "name"},
         UNCHANGED <<rowVars, overtaken>>, \A s \in Txs \ {t} : tx'[s] = tx[s],
         tx[t].renames => rowLock'[tx[t].row] = t /\ slug[tx[t].row] # None
  PROVE  Renamed(t) \in TxState /\ Renamed(t).row = tx[t].row /\ TxInv(t)'
  <1>1. TypeOK /\ Shape(t) /\ CreateInv(t) /\ tx[t] \in TxState
    BY DEF IInv, TxInv, TypeOK
  <1>2. tx[t].row \in Rows /\ tx[t].slug = None /\ (tx[t].category # None => tx[t].row \in Products)
    BY <1>1 DEF Shape, Running
  <1>3. CASE Renamed(t) = Try(tx[t], 1) /\ tx[t].name \in Names
    <2>1. ~tx[t].renames => /\ slug[tx[t].row] = None
                            /\ \A s \in Txs \ {t} : Running(s)' => tx'[s].row # tx[t].row
      BY <1>1 DEF CreateInv, Creating, Running
    <2>2. 1 \in 1 .. Len(SlugOf[tx[t].name])
      BY <1>3, Suffixes
    <2>3. TxInv(t)'
      BY <1>1, <1>2, <1>3, <2>1, <2>2, TryKeepsTx
    <2>4. QED
      BY <1>1, <1>3, <2>3, TryFacts
  <1>4. CASE Renamed(t) = [tx[t] EXCEPT !.pc = "write"] /\ tx[t].renames
    <2> DEFINE record == [tx[t] EXCEPT !.pc = "write"]
    <2>1. /\ record \in TxState /\ record.row = tx[t].row /\ record.pc = "write"
          /\ record.renames = tx[t].renames /\ record.slug = tx[t].slug
          /\ record.category = tx[t].category
      BY <1>1 DEF TxState
    <2>1a. tx'[t] = record /\ Renamed(t) = record
      BY <1>4
    <2> HIDE DEF record
    <2>2. slug' = slug
      BY DEF rowVars
    <2>3. TxInv(t)'
      BY <1>2, <1>4, <2>1, <2>1a, <2>2
         DEF TxInv, Shape, Running, CreateInv, Creating, UpdateInv, SearchInv, Searching, WriteInv
    <2>4. QED
      BY <2>1, <2>1a, <2>3
  <1>5. tx[t].name \in Names \/ (tx[t].renames /\ tx[t].name = None)
    BY <1>1, TxFields DEF CreateInv, Creating, Running
  <1>6. QED
    BY <1>3, <1>4, <1>5, ModelValues DEF Renamed

LEMMA LockRowStep ==
  ASSUME IInv, NEW t \in Txs, LockRow(t)
  PROVE  IInv'
  <1> DEFINE r == tx[t].row
  <1>1. TypeOK /\ Shape(t) /\ tx[t] \in TxState
    BY DEF IInv, TxInv, TypeOK
  <1>2. /\ tx[t].pc = "lock" /\ rowLock[r] = None /\ slug[r] # None
        /\ rowLock' = [rowLock EXCEPT ![r] = t]
        /\ UNCHANGED <<rowVars, requests, overtaken>>
    BY DEF LockRow, Exists
  <1>3. r \in Rows /\ tx[t].renames /\ Running(t)
    BY <1>1, <1>2 DEF Shape, Running
  <1>4. rowLock'[r] = t
    BY <1>1, <1>2, <1>3 DEF TypeOK
  <1>5. CASE r \in Products \ Categories
    <2>1. Goto(t, Renamed(t))
      BY <1>5 DEF LockRow
    <2>2. tx'[t] = Renamed(t) /\ \A s \in Txs \ {t} : tx'[s] = tx[s]
      BY <1>1, <2>1 DEF Goto, TypeOK
    <2>3. Renamed(t) \in TxState /\ Renamed(t).row = r /\ TxInv(t)'
      BY <1>2, <1>4, <2>2, RenamedKeepsTx
    <2>4. QED
      BY <1>2, <1>3, <2>1, <2>3, StatementStep
  <1>6. CASE r \in Categories
    <2> DEFINE record == [tx[t] EXCEPT !.pc = "name"]
    <2>1. Goto(t, record)
      BY <1>6 DEF LockRow
    <2>2. /\ record \in TxState /\ record.pc = "name" /\ record.row = r
          /\ record.renames = tx[t].renames /\ record.slug = tx[t].slug
          /\ record.category = tx[t].category
      BY <1>1 DEF TxState
    <2>3. tx'[t] = record
      BY <1>1, <2>1 DEF Goto, TypeOK
    <2> HIDE DEF record
    <2>4. slug' = slug
      BY <1>2 DEF rowVars
    <2>5. TxInv(t)'
      BY <1>1, <1>2, <1>3, <1>4, <2>2, <2>3, <2>4
         DEF TxInv, Shape, Running, CreateInv, Creating, UpdateInv, SearchInv, Searching, WriteInv
    <2>6. QED
      BY <1>2, <1>3, <2>1, <2>2, <2>5, StatementStep
  <1>7. QED
    BY <1>3, <1>5, <1>6 DEF Rows

LEMMA CheckNameStep ==
  ASSUME IInv, NEW t \in Txs, CheckName(t)
  PROVE  IInv'
  <1>1. TypeOK /\ UpdateInv(t)
    BY DEF IInv, TxInv
  <1>2. /\ tx[t].pc = "name" /\ Goto(t, Renamed(t))
        /\ rowLock' = rowLock /\ UNCHANGED <<rowVars, requests, overtaken>>
    BY DEF CheckName
  <1>3. tx'[t] = Renamed(t) /\ \A s \in Txs \ {t} : tx'[s] = tx[s]
    BY <1>1, <1>2 DEF Goto, TypeOK
  <1>4. tx[t].renames => rowLock'[tx[t].row] = t /\ slug[tx[t].row] # None
    BY <1>1, <1>2 DEF UpdateInv
  <1>5. Renamed(t) \in TxState /\ Renamed(t).row = tx[t].row /\ TxInv(t)'
    BY <1>2, <1>3, <1>4, RenamedKeepsTx
  <1>6. QED
    BY <1>2, <1>5, StatementStep DEF Running

LEMMA CheckCandidateStep ==
  ASSUME IInv, NEW t \in Txs, CheckCandidate(t)
  PROVE  IInv'
  <1> DEFINE r == tx[t].row
             x == tx[t].name
             n == tx[t].n
  <1>1. TypeOK /\ tx[t] \in TxState /\ Shape(t) /\ CreateInv(t) /\ UpdateInv(t) /\ SearchInv(t)
    BY DEF IInv, TxInv, TypeOK
  <1>2. /\ Searching(t) /\ rowLock' = rowLock /\ UNCHANGED <<rowVars, requests, overtaken>>
        /\ Taken(t) => n < Len(SlugOf[x])
    BY DEF CheckCandidate
  <1>3. /\ tx[t].pc \in {"current", "former"} /\ Running(t) /\ r \in Rows /\ tx[t].slug = None
        /\ tx[t].category # None => r \in Products
    BY <1>1, <1>2 DEF Searching, Running, Shape
  <1>4. x \in Names /\ n \in 1 .. Len(SlugOf[x]) /\ Candidate(t) \in Slugs
    BY <1>1, <1>2, Suffixes DEF SearchInv, Candidate
  <1>5. slug' = slug /\ former' = former /\ overtaken' = overtaken
    BY <1>2 DEF rowVars
  <1>6. tx[t].renames => rowLock'[r] = t /\ slug[r] # None
    BY <1>1, <1>2, <1>3 DEF UpdateInv
  <1>7. ~tx[t].renames => /\ slug[r] = None
                          /\ \A s \in Txs \ {t} : Running(s) => tx[s].row # r
    BY <1>1, <1>3 DEF CreateInv, Creating
  <1>8. CASE Taken(t)
    <2>1. Goto(t, Try(tx[t], n + 1))
      BY <1>8 DEF CheckCandidate
    <2>2. tx'[t] = Try(tx[t], n + 1) /\ \A s \in Txs \ {t} : tx'[s] = tx[s]
      BY <1>1, <2>1 DEF Goto, TypeOK
    <2>3. n + 1 \in Nat \ {0} /\ n + 1 \in 1 .. Len(SlugOf[x])
      BY <1>2, <1>4, <1>8, Suffixes
    <2>4. Try(tx[t], n + 1) \in TxState /\ Try(tx[t], n + 1).row = r
      BY <1>1, <2>3, TryFacts
    <2>5. ~tx[t].renames => \A s \in Txs \ {t} : Running(s)' => tx'[s].row # r
      BY <1>7, <2>2 DEF Running
    <2>6. TxInv(t)'
      BY <1>1, <1>2, <1>3, <1>4, <1>6, <1>7, <2>2, <2>3, <2>5, TryKeepsTx
    <2>7. QED
      BY <1>2, <1>3, <2>1, <2>4, <2>6, StatementStep
  <1>9. CASE ~Taken(t) /\ tx[t].pc = "current"
    <2> DEFINE record == [tx[t] EXCEPT !.pc = "former"]
    <2>1. Goto(t, record)
      BY <1>9 DEF CheckCandidate
    <2>2. /\ record \in TxState /\ record.pc = "former" /\ record.row = r
          /\ record.name = x /\ record.n = n /\ record.free = tx[t].free
          /\ record.renames = tx[t].renames /\ record.slug = tx[t].slug
          /\ record.category = tx[t].category
      BY <1>1 DEF TxState
    <2>3. tx'[t] = record /\ \A s \in Txs \ {t} : tx'[s] = tx[s]
      BY <1>1, <2>1 DEF Goto, TypeOK
    <2> HIDE DEF record
    <2>4. \A q \in Kin(r) \ {r} : slug[q] # Candidate(t)
      BY <1>9 DEF Taken, Current
    <2>5. SearchInv(t)'
      <3>1. Candidate(t)' = Candidate(t) /\ Kin(tx[t].row)' = Kin(r)
        BY <2>2, <2>3 DEF Candidate, Kin
      <3>2. ~overtaken /\ ~tx[t].free => \E q \in Kin(r) \ {r} : Candidate(t) \in former[q]
        BY <1>1, <1>2, <2>4 DEF SearchInv
      <3>3. QED
        BY <1>4, <1>5, <2>2, <2>3, <3>1, <3>2 DEF SearchInv
    <2>6. Shape(t)' /\ UpdateInv(t)' /\ WriteInv(t)'
      BY <1>3, <1>5, <1>6, <2>2, <2>3 DEF Shape, Running, UpdateInv, WriteInv
    <2>7. CreateInv(t)'
      BY <1>4, <1>5, <1>7, <2>2, <2>3 DEF CreateInv, Creating, Running
    <2>8. QED
      BY <1>2, <1>3, <2>1, <2>2, <2>5, <2>6, <2>7, StatementStep DEF TxInv
  <1>10. CASE ~Taken(t) /\ tx[t].pc = "former"
    <2> DEFINE record == [tx[t] EXCEPT !.pc = "write", !.slug = Candidate(t)]
    <2>1. Goto(t, record)
      BY <1>10 DEF CheckCandidate
    <2>2. /\ record \in TxState /\ record.pc = "write" /\ record.row = r
          /\ record.name = x /\ record.free = tx[t].free
          /\ record.renames = tx[t].renames
          /\ record.category = tx[t].category
      BY <1>1, <1>4 DEF TxState
    <2>3. tx'[t] = record /\ \A s \in Txs \ {t} : tx'[s] = tx[s]
      BY <1>1, <2>1 DEF Goto, TypeOK
    <2> HIDE DEF record
    <2>4. \A q \in Kin(r) : Candidate(t) \notin former[q]
      BY <1>10 DEF Taken, Former
    <2>5. tx[t].free \/ overtaken
      BY <1>1, <1>2, <1>10, <2>4 DEF SearchInv
    <2>6. Shape(t)' /\ UpdateInv(t)' /\ WriteInv(t)' /\ SearchInv(t)'
      BY <1>3, <1>5, <1>6, <2>2, <2>3, <2>5
         DEF Shape, Running, UpdateInv, WriteInv, SearchInv, Searching
    <2>7. CreateInv(t)'
      BY <1>4, <1>5, <1>7, <2>2, <2>3 DEF CreateInv, Creating, Running
    <2>8. QED
      BY <1>2, <1>3, <2>1, <2>2, <2>6, <2>7, StatementStep DEF TxInv
  <1>11. QED
    BY <1>3, <1>8, <1>9, <1>10

-----------------------------------------------------------------------------
(* Writes                                                                  *)

\* What the commit of WriteRow changes: the row r of t, which gets the slug s.
LEMMA WriteFacts ==
  ASSUME IInv, NEW t \in Txs, WriteRow(t)
  PROVE  LET r == tx[t].row   s == tx[t].slug
         IN /\ r \in Rows /\ tx[t].pc = "write"
            /\ slug'[r] = (IF s = None THEN slug[r] ELSE s)
            /\ former' \in [Rows -> SUBSET Slugs]
            /\ \A q \in Rows \ {r} : slug'[q] = slug[q] /\ former'[q] = former[q]
            /\ \/ former' = former
               \/ /\ former'[r] = former[r] \cup {slug[r]}
                  /\ s # None /\ \A q \in Kin(r) : slug[r] \notin former[q]
            /\ s # None /\ slug[r] # None => \E q \in Kin(r) : slug[r] \in former'[q]
            /\ s # None => \A q \in Kin(r) \ {r} : slug[q] # s
            /\ ~overtaken' => /\ ~overtaken
                              /\ s # None => \A q \in Kin(r) \ {r} : s \notin former[q]
            /\ slug[r] # None => slug'[r] # None
  <1> DEFINE r == tx[t].row
             s == tx[t].slug
             old == slug[r]
  <1>1. TypeOK /\ Shape(t) /\ CreateInv(t) /\ UpdateInv(t) /\ WriteInv(t)
    BY DEF IInv, TxInv
  <1>2. /\ tx[t].pc = "write" /\ ~Refused(t)
        /\ slug' = [slug EXCEPT ![r] = IF s = None THEN @ ELSE s]
        /\ former' = Archived(t)
        /\ overtaken' = (overtaken \/ (tx[t].free /\ s # None /\ Former(Kin(r) \ {r}, s) # {}))
    BY DEF WriteRow, Admitted
  <1>3. r \in Rows /\ Running(t)
    BY <1>1, <1>2 DEF Shape, Running
  <1>4. /\ slug'[r] = (IF s = None THEN slug[r] ELSE s)
        /\ \A q \in Rows \ {r} : slug'[q] = slug[q]
    BY <1>1, <1>2, <1>3 DEF TypeOK
  <1>5. tx[t].renames => old \in Slugs
    BY <1>1, <1>2, <1>3 DEF UpdateInv, TypeOK
  <1>6. old # None => tx[t].renames
    BY <1>1, <1>2, <1>3 DEF CreateInv, Creating
  <1>7. s # None => \A q \in Kin(r) \ {r} : slug[q] # s
    BY <1>2 DEF Refused, Current
  <1>8. ~overtaken' => /\ ~overtaken
                       /\ s # None => \A q \in Kin(r) \ {r} : s \notin former[q]
    BY <1>1, <1>2 DEF WriteInv, Former
  <1>9. slug[r] # None => slug'[r] # None
    BY <1>4
  <1>10. /\ former' \in [Rows -> SUBSET Slugs]
         /\ \A q \in Rows \ {r} : former'[q] = former[q]
         /\ \/ former' = former
            \/ /\ former'[r] = former[r] \cup {old}
               /\ s # None /\ \A q \in Kin(r) : old \notin former[q]
         /\ s # None /\ old # None => \E q \in Kin(r) : old \in former'[q]
    <2>1. CASE tx[t].renames /\ s # None /\ Former(Kin(r), old) = {}
      <3>1. former' = [former EXCEPT ![r] = @ \cup {old}]
        BY <1>2, <2>1 DEF Archived
      <3>2. former' \in [Rows -> SUBSET Slugs] /\ former'[r] = former[r] \cup {old}
        BY <1>1, <1>3, <1>5, <2>1, <3>1 DEF TypeOK
      <3>3. \A q \in Rows \ {r} : former'[q] = former[q]
        BY <1>1, <3>1 DEF TypeOK
      <3>4. \A q \in Kin(r) : old \notin former[q]
        BY <2>1 DEF Former
      <3>5. QED
        BY <1>3, <2>1, <3>2, <3>3, <3>4, KinFacts
    <2>2. CASE ~(tx[t].renames /\ s # None /\ Former(Kin(r), old) = {})
      <3>1. former' = former
        BY <1>2, <2>2 DEF Archived
      <3>2. s # None /\ old # None => \E q \in Kin(r) : old \in former[q]
        BY <1>6, <2>2 DEF Former
      <3>3. QED
        BY <1>1, <3>1, <3>2 DEF TypeOK
    <2>3. QED
      BY <2>1, <2>2
  <1>11. QED
    BY <1>2, <1>3, <1>4, <1>7, <1>8, <1>9, <1>10

LEMMA WriteRowStep ==
  ASSUME IInv, NEW t \in Txs, WriteRow(t)
  PROVE  IInv'
  <1> DEFINE r == tx[t].row
             s == tx[t].slug
             c == tx[t].category
  <1>1. TypeOK /\ RowsInv /\ OneRowPerSlug /\ Shape(t) /\ CreateInv(t)
    BY DEF IInv, TxInv
  <1>2. /\ r \in Rows /\ tx[t].pc = "write"
        /\ slug'[r] = (IF s = None THEN slug[r] ELSE s)
        /\ former' \in [Rows -> SUBSET Slugs]
        /\ \A q \in Rows \ {r} : slug'[q] = slug[q] /\ former'[q] = former[q]
        /\ \/ former' = former
           \/ /\ former'[r] = former[r] \cup {slug[r]}
              /\ s # None /\ \A q \in Kin(r) : slug[r] \notin former[q]
        /\ s # None /\ slug[r] # None => \E q \in Kin(r) : slug[r] \in former'[q]
        /\ s # None => \A q \in Kin(r) \ {r} : slug[q] # s
        /\ ~overtaken' => /\ ~overtaken
                          /\ s # None => \A q \in Kin(r) \ {r} : s \notin former[q]
        /\ slug[r] # None => slug'[r] # None
    BY WriteFacts
  <1>3. /\ tx' = [tx EXCEPT ![t] = Idle]
        /\ rowLock' = [q \in Rows |-> IF rowLock[q] = t THEN None ELSE rowLock[q]]
        /\ slug' = [slug EXCEPT ![r] = IF s = None THEN @ ELSE s]
        /\ name' = [name EXCEPT ![r] = IF tx[t].name = None THEN @ ELSE tx[t].name]
        /\ assigned' = IF c = None THEN assigned ELSE [assigned EXCEPT ![r] = c]
        /\ overtaken' \in BOOLEAN /\ requests' = requests
    BY DEF WriteRow, Finish, Goto
  <1>4. tx'[t] = Idle /\ \A u \in Txs \ {t} : tx'[u] = tx[u]
    BY <1>1, <1>3 DEF TypeOK
  <1>5. TypeOK'
    <2>1. /\ s \in Slugs \cup {None} /\ tx[t].name \in Names \cup {None}
          /\ c \in Categories \cup {None}
      BY <1>1, TxFields
    <2>2. slug' \in [Rows -> Slugs \cup {None}] /\ name' \in [Rows -> Names \cup {None}]
      BY <1>1, <1>2, <1>3, <2>1 DEF TypeOK
    <2>3. assigned' \in [Products -> Categories \cup {None}]
      BY <1>1, <1>3, <2>1 DEF TypeOK
    <2>4. tx' \in [Txs -> TxState] /\ rowLock' \in [Rows -> Txs \cup {None}]
      BY <1>1, <1>3, IdleFields DEF TypeOK
    <2>5. QED
      BY <1>1, <1>2, <1>3, <2>2, <2>3, <2>4 DEF TypeOK
  <1>6. RowsInv'
    <2>1. ASSUME NEW a \in Rows, NEW b \in Kin(a) \ {a}
          PROVE  /\ slug'[a] # None => slug'[a] # slug'[b]
                 /\ former'[a] \cap former'[b] = {}
      <3>1. b \in Rows /\ Kin(b) = Kin(a) /\ a \in Kin(a) /\ b \in Kin(a)
        BY <2>1, KinFacts
      <3>2. /\ slug[a] # None => slug[a] # slug[b]
            /\ slug[b] # None => slug[a] # slug[b]
            /\ former[a] \cap former[b] = {}
        BY <1>1, <2>1, <3>1 DEF RowsInv
      <3>3. slug'[a] # None => slug'[a] # slug'[b]
        BY <1>2, <2>1, <3>1, <3>2
      <3>4. former'[a] \cap former'[b] = {}
        BY <1>2, <2>1, <3>1, <3>2
      <3>5. QED
        BY <3>3, <3>4
    <2>2. ASSUME NEW q \in Rows, slug'[q] = None
          PROVE  former'[q] = {}
      <3>1. slug[q] = None => former[q] = {}
        BY <1>1 DEF RowsInv
      <3>2. CASE q # r
        BY <1>2, <2>2, <3>1, <3>2
      <3>3. CASE q = r
        BY <1>2, <2>2, <3>1, <3>3, TxFields, <1>1, ModelValues
      <3>4. QED
        BY <3>2, <3>3
    <2>3. QED
      BY <2>1, <2>2 DEF RowsInv, Kin
  <1>7. OneRowPerSlug'
    <2>1. SUFFICES ASSUME ~overtaken', NEW a \in Rows, NEW b \in Kin(a) \ {a}
                   PROVE  /\ slug'[a] # None => slug'[a] # slug'[b] /\ slug'[a] \notin former'[b]
                          /\ former'[a] \cap former'[b] = {}
      BY DEF OneRowPerSlug, Kin
    <2>2. slug'[a] # None => slug'[a] # slug'[b]
      BY <1>6, <2>1 DEF RowsInv, Kin
    <2>3. former'[a] \cap former'[b] = {}
      BY <1>6, <2>1 DEF RowsInv, Kin
    <2>4. b \in Rows /\ Kin(b) = Kin(a) /\ a \in Kin(a) /\ b \in Kin(a)
      BY <2>1, KinFacts
    <2>5. /\ slug[a] # None => slug[a] # slug[b] /\ slug[a] \notin former[b]
          /\ slug[b] # None => slug[a] # slug[b] /\ slug[b] \notin former[a]
      BY <1>1, <1>2, <2>1, <2>4 DEF OneRowPerSlug
    <2>6. ASSUME slug'[a] # None
          PROVE  slug'[a] \notin former'[b]
      <3>1. CASE a = r
        BY <1>2, <2>1, <2>4, <2>5, <2>6, <3>1
      <3>2. CASE b = r
        <4>1. slug'[a] = slug[a] /\ slug[a] # None /\ slug[a] \notin former[b] /\ slug[a] # slug[b]
          BY <1>2, <2>1, <2>5, <2>6, <3>2
        <4>2. QED
          BY <1>2, <3>2, <4>1
      <3>3. CASE a # r /\ b # r
        BY <1>2, <2>4, <2>5, <2>6, <3>3
      <3>4. QED
        BY <3>1, <3>2, <3>3
    <2>7. QED
      BY <2>2, <2>3, <2>6
  <1>8. TxInv(t)'
    BY <1>4, IdleFields
       DEF TxInv, Shape, Running, CreateInv, Creating, UpdateInv, SearchInv, Searching, WriteInv
  <1>9. ASSUME NEW u \in Txs \ {t}
        PROVE  TxInv(u)'
    <2>1. tx'[u] = tx[u] /\ TxInv(u)
      BY <1>4 DEF IInv
    <2>2. Shape(u)'
      BY <2>1 DEF TxInv, Shape, Running
    <2>3. CreateInv(u)'
      <3>1. SUFFICES ASSUME Creating(u)
                     PROVE  CreateInv(u)'
        BY <2>1 DEF CreateInv, Creating, Running
      <3>2. /\ slug[tx[u].row] = None /\ tx[u].name \in Names
            /\ \A v \in Txs \ {u} : Running(v) => tx[v].row # tx[u].row
        BY <2>1, <3>1 DEF TxInv, CreateInv
      <3>3. tx[u].row \in Rows /\ tx[u].row # r
        BY <1>2, <2>1, <3>1, <3>2 DEF TxInv, Shape, Creating, Running
      <3>4. slug'[tx[u].row] = None
        BY <1>2, <3>2, <3>3
      <3>5. \A v \in Txs \ {u} : Running(v)' => tx'[v].row # tx[u].row
        BY <1>4, <3>2, IdleFields DEF Running
      <3>6. QED
        BY <2>1, <3>2, <3>4, <3>5 DEF CreateInv
    <2>4. UpdateInv(u)'
      <3>1. SUFFICES ASSUME tx[u].renames, tx[u].pc \notin {"idle", "lock"}
                     PROVE  rowLock'[tx[u].row] = u /\ slug'[tx[u].row] # None
        BY <2>1 DEF UpdateInv
      <3>2. rowLock[tx[u].row] = u /\ slug[tx[u].row] # None /\ tx[u].row \in Rows
        BY <2>1, <3>1 DEF TxInv, UpdateInv, Shape, Running
      <3>3. QED
        BY <1>2, <1>3, <3>2
    <2>5. SearchInv(u)'
      <3>1. SUFFICES ASSUME Searching(u)
                     PROVE  SearchInv(u)'
        BY <2>1 DEF SearchInv, Searching
      <3> DEFINE others == Kin(tx[u].row) \ {tx[u].row}
                 sought == Candidate(u)
      <3>2. /\ tx[u].name \in Names /\ tx[u].n \in 1 .. Len(SlugOf[tx[u].name])
            /\ ~overtaken /\ ~tx[u].free =>
                 \/ \E q \in others : sought \in former[q]
                 \/ tx[u].pc = "current" /\ \E q \in others : slug[q] = sought
        BY <2>1, <3>1 DEF TxInv, SearchInv
      <3>3. sought \in Slugs /\ sought # None
        BY <3>2, Suffixes, ModelValues DEF Candidate
      <3>4. tx[u].row \in Rows /\ others \subseteq Rows
        BY <2>1, <3>1, KinFacts DEF TxInv, Shape, Running, Searching
      <3>5. ASSUME ~overtaken', ~tx[u].free
            PROVE  \/ \E q \in others : sought \in former'[q]
                   \/ tx[u].pc = "current" /\ \E q \in others : slug'[q] = sought
        <4>1. ~overtaken
          BY <1>2, <3>5
        <4>2. CASE \E q \in others : sought \in former[q]
          <5>1. PICK q \in others : sought \in former[q]
            BY <4>2
          <5>2. sought \in former'[q]
            BY <1>2, <3>4, <5>1
          <5>3. QED
            BY <5>1, <5>2
        <4>3. CASE tx[u].pc = "current" /\ \E q \in others : slug[q] = sought
          <5>1. PICK q \in others : slug[q] = sought
            BY <4>3
          <5>2. CASE q # r \/ s = None
            BY <1>2, <3>4, <4>3, <5>1, <5>2
          <5>3. CASE q = r /\ s # None
            <6>1. PICK e \in Kin(r) : sought \in former'[e]
              BY <1>2, <3>3, <5>1, <5>3
            <6>2. Kin(r) = Kin(tx[u].row)
              BY <3>4, <5>1, <5>3, KinFacts
            <6>3. e # tx[u].row
              <7>1. r \in Kin(tx[u].row) \ {tx[u].row}
                BY <5>1, <5>3
              <7>2. slug[r] \notin former[tx[u].row]
                <8>1. tx[u].row \in Kin(r) \ {r}
                  BY <3>4, <6>2, <7>1, KinFacts
                <8>2. QED
                  BY <1>1, <1>2, <3>3, <4>1, <5>1, <5>3, <8>1 DEF OneRowPerSlug
              <7>3. former'[tx[u].row] = former[tx[u].row]
                BY <1>2, <3>4, <7>1
              <7>4. QED
                BY <5>1, <5>3, <6>1, <7>2, <7>3
            <6>4. QED
              BY <6>1, <6>2, <6>3
          <5>4. QED
            BY <5>2, <5>3
        <4>4. QED
          BY <3>2, <3>5, <4>1, <4>2, <4>3
      <3>6. Candidate(u)' = sought /\ Kin(tx[u].row)' = Kin(tx[u].row)
        BY <2>1 DEF Candidate, Kin
      <3>7. QED
        BY <2>1, <3>2, <3>5, <3>6 DEF SearchInv
    <2>6. WriteInv(u)'
      BY <1>2, <2>1 DEF TxInv, WriteInv
    <2>7. QED
      BY <2>2, <2>3, <2>4, <2>5, <2>6 DEF TxInv
  <1>10. QED
    BY <1>5, <1>6, <1>7, <1>8, <1>9 DEF IInv

\* What the commit of DeleteCategory changes: the row c of t is gone.
LEMMA DeleteFacts ==
  ASSUME IInv, NEW t \in Txs, DeleteCategory(t)
  PROVE  LET c == tx[t].row
         IN /\ c \in Categories /\ c \in Rows /\ rowLock[c] = None
            /\ slug'[c] = None /\ former'[c] = {}
            /\ \A q \in Rows \ {c} : slug'[q] = slug[q] /\ former'[q] = former[q]
            /\ overtaken' = overtaken /\ rowLock' = rowLock
  <1> DEFINE c == tx[t].row
  <1>1. c \in Categories /\ c \in Rows
    BY DEF IInv, TxInv, Shape, DeleteCategory, Rows
  <1>2. /\ slug' = [slug EXCEPT ![c] = None] /\ former' = [former EXCEPT ![c] = {}]
        /\ rowLock[c] = None /\ overtaken' = overtaken /\ rowLock' = rowLock
    BY DEF DeleteCategory
  <1>3. TypeOK
    BY DEF IInv
  <1>4. QED
    BY <1>1, <1>2, <1>3 DEF TypeOK

LEMMA FreedFacts ==
  ASSUME TypeOK, NEW s \in Txs, NEW c
  PROVE  /\ Freed(s, c) \in TxState
         /\ Freed(s, c).pc = tx[s].pc /\ Freed(s, c).row = tx[s].row
         /\ Freed(s, c).renames = tx[s].renames /\ Freed(s, c).name = tx[s].name
         /\ Freed(s, c).category = tx[s].category /\ Freed(s, c).n = tx[s].n
         /\ Freed(s, c).slug = tx[s].slug
         /\ tx[s].free => Freed(s, c).free
         /\ Searching(s) /\ tx[s].row \in Categories /\ ~Freed(s, c).free =>
              ~Unclaimed(Categories \ {c}, tx[s], tx[s].n)
  <1> DEFINE free == tx[s].free \/ Unclaimed(Categories \ {c}, tx[s], tx[s].n)
             record == [tx[s] EXCEPT !.free = free]
  <1>1. tx[s] \in TxState
    BY DEF TypeOK
  <1>2. free \in BOOLEAN
    OBVIOUS
  <1>3. CASE Searching(s) /\ tx[s].row \in Categories
    <2>1. Freed(s, c) = record
      BY <1>3 DEF Freed
    <2>2. record.free = free
      BY <1>1 DEF TxState
    <2>3. /\ record \in TxState
          /\ record.pc = tx[s].pc /\ record.row = tx[s].row
          /\ record.renames = tx[s].renames /\ record.name = tx[s].name
          /\ record.category = tx[s].category /\ record.n = tx[s].n
          /\ record.slug = tx[s].slug
      <3> HIDE DEF free
      <3>1. QED
        BY <1>1, <1>2 DEF TxState
    <2>4. QED
      BY <1>3, <2>1, <2>2, <2>3
  <1>4. CASE ~(Searching(s) /\ tx[s].row \in Categories)
    BY <1>1, <1>4 DEF Freed
  <1>5. QED
    BY <1>3, <1>4

LEMMA DeleteCategoryStep ==
  ASSUME IInv, NEW t \in Txs, DeleteCategory(t)
  PROVE  IInv'
  <1> DEFINE c == tx[t].row
  <1>1. TypeOK /\ RowsInv /\ OneRowPerSlug
    BY DEF IInv
  <1>2. /\ c \in Categories /\ c \in Rows /\ rowLock[c] = None
        /\ slug'[c] = None /\ former'[c] = {}
        /\ \A q \in Rows \ {c} : slug'[q] = slug[q] /\ former'[q] = former[q]
        /\ overtaken' = overtaken /\ rowLock' = rowLock
    BY DeleteFacts
  <1>3. /\ tx' = [s \in Txs |-> IF s = t THEN Idle ELSE Freed(s, c)]
        /\ slug' = [slug EXCEPT ![c] = None] /\ former' = [former EXCEPT ![c] = {}]
        /\ name' = [name EXCEPT ![c] = None] /\ requests' = requests
        /\ assigned' = [p \in Products |-> IF assigned[p] = c THEN None ELSE assigned[p]]
    BY DEF DeleteCategory
  <1>4. tx'[t] = Idle /\ \A u \in Txs \ {t} : tx'[u] = Freed(u, c)
    BY <1>3
  <1>5. TypeOK'
    <2>1. ASSUME NEW s \in Txs
          PROVE  tx'[s] \in TxState
      <3>1. CASE s = t
        BY <1>4, <3>1, IdleFields
      <3>2. CASE s # t
        BY <1>1, <1>4, <3>2, FreedFacts
      <3>3. QED
        BY <3>1, <3>2
    <2>2. tx' \in [Txs -> TxState]
      BY <1>3, <2>1
    <2>3. /\ slug' \in [Rows -> Slugs \cup {None}] /\ former' \in [Rows -> SUBSET Slugs]
          /\ name' \in [Rows -> Names \cup {None}]
          /\ assigned' \in [Products -> Categories \cup {None}]
      BY <1>1, <1>3 DEF TypeOK
    <2>4. QED
      BY <1>1, <1>2, <1>3, <2>2, <2>3 DEF TypeOK
  <1>6. RowsInv'
    <2>1. ASSUME NEW a \in Rows, NEW b \in Kin(a) \ {a}
          PROVE  /\ slug'[a] # None => slug'[a] # slug'[b]
                 /\ former'[a] \cap former'[b] = {}
      <3>1. b \in Rows
        BY KinFacts
      <3>2. /\ slug[a] # None => slug[a] # slug[b]
            /\ former[a] \cap former[b] = {}
        BY <1>1 DEF RowsInv
      <3>3. QED
        BY <1>2, <3>1, <3>2
    <2>2. \A q \in Rows : slug'[q] = None => former'[q] = {}
      BY <1>1, <1>2 DEF RowsInv
    <2>3. QED
      BY <2>1, <2>2 DEF RowsInv, Kin
  <1>7. OneRowPerSlug'
    <2>1. SUFFICES ASSUME ~overtaken', NEW a \in Rows, NEW b \in Kin(a) \ {a}
                   PROVE  /\ slug'[a] # None => slug'[a] # slug'[b] /\ slug'[a] \notin former'[b]
                          /\ former'[a] \cap former'[b] = {}
      BY DEF OneRowPerSlug, Kin
    <2>2. b \in Rows
      BY KinFacts
    <2>3. /\ slug[a] # None => slug[a] # slug[b] /\ slug[a] \notin former[b]
          /\ former[a] \cap former[b] = {}
      BY <1>1, <1>2, <2>1 DEF OneRowPerSlug
    <2>4. QED
      BY <1>2, <2>2, <2>3
  <1>8. TxInv(t)'
    BY <1>4, IdleFields
       DEF TxInv, Shape, Running, CreateInv, Creating, UpdateInv, SearchInv, Searching, WriteInv
  <1>9. ASSUME NEW u \in Txs \ {t}
        PROVE  TxInv(u)'
    <2>1. /\ TxInv(u) /\ tx'[u].pc = tx[u].pc /\ tx'[u].row = tx[u].row
          /\ tx'[u].renames = tx[u].renames /\ tx'[u].name = tx[u].name
          /\ tx'[u].category = tx[u].category /\ tx'[u].n = tx[u].n /\ tx'[u].slug = tx[u].slug
          /\ tx[u].free => tx'[u].free
          /\ Searching(u) /\ tx[u].row \in Categories /\ ~tx'[u].free =>
               ~Unclaimed(Categories \ {c}, tx[u], tx[u].n)
      BY <1>1, <1>4, FreedFacts DEF IInv
    <2>2. Shape(u)'
      BY <2>1 DEF TxInv, Shape, Running
    <2>3. CreateInv(u)'
      <3>1. SUFFICES ASSUME Creating(u)
                     PROVE  CreateInv(u)'
        BY <2>1 DEF CreateInv, Creating, Running
      <3>2. /\ slug[tx[u].row] = None /\ tx[u].name \in Names
            /\ \A v \in Txs \ {u} : Running(v) => tx[v].row # tx[u].row
        BY <2>1, <3>1 DEF TxInv, CreateInv
      <3>3. tx[u].row \in Rows
        BY <2>1, <3>1 DEF TxInv, Shape, Creating
      <3>4. slug'[tx[u].row] = None
        BY <1>2, <3>2, <3>3
      <3>5. ASSUME NEW v \in Txs \ {u}, Running(v)'
            PROVE  tx'[v].row # tx[u].row
        <4>1. v # t
          BY <1>4, <3>5, IdleFields DEF Running
        <4>2. tx'[v].row = tx[v].row /\ tx'[v].pc = tx[v].pc
          <5>1. tx'[v] = Freed(v, c)
            BY <1>4, <4>1
          <5>2. v \in Txs
            OBVIOUS
          <5>3. Freed(v, c).row = tx[v].row /\ Freed(v, c).pc = tx[v].pc
            BY <1>1, <5>2, FreedFacts
          <5>4. QED
            BY <5>1, <5>3
        <4>3. QED
          BY <3>2, <3>5, <4>2 DEF Running
      <3>6. QED
        BY <2>1, <3>2, <3>4, <3>5 DEF CreateInv
    <2>4. UpdateInv(u)'
      <3>1. SUFFICES ASSUME tx[u].renames, tx[u].pc \notin {"idle", "lock"}
                     PROVE  rowLock'[tx[u].row] = u /\ slug'[tx[u].row] # None
        BY <2>1 DEF UpdateInv
      <3>2. rowLock[tx[u].row] = u /\ slug[tx[u].row] # None /\ tx[u].row \in Rows
        BY <2>1, <3>1 DEF TxInv, UpdateInv, Shape, Running
      <3>3. QED
        BY <1>2, <3>2, ModelValues
    <2>5. SearchInv(u)'
      <3>1. SUFFICES ASSUME Searching(u)
                     PROVE  SearchInv(u)'
        BY <2>1 DEF SearchInv, Searching
      <3> DEFINE others == Kin(tx[u].row) \ {tx[u].row}
                 sought == Candidate(u)
      <3>2. /\ tx[u].name \in Names /\ tx[u].n \in 1 .. Len(SlugOf[tx[u].name])
            /\ ~overtaken /\ ~tx[u].free =>
                 \/ \E q \in others : sought \in former[q]
                 \/ tx[u].pc = "current" /\ \E q \in others : slug[q] = sought
        BY <2>1, <3>1 DEF TxInv, SearchInv
      <3>3. sought \in Slugs /\ sought # None
        BY <3>2, Suffixes, ModelValues DEF Candidate
      <3>4. tx[u].row \in Rows /\ others \subseteq Rows
        BY <2>1, <3>1, KinFacts DEF TxInv, Shape, Running, Searching
      <3>5. ASSUME ~overtaken, ~tx'[u].free
            PROVE  \/ \E q \in others : sought \in former'[q]
                   \/ tx[u].pc = "current" /\ \E q \in others : slug'[q] = sought
        <4>1. ~tx[u].free
          BY <2>1, <3>5
        <4>2. CASE tx[u].row \in Categories
          <5>1. PICK q \in (Categories \ {c}) \ {tx[u].row} : slug[q] = sought \/ sought \in former[q]
            BY <2>1, <3>1, <3>5, <4>2 DEF Unclaimed, Candidate
          <5>2. q \in others /\ q \in Rows /\ q # c
            BY <4>2, <5>1 DEF Kin, Rows
          <5>3. slug'[q] = slug[q] /\ former'[q] = former[q]
            BY <1>2, <5>2
          <5>4. CASE tx[u].pc = "current" \/ sought \in former[q]
            BY <5>1, <5>2, <5>3, <5>4
          <5>5. CASE tx[u].pc # "current" /\ slug[q] = sought
            <6>1. PICK e \in others : sought \in former[e]
              BY <3>2, <3>5, <4>1, <5>5
            <6>2. e = q \/ e \in Kin(q) \ {q}
              BY <3>4, <5>2, KinFacts
            <6>3. e = q
              BY <1>1, <3>3, <3>5, <5>2, <5>5, <6>1, <6>2 DEF OneRowPerSlug
            <6>4. QED
              BY <5>2, <5>3, <6>1, <6>3
          <5>6. QED
            BY <5>1, <5>4, <5>5
        <4>3. CASE tx[u].row \notin Categories
          <5>1. others \subseteq Products
            BY <4>3 DEF Kin
          <5>2. c \notin others
            BY <1>2, <5>1, KindAssumption
          <5>3. \A q \in others : slug'[q] = slug[q] /\ former'[q] = former[q]
            BY <1>2, <3>4, <5>2
          <5>4. QED
            BY <3>2, <3>5, <4>1, <5>3
        <4>4. QED
          BY <4>2, <4>3
      <3>6. Candidate(u)' = sought /\ Kin(tx[u].row)' = Kin(tx[u].row)
        BY <2>1 DEF Candidate, Kin
      <3>7. QED
        BY <1>2, <2>1, <3>2, <3>5, <3>6 DEF SearchInv
    <2>6. WriteInv(u)'
      BY <1>2, <2>1 DEF TxInv, WriteInv
    <2>7. QED
      BY <2>2, <2>3, <2>4, <2>5, <2>6 DEF TxInv
  <1>10. QED
    BY <1>5, <1>6, <1>7, <1>8, <1>9 DEF IInv

-----------------------------------------------------------------------------
(* The invariant                                                           *)

LEMMA InitInv == Init => IInv
  <1> SUFFICES ASSUME Init PROVE IInv
    OBVIOUS
  <1>1. \A r \in Rows : slug[r] = None /\ former[r] = {}
    BY DEF Init
  <1>2. \A t \in Txs : tx[t] = Idle
    BY DEF Init
  <1>3. TypeOK
    <2>1. tx \in [Txs -> TxState]
      BY IdleFields DEF Init
    <2>2. requests \in 0 .. MaxRequests
      BY BoundAssumption DEF Init
    <2>3. overtaken \in BOOLEAN
      BY DEF Init
    <2>4. /\ slug \in [Rows -> Slugs \cup {None}] /\ former \in [Rows -> SUBSET Slugs]
          /\ name \in [Rows -> Names \cup {None}] /\ rowLock \in [Rows -> Txs \cup {None}]
          /\ assigned \in [Products -> Categories \cup {None}]
      BY DEF Init
    <2>5. QED
      BY <2>1, <2>2, <2>3, <2>4 DEF TypeOK
  <1>4. \A t \in Txs : TxInv(t)
    BY <1>2, IdleFields
       DEF TxInv, Shape, Running, CreateInv, Creating, UpdateInv, SearchInv, Searching, WriteInv
  <1>5. RowsInv /\ OneRowPerSlug
    BY <1>1, KinFacts DEF RowsInv, OneRowPerSlug
  <1>6. QED
    BY <1>3, <1>4, <1>5 DEF IInv

LEMMA StepInv ==
  ASSUME IInv, NEW t \in Txs, Step(t)
  PROVE  IInv'
  <1>1. CASE LockRow(t)
    BY <1>1, LockRowStep
  <1>2. CASE RowIsGone(t)
    BY <1>2, RollbackStep DEF RowIsGone
  <1>3. CASE CheckName(t)
    BY <1>3, CheckNameStep
  <1>4. CASE NameIsTaken(t)
    BY <1>4, RollbackStep DEF NameIsTaken
  <1>5. CASE CheckCandidate(t)
    BY <1>5, CheckCandidateStep
  <1>6. CASE WriteRow(t)
    BY <1>6, WriteRowStep
  <1>7. CASE RefuseWrite(t)
    BY <1>7, RollbackStep DEF RefuseWrite
  <1>8. CASE DeleteCategory(t)
    BY <1>8, DeleteCategoryStep
  <1>9. QED
    BY <1>1, <1>2, <1>3, <1>4, <1>5, <1>6, <1>7, <1>8 DEF Step

LEMMA BeginInv ==
  ASSUME IInv, NEW t \in Txs, BeginCategory(t) \/ BeginProduct(t)
  PROVE  IInv'
  <1>1. CASE BeginCategory(t)
    BY <1>1, BeginCreateCategoryStep, BeginUpdateCategoryStep, BeginDeleteCategoryStep
       DEF BeginCategory
  <1>2. CASE BeginProduct(t)
    BY <1>2, BeginCreateProductStep, BeginUpdateProductStep DEF BeginProduct
  <1>3. QED
    BY <1>1, <1>2

LEMMA StutterInv == IInv /\ UNCHANGED vars => IInv'
  BY DEF vars, rowVars, IInv, TypeOK, TxInv, Shape, Running, CreateInv, Creating, UpdateInv,
         SearchInv, Searching, Candidate, WriteInv, RowsInv, OneRowPerSlug, Kin

LEMMA NextInv == IInv /\ [Next]_vars => IInv'
  <1>1. ASSUME IInv, Next
        PROVE  IInv'
    BY <1>1, StepInv, BeginInv, RollbackStep, StutterInv DEF Next, Abort, Quiescent
  <1>2. QED
    BY <1>1, StutterInv

\* The inductive invariant holds in every state.
THEOREM CatalogueInvariance == Spec => []IInv
  BY InitInv, NextInv, PTL DEF Spec

\* The rows and the records of requests have the types their columns have.
THEOREM CatalogueTypes == Spec => []TypeOK
  <1>1. IInv => TypeOK
    BY DEF IInv
  <1>2. QED
    BY <1>1, CatalogueInvariance, PTL

\* No slug is of two rows, now or formerly, unless it was given up under a request
\* that had found it free: generate_unique_..._slug with its two SELECTs.
THEOREM SlugsAreUnique == Spec => []OneRowPerSlug
  <1>1. IInv => OneRowPerSlug
    BY DEF IInv
  <1>2. QED
    BY <1>1, CatalogueInvariance, PTL

-----------------------------------------------------------------------------
(* Refinement: the lookups implement SlugDirectory.                        *)

\* K is one of the two tables.
Table(K) == K \in {Categories, Products}

LEMMA TableFacts ==
  ASSUME NEW K, Table(K)
  PROVE  K \subseteq Rows /\ None \notin K /\ \A r \in K : Kin(r) = K
  BY ModelValues, KindAssumption DEF Table, Kin, Rows

LeadsTo(K, s, r) == slug[r] = s \/ (s \in former[r] /\ \A q \in K : slug[q] # s)

\* A slug leads to one row of a table at most.
LEMMA LookupFacts ==
  ASSUME RowsInv, NEW K, Table(K), NEW s \in Slugs
  PROVE  /\ Lookup(K, s) \in K \cup {None}
         /\ \A r \in K : Lookup(K, s) = r <=> LeadsTo(K, s, r)
  <1>1. \A r \in K : r \in Found(K, s) <=> LeadsTo(K, s, r)
    BY DEF Found, Current, Former, LeadsTo
  <1>2. Found(K, s) \subseteq K
    BY DEF Found, Current, Former
  <1>3. \A a, b \in K : LeadsTo(K, s, a) /\ LeadsTo(K, s, b) => a = b
    <2>1. ASSUME NEW a \in K, NEW b \in K, a # b
          PROVE  (slug[a] # None => slug[a] # slug[b]) /\ former[a] \cap former[b] = {}
      BY <2>1, TableFacts DEF RowsInv
    <2>2. QED
      BY <2>1, ModelValues DEF LeadsTo
  <1>4. CASE Found(K, s) = {}
    BY <1>1, <1>4, TableFacts DEF Lookup
  <1>5. CASE Found(K, s) # {}
    <2>1. Lookup(K, s) \in Found(K, s)
      BY <1>5 DEF Lookup
    <2>2. QED
      BY <1>1, <1>2, <1>3, <2>1
  <1>6. QED
    BY <1>4, <1>5

LEMMA LookupFactsNext ==
  ASSUME RowsInv', NEW CONSTANT K, Table(K), NEW CONSTANT s \in Slugs
  PROVE  /\ Lookup(K, s)' \in K \cup {None}
         /\ \A r \in K : Lookup(K, s)' = r <=> LeadsTo(K, s, r)'
  <1>1. \A r \in K : r \in Found(K, s)' <=> LeadsTo(K, s, r)'
    BY DEF Found, Current, Former, LeadsTo
  <1>2. Found(K, s)' \subseteq K
    BY DEF Found, Current, Former
  <1>3. \A a, b \in K : LeadsTo(K, s, a)' /\ LeadsTo(K, s, b)' => a = b
    <2>1. ASSUME NEW a \in K, NEW b \in K, a # b
          PROVE  (slug'[a] # None => slug'[a] # slug'[b]) /\ former'[a] \cap former'[b] = {}
      BY <2>1, TableFacts DEF RowsInv, Kin
    <2>2. QED
      BY <2>1, ModelValues DEF LeadsTo
  <1>4. CASE Found(K, s)' = {}
    BY <1>1, <1>4, TableFacts DEF Lookup
  <1>5. CASE Found(K, s)' # {}
    <2>1. Lookup(K, s)' \in Found(K, s)'
      BY <1>5 DEF Lookup
    <2>2. QED
      BY <1>1, <1>2, <1>3, <2>1
  <1>6. QED
    BY <1>4, <1>5

\* A commit that gives the row of t a slug no other row has or had: the slug leads to
\* it, its old one still does, and no other link changes.
LEMMA WriteLinks ==
  ASSUME IInv, NEW t \in Txs, WriteRow(t), ~overtaken', NEW CONSTANT K, Table(K),
         NEW CONSTANT r \in K, r = tx[t].row, NEW CONSTANT s \in Slugs, s = tx[t].slug
  PROVE  /\ slug' = [slug EXCEPT ![r] = s]
         /\ Lookup(K, s) \in {None, r}
         /\ \A q \in Slugs : Lookup(K, q)' = IF q = s THEN r ELSE Lookup(K, q)
  <1> DEFINE old == slug[r]
  <1>1. RowsInv /\ RowsInv' /\ TypeOK /\ OneRowPerSlug
    BY WriteRowStep DEF IInv
  <1>2. K \subseteq Rows /\ None \notin K /\ Kin(r) = K
    BY TableFacts
  <1>3. /\ slug'[r] = s /\ s # None
        /\ \A q \in Rows \ {r} : slug'[q] = slug[q] /\ former'[q] = former[q]
        /\ former' = former \/ former'[r] = former[r] \cup {old}
        /\ old # None => \E q \in K : old \in former'[q]
        /\ \A q \in K \ {r} : slug[q] # s /\ s \notin former[q]
        /\ ~overtaken
    BY <1>2, WriteFacts, ModelValues
  <1>4. slug' = [slug EXCEPT ![r] = s]
    BY ModelValues DEF WriteRow
  <1>5. \A q \in K \ {r} : ~LeadsTo(K, s, q)
    BY <1>3 DEF LeadsTo
  <1>6. Lookup(K, s) \in {None, r}
    BY <1>1, <1>5, LookupFacts
  <1>7. Lookup(K, s)' = r
    BY <1>1, <1>3, LookupFactsNext DEF LeadsTo
  <1>8. ASSUME NEW q \in Slugs, q = old, q # s
        PROVE  Lookup(K, q) = r /\ Lookup(K, q)' = r
    <2>1. \A e \in K \ {r} : slug[e] # q /\ q \notin former[e]
      <3>1. slug[r] = q /\ q # None
        BY <1>8, ModelValues
      <3>2. \A e \in Kin(r) \ {r} : slug[r] # None => slug[r] # slug[e] /\ slug[r] \notin former[e]
        BY <1>1, <1>2, <1>3 DEF OneRowPerSlug
      <3>3. QED
        BY <1>2, <3>1, <3>2
    <2>2. LeadsTo(K, q, r)
      BY <1>8 DEF LeadsTo
    <2>3. LeadsTo(K, q, r)'
      <3>1. \E e \in K : q \in former'[e]
        BY <1>3, <1>8, ModelValues
      <3>2. q \in former'[r]
        BY <1>2, <1>3, <2>1, <3>1
      <3>3. \A e \in K : slug'[e] # q
        BY <1>2, <1>3, <1>8, <2>1
      <3>4. QED
        BY <3>2, <3>3 DEF LeadsTo
    <2>4. QED
      BY <1>1, <2>2, <2>3, LookupFacts, LookupFactsNext
  <1>9. ASSUME NEW q \in Slugs \ {s, old}
        PROVE  Lookup(K, q)' = Lookup(K, q)
    <2>1. \A e \in K : slug'[e] = q <=> slug[e] = q
      BY <1>2, <1>3
    <2>2. \A e \in K : q \in former'[e] <=> q \in former[e]
      BY <1>2, <1>3
    <2>3. \A e \in K : LeadsTo(K, q, e)' <=> LeadsTo(K, q, e)
      BY <2>1, <2>2 DEF LeadsTo
    <2>4. QED
      BY <1>1, <1>2, <2>3, LookupFacts, LookupFactsNext
  <1>10. ASSUME NEW q \in Slugs
         PROVE  Lookup(K, q)' = IF q = s THEN r ELSE Lookup(K, q)
    <2>1. CASE q = s
      BY <1>7, <2>1
    <2>2. CASE q = old /\ q # s
      BY <1>8, <2>2
    <2>3. CASE q \notin {s, old}
      BY <1>9, <2>3
    <2>4. QED
      BY <2>1, <2>2, <2>3
  <1>11. QED
    BY <1>4, <1>6, <1>10

\* A step that leaves the slugs of a table alone leaves its links alone.
LEMMA SameLinks ==
  ASSUME NEW CONSTANT K, \A r \in K : slug'[r] = slug[r] /\ former'[r] = former[r],
         RowsInv, RowsInv', Table(K)
  PROVE  \A s \in Slugs : Lookup(K, s)' = Lookup(K, s)
  <1>1. SUFFICES ASSUME NEW s \in Slugs
                 PROVE  Lookup(K, s)' = Lookup(K, s)
    OBVIOUS
  <1>2. \A r \in K : LeadsTo(K, s, r)' <=> LeadsTo(K, s, r)
    BY DEF LeadsTo
  <1>3. QED
    BY <1>2, LookupFacts, LookupFactsNext

\* Only two steps change slugs.
LEMMA SlugSteps ==
  ASSUME [Next]_vars
  PROVE  \/ \E t \in Txs : WriteRow(t) \/ DeleteCategory(t)
         \/ slug' = slug /\ former' = former
  <1>1. ASSUME NEW t \in Txs, Step(t)
        PROVE  WriteRow(t) \/ DeleteCategory(t) \/ rowVars' = rowVars
    BY <1>1 DEF Step, LockRow, RowIsGone, CheckName, NameIsTaken, CheckCandidate, RefuseWrite,
                Rollback
  <1>2. ASSUME NEW t \in Txs, BeginCategory(t) \/ BeginProduct(t) \/ Abort(t)
        PROVE  rowVars' = rowVars
    BY <1>2 DEF BeginCategory, BeginProduct, Abort, Rollback, Begin, BeginCreateCategory,
                BeginUpdateCategory, BeginDeleteCategory, BeginCreateProduct, BeginUpdateProduct
  <1>3. Quiescent \/ UNCHANGED vars => rowVars' = rowVars
    BY DEF Quiescent, vars
  <1>4. (\E t \in Txs : WriteRow(t) \/ DeleteCategory(t)) \/ rowVars' = rowVars
    BY <1>1, <1>2, <1>3 DEF Next
  <1>5. QED
    BY <1>4 DEF rowVars

LEMMA ProductsBegin == Init => ProductLinks!Init
  <1> SUFFICES ASSUME Init PROVE ProductLinks!Init
    OBVIOUS
  <1>1. \A r \in Rows : slug[r] = None /\ former[r] = {}
    BY DEF Init
  <1>2. \A s \in Slugs : Lookup(Products, s) = None
    BY <1>1, ModelValues DEF Lookup, Found, Current, Former, Rows
  <1>3. QED
    BY <1>1, <1>2 DEF ProductLinks!Init, Rows

LEMMA ProductsStep == IInv /\ [Next]_vars => [overtaken' \/ ProductLinks!Next]_(ProductLinks!vars)
  <1> SUFFICES ASSUME IInv, [Next]_vars, ~overtaken'
               PROVE  [ProductLinks!Next]_(ProductLinks!vars)
    OBVIOUS
  <1>1. RowsInv /\ RowsInv' /\ TypeOK /\ TypeOK'
    BY NextInv DEF IInv
  <1>2. Table(Products) /\ Products \subseteq Rows
    BY DEF Table, Rows
  <1>3. CASE \A p \in Products : slug'[p] = slug[p] /\ former'[p] = former[p]
    <2>1. \A s \in Slugs : Lookup(Products, s)' = Lookup(Products, s)
      BY <1>1, <1>2, <1>3, SameLinks
    <2>2. QED
      BY <1>3, <2>1 DEF ProductLinks!vars
  <1>4. ASSUME NEW t \in Txs, WriteRow(t)
        PROVE  [ProductLinks!Next]_(ProductLinks!vars)
    <2>1. tx[t].row \in Rows /\ \A q \in Rows \ {tx[t].row} : slug'[q] = slug[q] /\ former'[q] = former[q]
      BY <1>4, WriteFacts
    <2>2. CASE tx[t].row \notin Products
      BY <1>2, <1>3, <2>1, <2>2
    <2>3. CASE tx[t].slug = None
      <3>1. slug'[tx[t].row] = slug[tx[t].row] /\ former' = former
        BY <1>4, <2>3, WriteFacts
      <3>2. QED
        BY <1>2, <1>3, <2>1, <3>1
    <2>4. CASE tx[t].row \in Products /\ tx[t].slug # None
      <3>1. tx[t].slug \in Slugs
        BY <1>1, <2>4, TxFields
      <3>2. PICK r \in Products : r = tx[t].row
        BY <2>4
      <3>3. PICK s \in Slugs : s = tx[t].slug
        BY <3>1
      <3>4. /\ slug' = [slug EXCEPT ![r] = s]
            /\ Lookup(Products, s) \in {None, r}
            /\ \A q \in Slugs : Lookup(Products, q)' = IF q = s THEN r ELSE Lookup(Products, q)
        BY <1>2, <1>4, <3>2, <3>3, WriteLinks
      <3>5. ProductLinks!Publish(r, s)
        BY <1>1, <1>2, <3>4 DEF ProductLinks!Publish, TypeOK
      <3>6. QED
        BY <3>5 DEF ProductLinks!Next
    <2>5. QED
      BY <2>2, <2>3, <2>4
  <1>5. ASSUME NEW t \in Txs, DeleteCategory(t)
        PROVE  \A p \in Products : slug'[p] = slug[p] /\ former'[p] = former[p]
    BY <1>2, <1>5, DeleteFacts, KindAssumption
  <1>6. QED
    BY <1>3, <1>4, <1>5, SlugSteps

\* Links to products (get_product, resolve_active_product_by_identifier): until a slug is
\* overtaken, the current slug of a product leads to it, and a slug that leads to a
\* product leads to the same one for ever.
THEOREM ProductLinksLast == Spec => LinksOfProducts
  BY CatalogueInvariance, ProductsBegin, ProductsStep, PTL DEF Spec, LinksOfProducts

LEMMA CategoriesBegin == Init => CategoryLinks!Init
  <1> SUFFICES ASSUME Init PROVE CategoryLinks!Init
    OBVIOUS
  <1>1. \A r \in Rows : slug[r] = None /\ former[r] = {}
    BY DEF Init
  <1>2. \A s \in Slugs : Lookup(Categories, s) = None
    BY <1>1, ModelValues DEF Lookup, Found, Current, Former, Rows
  <1>3. QED
    BY <1>1, <1>2 DEF CategoryLinks!Init, Rows

\* A deletion takes the links that led to the category, and no other.
LEMMA DeleteLinks ==
  ASSUME IInv, ~overtaken, NEW t \in Txs, DeleteCategory(t), NEW CONSTANT c, c = tx[t].row,
         slug[c] # None, NEW CONSTANT s \in Slugs
  PROVE  Lookup(Categories, s)' =
           IF Lookup(Categories, s) = c THEN None ELSE Lookup(Categories, s)
  <1>1. RowsInv /\ RowsInv' /\ Table(Categories) /\ TypeOK /\ OneRowPerSlug
    BY DeleteCategoryStep DEF IInv, Table
  <1>2. /\ c \in Categories /\ slug'[c] = None /\ former'[c] = {}
        /\ \A q \in Rows \ {c} : slug'[q] = slug[q] /\ former'[q] = former[q]
    BY DeleteFacts
  <1>3. Categories \subseteq Rows /\ None \notin Categories /\ s # None /\ Kin(c) = Categories
    BY ModelValues, TableFacts, <1>1, <1>2 DEF Rows
  <1>4. /\ Lookup(Categories, s) \in Categories \cup {None}
        /\ \A r \in Categories : Lookup(Categories, s) = r <=> LeadsTo(Categories, s, r)
    BY <1>1, LookupFacts
  <1>5. /\ Lookup(Categories, s)' \in Categories \cup {None}
        /\ \A r \in Categories : Lookup(Categories, s)' = r <=> LeadsTo(Categories, s, r)'
    BY <1>1, LookupFactsNext
  <1>6. ~LeadsTo(Categories, s, c)'
    BY <1>2, <1>3 DEF LeadsTo
  <1>7. \A q \in Categories \ {c} : LeadsTo(Categories, s, q)' <=> LeadsTo(Categories, s, q)
    <2>1. CASE slug[c] = s
      <3>1. \A q \in Categories \ {c} : slug[q] # s /\ s \notin former[q]
        BY <1>1, <1>2, <1>3, <2>1 DEF OneRowPerSlug
      <3>2. QED
        BY <1>2, <1>3, <3>1 DEF LeadsTo
    <2>2. CASE slug[c] # s
      <3>1. \A q \in Categories : slug'[q] = s <=> slug[q] = s
        BY <1>2, <1>3, <2>2
      <3>2. QED
        BY <1>2, <1>3, <3>1 DEF LeadsTo
    <2>3. QED
      BY <2>1, <2>2
  <1>8. CASE LeadsTo(Categories, s, c)
    <2>1. \A q \in Categories \ {c} : ~LeadsTo(Categories, s, q)
      BY <1>2, <1>4, <1>8
    <2>2. QED
      BY <1>2, <1>4, <1>5, <1>6, <1>7, <1>8, <2>1
  <1>9. CASE ~LeadsTo(Categories, s, c)
    BY <1>2, <1>3, <1>4, <1>5, <1>6, <1>7, <1>9
  <1>10. QED
    BY <1>8, <1>9

LEMMA CategoriesStep == IInv /\ [Next]_vars => [overtaken' \/ CategoryLinks!Next]_(CategoryLinks!vars)
  <1> SUFFICES ASSUME IInv, [Next]_vars, ~overtaken'
               PROVE  [CategoryLinks!Next]_(CategoryLinks!vars)
    OBVIOUS
  <1>1. RowsInv /\ RowsInv' /\ TypeOK /\ TypeOK'
    BY NextInv DEF IInv
  <1>2. Table(Categories) /\ Categories \subseteq Rows
    BY DEF Table, Rows
  <1>3. CASE \A c \in Categories : slug'[c] = slug[c] /\ former'[c] = former[c]
    <2>1. \A s \in Slugs : Lookup(Categories, s)' = Lookup(Categories, s)
      BY <1>1, <1>2, <1>3, SameLinks
    <2>2. QED
      BY <1>3, <2>1 DEF CategoryLinks!vars
  <1>4. \A q \in Slugs : Lookup(Categories, q)' \in Categories \cup {None}
    BY <1>1, <1>2, LookupFactsNext
  <1>5. ASSUME NEW t \in Txs, WriteRow(t)
        PROVE  [CategoryLinks!Next]_(CategoryLinks!vars)
    <2>1. tx[t].row \in Rows /\ \A q \in Rows \ {tx[t].row} : slug'[q] = slug[q] /\ former'[q] = former[q]
      BY <1>5, WriteFacts
    <2>2. CASE tx[t].row \notin Categories
      BY <1>2, <1>3, <2>1, <2>2
    <2>3. CASE tx[t].slug = None
      <3>1. slug'[tx[t].row] = slug[tx[t].row] /\ former' = former
        BY <1>5, <2>3, WriteFacts
      <3>2. QED
        BY <1>2, <1>3, <2>1, <3>1
    <2>4. CASE tx[t].row \in Categories /\ tx[t].slug # None
      <3>1. tx[t].slug \in Slugs
        BY <1>1, <2>4, TxFields
      <3>2. PICK r \in Categories : r = tx[t].row
        BY <2>4
      <3>3. PICK s \in Slugs : s = tx[t].slug
        BY <3>1
      <3>4. /\ slug' = [slug EXCEPT ![r] = s]
            /\ Lookup(Categories, s) \in {None, r}
            /\ \A q \in Slugs : Lookup(Categories, q)' = IF q = s THEN r ELSE Lookup(Categories, q)
        BY <1>2, <1>5, <3>2, <3>3, WriteLinks
      <3>5. CategoryLinks!Publish(r, s)
        BY <1>1, <1>2, <3>4 DEF CategoryLinks!Publish, TypeOK
      <3>6. QED
        BY <3>5 DEF CategoryLinks!Next
    <2>5. QED
      BY <2>2, <2>3, <2>4
  <1>6. ASSUME NEW t \in Txs, DeleteCategory(t)
        PROVE  [CategoryLinks!Next]_(CategoryLinks!vars)
    <2>1. PICK c \in Categories : c = tx[t].row
      BY <1>6, DeleteFacts
    <2>2. /\ slug'[c] = None /\ former'[c] = {} /\ slug' = [slug EXCEPT ![c] = None]
          /\ \A q \in Rows \ {c} : slug'[q] = slug[q] /\ former'[q] = former[q]
      BY <1>6, <2>1, DeleteFacts DEF DeleteCategory
    <2>3. CASE slug[c] = None
      <3>1. former[c] = {}
        BY <1>1, <1>2, <2>3 DEF RowsInv
      <3>2. QED
        BY <1>2, <1>3, <2>2, <2>3, <3>1
    <2>4. CASE slug[c] # None
      <3>1. ~overtaken
        BY <1>6 DEF DeleteCategory
      <3>2. \A s \in Slugs : Lookup(Categories, s)' =
                             IF Lookup(Categories, s) = c THEN None ELSE Lookup(Categories, s)
        BY <1>6, <2>1, <2>4, <3>1, DeleteLinks
      <3>3. CategoryLinks!Delete(c)
        BY <1>1, <1>2, <2>2, <2>4, <3>2 DEF CategoryLinks!Delete, TypeOK
      <3>4. QED
        BY <3>3 DEF CategoryLinks!Next
    <2>5. QED
      BY <2>3, <2>4
  <1>7. QED
    BY <1>3, <1>5, <1>6, SlugSteps

\* The same of categories (get_category), of which a deletion takes the links that led
\* to the deleted one and no others.
THEOREM CategoryLinksLast == Spec => LinksOfCategories
  BY CatalogueInvariance, CategoriesBegin, CategoriesStep, PTL DEF Spec, LinksOfCategories
=============================================================================
