------------------------------ MODULE Catalogue ------------------------------
(***************************************************************************)
(* Categories, the categories of products, and the slugs both are found    *)
(* by: their current one and the ones they had before.                     *)
(*                                                                         *)
(*   category/service.rs   create, update, delete and look up categories   *)
(*   product/service.rs    what creating, updating and looking up products *)
(*                         do to slugs and categories                      *)
(*   shared/slug.rs        the slugs of a name                             *)
(*                                                                         *)
(* The variables hold committed rows.  A transaction's statements are      *)
(* steps, except that its writes come with its commit: until then nobody   *)
(* sees them, and who waits for them goes on with what was committed.      *)
(***************************************************************************)
EXTENDS Naturals, Sequences

CONSTANTS
  Categories, Products,  \* the rows there ever are
  Names,                 \* the names admins give them
  Slugs,
  SlugOf,                \* SlugOf[name][n]: slugify, then append_slug_suffix with n
  Txs,                   \* requests
  MaxRequests,           \* bound: the requests there ever are
  None

Rows == Categories \cup Products

ASSUME KindAssumption == Categories \cap Products = {}
ASSUME NoneAssumption == None \notin Rows \cup Names \cup Slugs \cup Txs
ASSUME SlugAssumption == SlugOf \in [Names -> Seq(Slugs)]
ASSUME BoundAssumption ==
  MaxRequests \in Nat /\ \A x \in Names : Len(SlugOf[x]) > MaxRequests

VARIABLES
  name, slug,  \* of each row, None if there is none
  former,      \* product_slug_history, category_slug_history: the old slugs of each row
  assigned,    \* products.category_id
  rowLock,     \* the request holding a row FOR UPDATE, or None
  tx, requests,
  overtaken    \* history: a slug was taken and given up by another row while a
               \* request for which it had been free was on its way to take it

rowVars == <<name, slug, former, assigned>>
vars == <<rowVars, rowLock, tx, requests, overtaken>>

Idle == [pc |-> "idle", row |-> None, renames |-> FALSE, name |-> None,
         category |-> None, n |-> 1, free |-> FALSE, slug |-> None]

(***************************************************************************)
(* tx[t].pc: "lock": the transaction asks for its row; "name": looks       *)
(* whether another category has the name; "current", "former": whether the *)
(* n-th slug of the name is in the table, in the history; "write": the     *)
(* writes and the commit are left; "delete": the DELETE of a category is.  *)
(***************************************************************************)
TxState ==
  [pc : {"idle", "lock", "name", "current", "former", "write", "delete"},
   row : Rows \cup {None},
   renames : BOOLEAN,             \* an update, not a creation
   name : Names \cup {None},      \* the name asked for, None: unchanged
   category : Categories \cup {None},
   n : Nat \ {0},
   free : BOOLEAN,                \* history: at some moment no other row had the n-th slug
   slug : Slugs \cup {None}]      \* the slug found, None: unchanged

TypeOK ==
  /\ name \in [Rows -> Names \cup {None}]
  /\ slug \in [Rows -> Slugs \cup {None}]
  /\ former \in [Rows -> SUBSET Slugs]
  /\ assigned \in [Products -> Categories \cup {None}]
  /\ rowLock \in [Rows -> Txs \cup {None}]
  /\ tx \in [Txs -> TxState]
  /\ requests \in 0 .. MaxRequests
  /\ overtaken \in BOOLEAN

Init ==
  /\ name = [r \in Rows |-> None]
  /\ slug = [r \in Rows |-> None]
  /\ former = [r \in Rows |-> {}]
  /\ assigned = [p \in Products |-> None]
  /\ rowLock = [r \in Rows |-> None]
  /\ tx = [t \in Txs |-> Idle]
  /\ requests = 0
  /\ overtaken = FALSE

-----------------------------------------------------------------------------
(* Lookups                                                                 *)

Exists(r) == slug[r] # None

\* The table a row is in.
Kin(r) == IF r \in Categories THEN Categories ELSE Products

\* fetch_..._by_slug, and the SELECT on the history.
Current(rows, s) == {r \in rows : slug[r] = s}
Former(rows, s) == {r \in rows : s \in former[r]}

\* get_category, resolve_active_product_by_identifier, with a slug: the row that has
\* it, or else the one that had it.
Found(rows, s) == IF Current(rows, s) # {} THEN Current(rows, s) ELSE Former(rows, s)

Lookup(rows, s) ==
  IF Found(rows, s) = {} THEN None ELSE CHOOSE r \in Found(rows, s) : TRUE

-----------------------------------------------------------------------------
(* Requests begin                                                          *)

Goto(t, record) == tx' = [tx EXCEPT ![t] = record]

Begin(t, record) ==
  /\ tx[t].pc = "idle" /\ requests < MaxRequests
  /\ requests' = requests + 1
  /\ Goto(t, record)
  /\ UNCHANGED <<rowVars, rowLock, overtaken>>

Finish(t) ==
  /\ Goto(t, Idle)
  /\ rowLock' = [r \in Rows |-> IF rowLock[r] = t THEN None ELSE rowLock[r]]

\* An error return, or a lost connection.
Rollback(t) == Finish(t) /\ UNCHANGED <<rowVars, requests, overtaken>>

\* None of the rows has, or had, the n-th slug of the name of record.
Unclaimed(rows, record, n) ==
  LET s == SlugOf[record.name][n]
  IN \A q \in rows \ {record.row} : slug[q] # s /\ s \notin former[q]

\* generate_unique_..._slug looks for the n-th slug of the name of record.
Try(record, n) ==
  [record EXCEPT !.pc = "current", !.n = n, !.free = Unclaimed(Kin(record.row), record, n)]

\* ids are new: Uuid::now_v7.
Fresh(r) == ~Exists(r) /\ former[r] = {} /\ \A s \in Txs : tx[s].row # r

BeginCreateCategory(t, c, x) ==
  /\ Fresh(c)
  /\ Begin(t, [Idle EXCEPT !.pc = "name", !.row = c, !.name = x])

BeginUpdateCategory(t, c, x) ==
  /\ Exists(c)
  /\ Begin(t, [Idle EXCEPT !.pc = "lock", !.row = c, !.renames = TRUE, !.name = x])

\* delete_category has counted the products of the category: there are none.
BeginDeleteCategory(t, c) ==
  /\ Exists(c) /\ \A p \in Products : assigned[p] # c
  /\ Begin(t, [Idle EXCEPT !.pc = "delete", !.row = c])

\* ensure_category_exists, before the transaction.
CategoryExists(c) == c # None => Exists(c)

BeginCreateProduct(t, p, x, c) ==
  /\ Fresh(p) /\ CategoryExists(c)
  /\ Begin(t, Try([Idle EXCEPT !.row = p, !.name = x, !.category = c], 1))

BeginUpdateProduct(t, p, x, c) ==
  /\ Exists(p) /\ CategoryExists(c)
  /\ Begin(t, [Idle EXCEPT !.pc = "lock", !.row = p, !.renames = TRUE,
                           !.name = x, !.category = c])

-----------------------------------------------------------------------------
(* Statements                                                              *)

\* A new slug is looked for unless the name has the slug the row has.
Renamed(t) ==
  IF tx[t].renames /\ (tx[t].name = None \/ SlugOf[tx[t].name][1] = slug[tx[t].row])
    THEN [tx[t] EXCEPT !.pc = "write"]
    ELSE Try(tx[t], 1)

\* lock_category_for_update, lock_product_for_update.
LockRow(t) ==
  LET r == tx[t].row
  IN /\ tx[t].pc = "lock" /\ rowLock[r] = None /\ Exists(r)
     /\ rowLock' = [rowLock EXCEPT ![r] = t]
     /\ Goto(t, IF r \in Categories THEN [tx[t] EXCEPT !.pc = "name"] ELSE Renamed(t))
     /\ UNCHANGED <<rowVars, requests, overtaken>>

\* The category has been deleted.
RowIsGone(t) ==
  /\ tx[t].pc = "lock" /\ rowLock[tx[t].row] = None /\ ~Exists(tx[t].row)
  /\ Rollback(t)

NameTaken(t) == \E c \in Categories \ {tx[t].row} : name[c] = tx[t].name

\* ensure_category_name_available.
CheckName(t) ==
  /\ tx[t].pc = "name" /\ ~NameTaken(t)
  /\ Goto(t, Renamed(t))
  /\ UNCHANGED <<rowVars, rowLock, requests, overtaken>>

NameIsTaken(t) == tx[t].pc = "name" /\ NameTaken(t) /\ Rollback(t)

Candidate(t) == SlugOf[tx[t].name][tx[t].n]

\* Mutant of Taken: the history is looked at first.
TakenFormerlyFirst(t) ==
  LET r == tx[t].row   rows == Kin(r)
  IN CASE tx[t].pc = "current" -> Former(rows, Candidate(t)) # {}
       [] OTHER -> Current(rows \ {r}, Candidate(t)) # {}

\* Mutant of Taken: the history is not looked at.
TakenNow(t) ==
  LET r == tx[t].row
  IN tx[t].pc = "current" /\ Current(Kin(r) \ {r}, Candidate(t)) # {}

\* The two SELECTs of the loop: the row itself does not count, but its history does.
Taken(t) ==
  LET r == tx[t].row   rows == Kin(r)
  IN CASE tx[t].pc = "current" -> Current(rows \ {r}, Candidate(t)) # {}
       [] OTHER -> Former(rows, Candidate(t)) # {}

Searching(t) == tx[t].pc \in {"current", "former"}

CheckCandidate(t) ==
  /\ Searching(t)
  /\ Taken(t) => tx[t].n < Len(SlugOf[tx[t].name])  \* bound: the suffixes of a name
  /\ Goto(t, CASE Taken(t) -> Try(tx[t], tx[t].n + 1)
               [] ~Taken(t) /\ tx[t].pc = "current" -> [tx[t] EXCEPT !.pc = "former"]
               [] OTHER -> [tx[t] EXCEPT !.pc = "write", !.slug = Candidate(t)])
  /\ UNCHANGED <<rowVars, rowLock, requests, overtaken>>

\* What the indexes and the foreign key refuse: a slug, a name of another row, a
\* category that is gone.
Refused(t) ==
  LET r == tx[t].row   rest == Kin(r) \ {r}
  IN \/ tx[t].slug # None /\ Current(rest, tx[t].slug) # {}
     \/ r \in Categories /\ NameTaken(t)
     \/ tx[t].category # None /\ ~Exists(tx[t].category)

\* The foreign key check of a new category_id waits for who holds the category.
Admitted(t) ==
  LET c == tx[t].category
  IN /\ tx[t].pc = "write"
     /\ c # None /\ assigned[tx[t].row] # c => rowLock[c] = None

\* Mutant of Archived: the slug is archived although the row is new.
ArchivedAlways(t) ==
  LET r == tx[t].row   old == slug[r]
  IN IF tx[t].slug # None /\ Former(Kin(r), old) = {}
       THEN [former EXCEPT ![r] = @ \cup {old}]
       ELSE former

\* Mutant of Archived: the new slug is archived in place of the old one.
ArchivedNew(t) ==
  LET r == tx[t].row   new == tx[t].slug
  IN IF tx[t].renames /\ new # None /\ Former(Kin(r), new) = {}
       THEN [former EXCEPT ![r] = @ \cup {new}]
       ELSE former

\* save_..._slug_history, ON CONFLICT DO NOTHING: a slug is in the history once.
Archived(t) ==
  LET r == tx[t].row   old == slug[r]
  IN IF tx[t].renames /\ tx[t].slug # None /\ Former(Kin(r), old) = {}
       THEN [former EXCEPT ![r] = @ \cup {old}]
       ELSE former

\* The INSERT or UPDATE, the history row, the commit.
WriteRow(t) ==
  LET r == tx[t].row   x == tx[t].name   s == tx[t].slug   c == tx[t].category
  IN /\ Admitted(t) /\ ~Refused(t)
     /\ name' = [name EXCEPT ![r] = IF x = None THEN @ ELSE x]
     /\ slug' = [slug EXCEPT ![r] = IF s = None THEN @ ELSE s]
     /\ assigned' = IF c = None THEN assigned ELSE [assigned EXCEPT ![r] = c]
     /\ former' = Archived(t)
     /\ overtaken' = (overtaken \/ (tx[t].free /\ s # None /\ Former(Kin(r) \ {r}, s) # {}))
     /\ Finish(t)
     /\ UNCHANGED requests

RefuseWrite(t) == Admitted(t) /\ Refused(t) /\ Rollback(t)

\* The search of s goes on when c is deleted, perhaps for a slug that is free now.
Freed(s, c) ==
  IF Searching(s) /\ tx[s].row \in Categories
    THEN [tx[s] EXCEPT !.free = @ \/ Unclaimed(Categories \ {c}, tx[s], tx[s].n)]
    ELSE tx[s]

\* DELETE FROM categories: the history of the category goes with it, and ON DELETE
\* SET NULL clears it from the products, waiting for the requests that hold them.
DeleteCategory(t) ==
  LET c == tx[t].row
      mine == {p \in Products : assigned[p] = c}
  IN /\ tx[t].pc = "delete"
     /\ \A r \in {c} \cup mine : rowLock[r] = None
     /\ name' = [name EXCEPT ![c] = None]
     /\ slug' = [slug EXCEPT ![c] = None]
     /\ former' = [former EXCEPT ![c] = {}]
     /\ assigned' = [p \in Products |-> IF p \in mine THEN None ELSE assigned[p]]
     /\ tx' = [s \in Txs |-> IF s = t THEN Idle ELSE Freed(s, c)]
     /\ UNCHANGED <<rowLock, requests, overtaken>>

\* A database error, a client that is gone.
Abort(t) == tx[t].pc # "idle" /\ Rollback(t)

Quiescent ==
  /\ requests = MaxRequests /\ \A t \in Txs : tx[t].pc = "idle"
  /\ UNCHANGED vars

-----------------------------------------------------------------------------
Step(t) ==
  \/ LockRow(t) \/ RowIsGone(t)
  \/ CheckName(t) \/ NameIsTaken(t)
  \/ CheckCandidate(t)
  \/ WriteRow(t) \/ RefuseWrite(t)
  \/ DeleteCategory(t)

BeginCategory(t) ==
  \E c \in Categories :
    \/ \E x \in Names : BeginCreateCategory(t, c, x) \/ BeginUpdateCategory(t, c, x)
    \/ BeginDeleteCategory(t, c)

BeginProduct(t) ==
  \E p \in Products, c \in Categories \cup {None} :
    \/ \E x \in Names : BeginCreateProduct(t, p, x, c)
    \/ \E x \in Names \cup {None} : BeginUpdateProduct(t, p, x, c)

Next ==
  \/ \E t \in Txs : Step(t) \/ BeginCategory(t) \/ BeginProduct(t) \/ Abort(t)
  \/ Quiescent

Spec == Init /\ [][Next]_vars

-----------------------------------------------------------------------------
(* Properties                                                              *)

\* No slug is of two rows, now or formerly: the two SELECTs of the loop are separate
\* statements, but a row that gives a slug up between them has it in its history by
\* the second one.  Not so when a slug that was free while the loop looked is taken
\* and given up by another row before the INSERT: the history has no say in that.
OneRowPerSlug ==
  ~overtaken =>
    \A a \in Rows : \A b \in Kin(a) \ {a} :
      /\ slug[a] # None => slug[a] # slug[b] /\ slug[a] \notin former[b]
      /\ former[a] \cap former[b] = {}

\* API_DOCS.md:1288, 1389, 1610: products and categories are found by their current
\* slug, and an old link keeps leading to the row it led to, which no other row takes
\* away.  The code keeps this until a slug is overtaken: row b takes the slug that the
\* loop of row a has found free and gives it up again, then a is written with it,
\* because no index compares slugs with the history.  From then on b's old link leads
\* to a, which is not what those lines say.
ProductLinks ==
  INSTANCE SlugDirectory WITH
    Rows <- Products,
    canonical <- [p \in Products |-> slug[p]],
    leads <- [s \in Slugs |-> Lookup(Products, s)]

CategoryLinks ==
  INSTANCE SlugDirectory WITH
    Rows <- Categories,
    canonical <- [c \in Categories |-> slug[c]],
    leads <- [s \in Slugs |-> Lookup(Categories, s)]

LinksOfProducts ==
  ProductLinks!Init /\ [][overtaken' \/ ProductLinks!Next]_(ProductLinks!vars)
LinksOfCategories ==
  CategoryLinks!Init /\ [][overtaken' \/ CategoryLinks!Next]_(CategoryLinks!vars)

\* category/service.rs:125: "Delete a category if no product is still assigned to
\* it."
OnlyEmptyCategoriesGo ==
  [][\A c \in Categories : Exists(c) /\ ~Exists(c)' => \A p \in Products : assigned[p] # c]_vars
=============================================================================
