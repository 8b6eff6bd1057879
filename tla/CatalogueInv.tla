----------------------------- MODULE CatalogueInv -----------------------------
(***************************************************************************)
(* The inductive invariant behind the theorems of Catalogue_proofs.        *)
(***************************************************************************)
EXTENDS Catalogue

Running(t) == tx[t].pc # "idle"

\* Which kind of request is at which point.
Shape(t) ==
  /\ Running(t) => tx[t].row \in Rows
  /\ tx[t].pc = "delete" => tx[t].row \in Categories
  /\ tx[t].pc # "write" => tx[t].slug = None
  /\ tx[t].pc = "lock" => tx[t].renames
  /\ tx[t].category # None => tx[t].row \in Products

\* A row that is being created is not there yet, and is nobody else's.
Creating(t) == Running(t) /\ tx[t].pc # "delete" /\ ~tx[t].renames

CreateInv(t) ==
  Creating(t) =>
    /\ slug[tx[t].row] = None
    /\ tx[t].name \in Names
    /\ \A s \in Txs \ {t} : Running(s) => tx[s].row # tx[t].row

\* A row that is being updated is locked, and so it is still there.
UpdateInv(t) ==
  tx[t].renames /\ tx[t].pc \notin {"idle", "lock"} =>
    rowLock[tx[t].row] = t /\ slug[tx[t].row] # None

\* A slug that has never been free for the request has another row, which will have
\* it in its history when the request looks there.
SearchInv(t) ==
  LET r == tx[t].row   others == Kin(r) \ {r}
  IN Searching(t) =>
     /\ tx[t].name \in Names
     /\ tx[t].n \in 1 .. Len(SlugOf[tx[t].name])
     /\ ~overtaken /\ ~tx[t].free =>
          \/ \E q \in others : Candidate(t) \in former[q]
          \/ tx[t].pc = "current" /\ \E q \in others : slug[q] = Candidate(t)

WriteInv(t) == tx[t].pc = "write" /\ tx[t].slug # None => tx[t].free \/ overtaken

TxInv(t) == Shape(t) /\ CreateInv(t) /\ UpdateInv(t) /\ SearchInv(t) /\ WriteInv(t)

\* What the indexes keep: a slug is the current one of one row, and in the history of
\* one; the history goes with the row.
RowsInv ==
  /\ \A a \in Rows : \A b \in Kin(a) \ {a} :
       /\ slug[a] # None => slug[a] # slug[b]
       /\ former[a] \cap former[b] = {}
  /\ \A r \in Rows : slug[r] = None => former[r] = {}

IInv ==
  /\ TypeOK
  /\ \A t \in Txs : TxInv(t)
  /\ RowsInv
  /\ OneRowPerSlug
=============================================================================
