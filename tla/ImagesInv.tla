------------------------------ MODULE ImagesInv ------------------------------
(***************************************************************************)
(* The inductive invariant behind the theorems of Images_proofs.           *)
(***************************************************************************)
EXTENDS Images

EditKinds == {"update", "attach", "reorder", "delete"}  \* of a product that exists
UseKinds == {"create", "update", "attach"}              \* that consume an upload

\* What GalleryAgrees says of the rows of a product that shows image.
Agrees(rows, image) ==
  /\ \A a, b \in rows : a.order = b.order \/ a.image = b.image => a = b
  /\ rows # {} => \E r \in rows : /\ r.primary /\ image = r.image
                                  /\ \A q \in rows \ {r} : ~q.primary /\ r.order < q.order
  /\ rows = {} => image = None

Distinct(seq) == \A j, k \in DOMAIN seq : seq[j] = seq[k] => j = k

-----------------------------------------------------------------------------
(* What holds of each request and worker                                   *)

\* Which kind of request is at which point, and with what in its record.
Shape(t) ==
  LET pc == tx[t].pc   k == tx[t].kind
  IN /\ t \in Handlers => pc \notin {"sweep", "swept", "retry", "retried"}
     /\ t \in Workers => /\ pc \in {"idle", "sweep", "swept", "retry", "retried"}
                         /\ k \in {"none", "cleanup"}
     /\ pc = "idle" => k = "none"
     /\ pc = "save" => k = "upload"
     /\ pc = "lock" => k \in EditKinds
     /\ pc = "consume" => k \in UseKinds
     /\ pc = "write" => k \in EditKinds \cup UseKinds
     /\ k \in EditKinds => tx[t].row \in products
     /\ k = "create" => pc \in {"consume", "write"} /\ tx[t].row \in Products \ products
     /\ tx[t].row \in Products => k \in EditKinds \cup UseKinds
     /\ k \in UseKinds \/ pc \in {"save", "discard", "swept", "retried"} => tx[t].image # None
     /\ k = "reorder" => tx[t].seen # <<>>
     /\ Distinct(tx[t].seen)

\* t holds the row of its product, and what it has read of it is still so.
LockInv(t) ==
  LET p == tx[t].row
  IN tx[t].kind \in EditKinds /\ tx[t].pc \in {"consume", "write"} =>
       /\ productLock[p] = t
       /\ tx[t].kind \in {"update", "delete"} => tx[t].existing = shown[p]
       /\ tx[t].kind \in {"attach", "delete"} => tx[t].seen = Listing(gallery[p])

\* The product t creates is not there, and nobody else knows of it.
CreateInv(t) ==
  tx[t].kind = "create" => \A s \in Handlers \ {t} : tx[s].row # tx[t].row

\* t is about to commit a gallery with an upload.
Uses(t) ==
  /\ tx[t].pc = "write" /\ tx[t].kind \in UseKinds
  /\ tx[t].kind = "update" => tx[t].image # tx[t].existing

\* Nobody else commits, or cleans up, the upload that t uses.
ConsumeInv(t) == Uses(t) => tx[t].image \in pending /\ uploadLock[tx[t].image] = t

\* A product that is not there has no images.
EmptyInv == \A p \in Products \ products : gallery[p] = {} /\ shown[p] = None

-----------------------------------------------------------------------------
(* The life of an image                                                    *)

Sent == Images \ unsent
Saving == {tx[t].image : t \in {s \in Txs : tx[s].pc = "save"}}
Discarding == {tx[t].image : t \in {s \in Txs : tx[s].pc = "discard"}}

\* Uploaded, and nobody has a use for it any more: this lasts.
Dead == Sent \ (Saving \cup pending \cup Shown)

LifeInv ==
  /\ stored \cup pending \cup queue \cup Shown \subseteq Sent
  /\ \A t \in Txs : /\ tx[t].image \in Sent \cup {None} /\ tx[t].previous \in Sent \cup {None}
                    /\ tx[t].todo \subseteq Sent
  /\ Saving \cap (pending \cup Shown) = {}
  /\ \A s, t \in Txs : tx[s].pc = "save" /\ tx[t].pc = "save" /\ tx[s].image = tx[t].image => s = t

\* What t deletes from the store next.
DoomedInv(t) ==
  /\ tx[t].pc = "discard" => tx[t].image \in Dead
  /\ tx[t].pc \in {"sweep", "swept"} => tx[t].todo \subseteq expired \cup Dead
  /\ tx[t].pc \in {"retry", "retried"} => tx[t].todo \subseteq Dead

\* What t has deleted from the store is gone.
GoneInv(t) == tx[t].pc \in {"swept", "retried"} => tx[t].image \notin stored

\* Every file somebody still has a use for is in the store, and only others are deleted.
StoreInv ==
  ~raced => /\ queue \subseteq Dead
            /\ \A t \in Txs : DoomedInv(t)
            /\ Saving \cup (pending \ expired) \cup Shown \subseteq stored

\* Every file is used, or on its way out.
LeakInv ==
  ~raced /\ faults = 0 => stored \subseteq Shown \cup pending \cup queue \cup Saving \cup Discarding

TxInv(t) == Shape(t) /\ LockInv(t) /\ CreateInv(t) /\ ConsumeInv(t) /\ GoneInv(t)

-----------------------------------------------------------------------------
IInv ==
  /\ TypeOK
  /\ \A t \in Txs : TxInv(t)
  /\ \A p \in Products : IsFiniteSet(gallery[p])
  /\ EmptyInv /\ GalleryAgrees /\ UploadsAreUsedOnce
  /\ LifeInv /\ StoreInv /\ LeakInv
=============================================================================
