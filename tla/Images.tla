------------------------------- MODULE Images -------------------------------
(***************************************************************************)
(* The images of products: files in the image store (Cloudinary) and the   *)
(* rows that name them, written by requests and by the cleanup worker:     *)
(*                                                                         *)
(*   product/handler.rs     upload, update, attach, reorder, delete; what  *)
(*   product/service.rs     is replaced leaves the store after the commit  *)
(*   shared/maintenance.rs  uploads never used, deletions to be retried    *)
(*   shared/cloudinary.rs   the calls to the store                         *)
(*                                                                         *)
(* An image is named by its upload; its URL is determined by it.  The      *)
(* variables hold committed rows and the files of the store; what a        *)
(* request read, and has to do yet, is in its record tx[t].                *)
(***************************************************************************)
EXTENDS Integers, FiniteSets, SequencesExt

CONSTANTS
  Products,       \* rows of products, now or later
  Existing,       \* the products there are at the start
  Editable,       \* the products whose images admins change
  Handlers,       \* requests
  Workers,        \* the cleanup worker of each instance
  MaxPerProduct,  \* MAX_PRODUCT_IMAGES
  Images,         \* bound: the uploads there ever are
  MaxFaults,      \* bound: failed calls, lost requests
  None

Txs == Handlers \cup Workers

ASSUME NoneAssumption == None \notin Products \cup Txs \cup Images
ASSUME TxAssumption == Handlers \cap Workers = {}
ASSUME ProductAssumption == Existing \subseteq Products /\ Editable \subseteq Products
ASSUME BoundAssumption ==
  /\ MaxPerProduct \in Nat \ {0} /\ MaxFaults \in Nat

VARIABLES
  stored,       \* the files in the store
  pending,      \* pending_product_images
  expired,      \* those of them whose expires_at has passed
  queue,        \* pending_product_image_deletions
  products,     \* the products there are
  gallery,      \* the product_images rows of each product
  shown,        \* products.image_public_id
  productLock,  \* the request holding a product row FOR UPDATE, or None
  uploadLock,   \* the request that has deleted a pending row and not committed
  tx, faults,
  unsent,       \* the images not uploaded yet
  raced         \* history: an update went on from an outdated read (CommitImage)

rowVars == <<pending, expired, queue, products, gallery, shown>>
lockVars == <<productLock, uploadLock>>
vars == <<stored, pending, expired, queue, products, gallery, shown, productLock,
          uploadLock, tx, unsent, faults, raced>>

GalleryRow == [image : Images, order : Nat, primary : BOOLEAN]

Idle == [pc |-> "idle", kind |-> "none", row |-> None, image |-> None, previous |-> None,
         fresh |-> FALSE, lead |-> FALSE, existing |-> None, seen |-> <<>>, todo |-> {}]

(***************************************************************************)
(* tx[t].pc of a request: "save": its file is in the store, its row to be  *)
(* written; "lock": its transaction has begun and asks for the product     *)
(* row; "consume": for the pending row of its image; "write": only the     *)
(* writes and the commit are left; "discard": image is to be deleted from  *)
(* the store.                                                              *)
(* Of the worker: "sweep", "retry": it goes through the images of todo,    *)
(* expired uploads first, then the queue; "swept", "retried": the file of  *)
(* image is gone, its row is not.                                          *)
(***************************************************************************)
TxState ==
  [pc : {"idle", "save", "lock", "consume", "write", "discard",
         "sweep", "swept", "retry", "retried"},
   kind : {"none", "upload", "create", "update", "attach", "reorder", "delete", "cleanup"},
   row : Products \cup {None}, image : Images \cup {None},
   previous : Images \cup {None},  \* handler.rs: the image before the transaction
   fresh : BOOLEAN,                \* not expired when the transaction began (NOW())
   lead : BOOLEAN,                 \* the request's is_primary
   existing : Images \cup {None},  \* products.image_public_id under the lock
   seen : Seq(Images),             \* the gallery under the lock, or the order asked for
   todo : SUBSET Images]

TypeOK ==
  /\ stored \subseteq Images
  /\ expired \subseteq pending /\ pending \subseteq Images
  /\ queue \subseteq Images
  /\ products \subseteq Products
  /\ gallery \in [Products -> SUBSET GalleryRow]
  /\ shown \in [Products -> Images \cup {None}]
  /\ productLock \in [Products -> Handlers \cup {None}]
  /\ uploadLock \in [Images -> Handlers \cup {None}]
  /\ tx \in [Txs -> TxState]
  /\ unsent \subseteq Images
  /\ faults \in 0 .. MaxFaults
  /\ raced \in BOOLEAN

Init ==
  /\ stored = {} /\ pending = {} /\ expired = {} /\ queue = {}
  /\ products = Existing
  /\ gallery = [p \in Products |-> {}]
  /\ shown = [p \in Products |-> None]
  /\ productLock = [p \in Products |-> None]
  /\ uploadLock = [i \in Images |-> None]
  /\ tx = [t \in Txs |-> Idle]
  /\ unsent = Images
  /\ faults = 0
  /\ raced = FALSE

-----------------------------------------------------------------------------
(* Galleries                                                               *)

Used(rows) == {r.image : r \in rows}

\* fetch_product_images: ORDER BY is_primary DESC, sort_order ASC.  Positions are distinct
\* (GalleryAgrees), so that created_at never decides.
Before(a, b) ==
  IF a.primary = b.primary THEN a.order < b.order ELSE a.primary

\* The row that k others come before.
Ranked(rows, k) == CHOOSE r \in rows : Cardinality({q \in rows : Before(q, r)}) = k

Listing(rows) == [k \in 1 .. Cardinality(rows) |-> Ranked(rows, k - 1).image]

\* sync_product_primary_image: what products.image_public_id becomes.
First(rows) == IF rows = {} THEN None ELSE Listing(rows)[1]

\* The first of the images in seq that rows has as primary, or otherwise.
PrimaryIn(rows, seq, otherwise) ==
  LET flagged == {i \in ToSet(seq) : \E r \in rows : r.image = i /\ r.primary}
  IN IF flagged = {} THEN otherwise ELSE CHOOSE i \in flagged : TRUE

\* Mutant of Reordered: positions one too low.
ReorderedBelow(rows, seq, primary) ==
  {[r EXCEPT !.primary = (r.image = primary),
             !.order = IF r.image \in ToSet(seq)
                         THEN (CHOOSE k \in DOMAIN seq : seq[k] = r.image) - 2
                         ELSE r.order] : r \in rows}

\* apply_product_image_order: the rows of the images in seq, in that order.
Reordered(rows, seq, primary) ==
  {[r EXCEPT !.primary = (r.image = primary),
             !.order = IF r.image \in ToSet(seq)
                         THEN (CHOOSE k \in DOMAIN seq : seq[k] = r.image) - 1
                         ELSE r.order] : r \in rows}

\* attach_product_image, which saw the gallery seen.
Attached(rows, seen, i, lead) ==
  LET new == [image |-> i, order |-> Len(seen), primary |-> FALSE]
  IN Reordered(rows \cup {new}, IF lead THEN <<i>> \o seen ELSE Append(seen, i),
               IF lead THEN i ELSE PrimaryIn(rows, seen, i))

\* replace_primary_product_image.
Replaced(rows, old, i) ==
  {[r EXCEPT !.primary = FALSE, !.order = @ + 1] : r \in {q \in rows : q.image # old}}
    \cup {[image |-> i, order |-> 0, primary |-> TRUE]}

\* delete_product_image_internal: the image after a deleted primary is promoted.
Removed(rows, seen, i) ==
  LET rest == RemoveFirst(seen, i)
      next == IF rest = <<>> THEN None ELSE PrimaryIn(rows, rest, rest[1])
  IN Reordered({r \in rows : r.image # i}, rest, next)

-----------------------------------------------------------------------------
(* Steps                                                                   *)

Goto(t, record) == tx' = [tx EXCEPT ![t] = record]

ReleaseLocks(t) ==
  /\ productLock' = [p \in Products |-> IF productLock[p] = t THEN None ELSE productLock[p]]
  /\ uploadLock' = [i \in Images |-> IF uploadLock[i] = t THEN None ELSE uploadLock[i]]

\* The error return of a transaction: the request is over.
Rollback(t) ==
  /\ ReleaseLocks(t) /\ Goto(t, Idle)
  /\ UNCHANGED <<stored, rowVars, unsent, raced>>

\* The file a request has replaced, or not recorded, is to be deleted, if there was one.
ThenDiscard(t, i) ==
  Goto(t, IF i = None THEN Idle
          ELSE [Idle EXCEPT !.pc = "discard", !.kind = tx[t].kind, !.row = tx[t].row, !.image = i])

Fault == faults < MaxFaults /\ faults' = faults + 1

-----------------------------------------------------------------------------
(* Uploads                                                                 *)

\* POST /api/products/upload-image, upload_image_to_folder succeeded.
Upload(t) ==
  /\ tx[t].pc = "idle"
  /\ \E i \in unsent :
       /\ stored' = stored \cup {i}
       /\ unsent' = unsent \ {i}
       /\ Goto(t, [Idle EXCEPT !.pc = "save", !.kind = "upload", !.image = i])
  /\ UNCHANGED <<rowVars, lockVars, faults, raced>>

SavePending(t) ==
  /\ tx[t].pc = "save"
  /\ pending' = pending \cup {tx[t].image}
  /\ Goto(t, Idle)
  /\ UNCHANGED <<stored, expired, queue, products, gallery, shown, lockVars,
                 unsent, faults, raced>>

\* The row cannot be written: the file is taken back.
SaveFails(t) ==
  /\ tx[t].pc = "save" /\ Fault
  /\ ThenDiscard(t, tx[t].image)
  /\ UNCHANGED <<stored, rowVars, lockVars, unsent, raced>>

-----------------------------------------------------------------------------
(* The gallery of a product                                                *)

Begin(t, record) ==
  /\ tx[t].pc = "idle"
  /\ Goto(t, record)
  /\ UNCHANGED <<stored, rowVars, lockVars, unsent, faults, raced>>

\* A transaction that consumes the upload i of this admin; NOW() is its start.
Consumer(kind, p, i) ==
  [Idle EXCEPT !.pc = "lock", !.kind = kind, !.row = p, !.image = i,
               !.fresh = i \in pending \ expired]

\* POST /api/products with an image: there is no row to lock.
BeginCreate(t, p, i) ==
  /\ p \notin products \cup {tx[s].row : s \in Handlers}
  /\ Begin(t, [Consumer("create", p, i) EXCEPT !.pc = "consume"])

\* PUT /api/products/{id} with an image: get_product_for_admin, then the
\* transaction.
BeginUpdate(t, p, i) ==
  /\ p \in products
  /\ Begin(t, [Consumer("update", p, i) EXCEPT !.previous = shown[p]])

BeginAttach(t, p, i, lead) ==
  /\ p \in products
  /\ Begin(t, [Consumer("attach", p, i) EXCEPT !.lead = lead])

\* PUT .../images/reorder
BeginReorder(t, p, order) ==
  /\ p \in products /\ order # <<>>
  /\ Begin(t, [Idle EXCEPT !.pc = "lock", !.kind = "reorder", !.row = p, !.seen = order])

\* DELETE .../image (i = None: the primary one), DELETE .../images/{image_id}
BeginDelete(t, p, i) ==
  /\ p \in products /\ shown[p] # None
  /\ Begin(t, [Idle EXCEPT !.pc = "lock", !.kind = "delete", !.row = p, !.image = i])

\* Mutant of LockProduct: the row is read, not locked.
ReadProduct(t) ==
  LET p == tx[t].row
      r == [tx[t] EXCEPT !.existing = IF tx[t].kind \in {"update", "delete"} THEN shown[p] ELSE @,
                         !.seen = IF tx[t].kind \in {"attach", "delete"} THEN Listing(gallery[p])
                                                                         ELSE @]
  IN /\ tx[t].pc = "lock"
     /\ Goto(t, [r EXCEPT !.pc = IF tx[t].kind \in {"update", "attach"} THEN "consume"
                                                                      ELSE "write"])
     /\ UNCHANGED <<stored, rowVars, lockVars, unsent, faults, raced>>

\* lock_product_for_update, fetch_product_images.
LockProduct(t) ==
  LET p == tx[t].row
      r == [tx[t] EXCEPT !.existing = IF tx[t].kind \in {"update", "delete"} THEN shown[p] ELSE @,
                         !.seen = IF tx[t].kind \in {"attach", "delete"} THEN Listing(gallery[p])
                                                                         ELSE @]
  IN /\ tx[t].pc = "lock" /\ productLock[p] = None
     /\ productLock' = [productLock EXCEPT ![p] = t]
     /\ Goto(t, [r EXCEPT !.pc = IF tx[t].kind \in {"update", "attach"} THEN "consume"
                                                                      ELSE "write"])
     /\ UNCHANGED <<stored, rowVars, uploadLock, unsent, faults, raced>>

\* update_product with the image the product shows: there is nothing to consume.
KeepImage(t) ==
  /\ tx[t].pc = "consume" /\ tx[t].kind = "update" /\ tx[t].image = tx[t].existing
  /\ Goto(t, [tx[t] EXCEPT !.pc = "write", !.fresh = FALSE])
  /\ UNCHANGED <<stored, rowVars, lockVars, unsent, faults, raced>>

Consumes(t) ==
  /\ tx[t].pc = "consume"
  /\ tx[t].kind = "update" => tx[t].image # tx[t].existing

\* Mutant of ConsumePending: the upload is looked up, and deleted with the writes.
FindPending(t) ==
  /\ Consumes(t) /\ tx[t].image \in pending /\ tx[t].fresh
  /\ Goto(t, [tx[t] EXCEPT !.pc = "write", !.fresh = FALSE])
  /\ UNCHANGED <<stored, rowVars, lockVars, unsent, faults, raced>>

\* consume_pending_product_image: a DELETE, which waits for another one.
ConsumePending(t) ==
  /\ Consumes(t) /\ tx[t].image \in pending /\ tx[t].fresh
  /\ uploadLock[tx[t].image] = None
  /\ uploadLock' = [uploadLock EXCEPT ![tx[t].image] = t]
  /\ Goto(t, [tx[t] EXCEPT !.pc = "write", !.fresh = FALSE])
  /\ UNCHANGED <<stored, rowVars, productLock, unsent, faults, raced>>

\* No such upload, an expired one, or another URL.
RejectUpload(t) ==
  /\ Consumes(t)
  /\ tx[t].image \in pending /\ tx[t].fresh => uploadLock[tx[t].image] = None
  /\ Rollback(t)
  /\ UNCHANGED faults

\* The gallery is full; the order does not name each image once; there is no
\* such image.
Rejects(t) ==
  LET p == tx[t].row
  IN CASE tx[t].kind = "attach" -> Len(tx[t].seen) >= MaxPerProduct
       [] tx[t].kind = "reorder" -> ~(/\ ToSet(tx[t].seen) = Used(gallery[p])
                                      /\ Len(tx[t].seen) = Cardinality(gallery[p]))
       [] tx[t].kind = "delete" -> IF tx[t].image = None
                                     THEN gallery[p] = {} /\ shown[p] = None
                                     ELSE tx[t].image \notin Used(gallery[p])
       [] OTHER -> FALSE

RejectRequest(t) ==
  /\ tx[t].pc = "write" /\ Rejects(t)
  /\ Rollback(t)
  /\ UNCHANGED faults

\* The image a delete request takes: the one named, or the primary one.
Target(t) ==
  IF tx[t].image # None THEN tx[t].image
  ELSE IF tx[t].seen = <<>> THEN tx[t].existing
  ELSE PrimaryIn(gallery[tx[t].row], tx[t].seen, tx[t].seen[1])

\* The gallery the transaction of t commits.
Written(t) ==
  LET p == tx[t].row   rows == gallery[p]   i == tx[t].image   seen == tx[t].seen
  IN CASE tx[t].kind = "create" -> {[image |-> i, order |-> 0, primary |-> TRUE]}
       [] tx[t].kind = "update" -> IF i = tx[t].existing THEN rows
                                   ELSE Replaced(rows, tx[t].existing, i)
       [] tx[t].kind = "attach" -> Attached(rows, seen, i, tx[t].lead)
       [] tx[t].kind = "reorder" -> Reordered(rows, seen, seen[1])
       [] OTHER -> Removed(rows, seen, Target(t))

\* Mutant of ToDiscard: the image is deleted although the product still shows it.
DiscardPrevious(t, now) ==
  CASE tx[t].kind = "update" -> IF now = None THEN None ELSE tx[t].previous
    [] tx[t].kind = "delete" -> Target(t)
    [] OTHER -> None

\* The file to delete after the commit, given the image the product then shows.
ToDiscard(t, now) ==
  CASE tx[t].kind = "update" -> IF now = None \/ tx[t].previous = now THEN None
                                                                    ELSE tx[t].previous
    [] tx[t].kind = "delete" -> Target(t)
    [] OTHER -> None

\* What the deletion deletes is not what was replaced, or the worker may have
\* deleted the file of the upload that is consumed.
Outdated(t) ==
  \/ tx[t].kind = "update" /\ tx[t].previous # tx[t].existing
  \/ tx[t].image \in expired

\* The writes, sync_product_primary_image and the commit.
CommitImage(t) ==
  LET p == tx[t].row
      consumed == IF tx[t].kind \in {"reorder", "delete"} THEN {} ELSE {tx[t].image}
      now == First(Written(t))
  IN /\ tx[t].pc = "write" /\ ~Rejects(t)
     /\ gallery' = [gallery EXCEPT ![p] = Written(t)]
     /\ shown' = [shown EXCEPT ![p] = now]
     /\ products' = products \cup {p}
     /\ pending' = pending \ consumed
     /\ expired' = expired \ consumed
     /\ ThenDiscard(t, ToDiscard(t, now))
     /\ raced' = (raced \/ Outdated(t))
     /\ ReleaseLocks(t)
     /\ UNCHANGED <<stored, queue, unsent, faults>>

-----------------------------------------------------------------------------
(* Deletions from the store                                                *)

\* Mutant of Discard: the file is left in the store.
DiscardNothing(t) ==
  /\ tx[t].pc = "discard"
  /\ Goto(t, Idle)
  /\ UNCHANGED <<stored, rowVars, lockVars, unsent, faults, raced>>

\* delete_image: ok, or not found.
Discard(t) ==
  /\ tx[t].pc = "discard"
  /\ stored' = stored \ {tx[t].image}
  /\ Goto(t, Idle)
  /\ UNCHANGED <<rowVars, lockVars, unsent, faults, raced>>

\* The call fails, before or after the store has deleted the file: the deletion is
\* queued (enqueue_pending_product_image_deletion).
DiscardFails(t, gone) ==
  /\ tx[t].pc = "discard" /\ Fault
  /\ stored' = IF gone THEN stored \ {tx[t].image} ELSE stored
  /\ queue' = queue \cup {tx[t].image}
  /\ Goto(t, Idle)
  /\ UNCHANGED <<pending, expired, products, gallery, shown, lockVars, unsent,
                 raced>>

-----------------------------------------------------------------------------
(* The cleanup worker, the clock, failures                                 *)

Expire(i) ==
  /\ i \in pending \ expired
  /\ expired' = expired \cup {i}
  /\ UNCHANGED <<stored, pending, queue, products, gallery, shown, lockVars, tx,
                 unsent, faults, raced>>

\* A pass reaches the images: the expired uploads are selected, without a lock.
BeginPass(w) ==
  /\ expired \cup queue # {}
  /\ Begin(w, [Idle EXCEPT !.pc = "sweep", !.kind = "cleanup", !.todo = expired])

\* delete_image of one of them.
SweepFile(w, i) ==
  /\ tx[w].pc = "sweep" /\ i \in tx[w].todo
  /\ stored' = stored \ {i}
  /\ Goto(w, [tx[w] EXCEPT !.pc = "swept", !.image = i, !.todo = @ \ {i}])
  /\ UNCHANGED <<rowVars, lockVars, unsent, faults, raced>>

\* Its row is deleted: the DELETE waits for a request that has done the same.
SweepRow(w) ==
  /\ tx[w].pc = "swept" /\ uploadLock[tx[w].image] = None
  /\ pending' = pending \ {tx[w].image}
  /\ expired' = expired \ {tx[w].image}
  /\ Goto(w, [tx[w] EXCEPT !.pc = "sweep", !.image = None])
  /\ UNCHANGED <<stored, queue, products, gallery, shown, lockVars, unsent,
                 faults, raced>>

\* The uploads are done: the queued deletions are selected.
SelectQueue(w) ==
  /\ tx[w].pc = "sweep" /\ tx[w].todo = {}
  /\ Goto(w, [tx[w] EXCEPT !.pc = "retry", !.todo = queue])
  /\ UNCHANGED <<stored, rowVars, lockVars, unsent, faults, raced>>

RetryFile(w, i) ==
  /\ tx[w].pc = "retry" /\ i \in tx[w].todo
  /\ stored' = stored \ {i}
  /\ Goto(w, [tx[w] EXCEPT !.pc = "retried", !.image = i, !.todo = @ \ {i}])
  /\ UNCHANGED <<rowVars, lockVars, unsent, faults, raced>>

RetryRow(w) ==
  /\ tx[w].pc = "retried"
  /\ queue' = queue \ {tx[w].image}
  /\ Goto(w, [tx[w] EXCEPT !.pc = "retry", !.image = None])
  /\ UNCHANGED <<stored, pending, expired, products, gallery, shown, lockVars,
                 unsent, faults, raced>>

\* The store refuses a deletion: the pass goes on with the next image.
SkipFile(w, i) ==
  /\ tx[w].pc \in {"sweep", "retry"} /\ i \in tx[w].todo /\ Fault
  /\ Goto(w, [tx[w] EXCEPT !.todo = @ \ {i}])
  /\ UNCHANGED <<stored, rowVars, lockVars, unsent, raced>>

EndPass(w) ==
  /\ tx[w].pc = "retry" /\ tx[w].todo = {}
  /\ Goto(w, Idle)
  /\ UNCHANGED <<stored, rowVars, lockVars, unsent, faults, raced>>

\* A lost connection, a database error, a client that is gone: the transaction is
\* rolled back and nothing that was still to be done is done.
Abort(t) == tx[t].pc # "idle" /\ Fault /\ Rollback(t)

\* Every image is uploaded, used or gone.
Quiescent ==
  /\ unsent = {}
  /\ \A t \in Txs : tx[t].pc = "idle"
  /\ UNCHANGED vars

-----------------------------------------------------------------------------
RequestStep(t) ==
  \/ SavePending(t)
  \/ LockProduct(t) \/ KeepImage(t) \/ ConsumePending(t) \/ RejectUpload(t)
  \/ RejectRequest(t) \/ CommitImage(t)
  \/ Discard(t)

SweepStep(w) == (\E i \in Images : SweepFile(w, i)) \/ SweepRow(w) \/ SelectQueue(w)
RetryStep(w) == (\E i \in Images : RetryFile(w, i)) \/ RetryRow(w) \/ EndPass(w)
WorkerStep(w) == SweepStep(w) \/ RetryStep(w)

Next ==
  \/ \E t \in Handlers : Upload(t)
  \/ \E t \in Handlers, p \in Products, i \in pending : BeginCreate(t, p, i)
  \/ \E t \in Handlers, p \in Editable : \E i \in pending \cup Used(gallery[p]) : BeginUpdate(t, p, i)
  \/ \E t \in Handlers, p \in Editable, i \in pending, lead \in BOOLEAN : BeginAttach(t, p, i, lead)
  \/ \E t \in Handlers, p \in Editable : \E s \in SetToSeqs(Used(gallery[p])) : BeginReorder(t, p, s)
  \/ \E t \in Handlers, p \in Editable : \E i \in Used(gallery[p]) \cup {None} : BeginDelete(t, p, i)
  \/ \E t \in Handlers : RequestStep(t) \/ SaveFails(t)
  \/ \E t \in Handlers, gone \in BOOLEAN : DiscardFails(t, gone)
  \/ \E i \in Images : Expire(i)
  \/ \E w \in Workers : BeginPass(w) \/ WorkerStep(w)
  \/ \E w \in Workers, i \in Images : SkipFile(w, i)
  \/ \E t \in Txs : Abort(t)
  \/ Quiescent

Spec == Init /\ [][Next]_vars

-----------------------------------------------------------------------------
(* Properties                                                              *)

\* The images of the galleries.
Shown == UNION {Used(gallery[p]) : p \in Products}

\* The catalogue shows the image the gallery lists first: whatever attaches,
\* replacements, reorders and deletions commit, a gallery has one primary image,
\* it comes first, positions are distinct, and products.image_public_id names it.
GalleryAgrees ==
  \A p \in Products :
    LET rows == gallery[p]
    IN /\ \A a, b \in rows : a.order = b.order \/ a.image = b.image => a = b
       /\ rows # {} => \E r \in rows : /\ r.primary /\ shown[p] = r.image
                                       /\ \A q \in rows \ {r} : ~q.primary /\ r.order < q.order
       /\ rows = {} => shown[p] = None

\* The limit on the images of a product holds although it is checked before the
\* insert, and an upload is used once although two requests name it: never in two
\* galleries, and never waiting to be used or cleaned up while it is in one.
UploadsAreUsedOnce ==
  /\ \A p \in Products :
       /\ Cardinality(gallery[p]) <= MaxPerProduct
       /\ Used(gallery[p]) \cap pending = {}
  /\ \A p, q \in Products : p # q => Used(gallery[p]) \cap Used(gallery[q]) = {}

\* A gallery does not show a file that has been deleted, whatever fails, unless an
\* update used an outdated read: of the image it replaces (product/handler.rs:102),
\* or of the expiry of the upload it consumes (NOW() of product/service.rs:939).
GalleriesExist == ~raced => \A p \in Products : Used(gallery[p]) \subseteq stored

\* The files a request or the worker still has to deal with.
InHand == {tx[t].image : t \in Handlers}

\* Without failures and outdated reads no file is forgotten: each is shown, waits
\* to be used, or is going to be deleted.
NothingLeaks == ~raced /\ faults = 0 => stored \subseteq Shown \cup pending \cup queue \cup InHand

\* README.md: "Replaced product images are deleted from Cloudinary. Failed
\* deletions are queued and retried by the cleanup worker".
ReplacedImagesGo ==
  (\A t \in Handlers : tx[t].pc = "idle") => stored \subseteq Shown \cup pending \cup queue
=============================================================================
