------------------------------- MODULE Customer -------------------------------
(***************************************************************************)
(* What a customer keeps: addresses and the orders shipped to them, a      *)
(* profile image, payment slips, a cart.  Their requests meet at the       *)
(* customer's row in users, at the rows of addresses and orders, and at    *)
(* the image store.                                                        *)
(*                                                                         *)
(*   address/service.rs   create, update, delete; one address is default   *)
(*   order/service.rs     create_order as far as the address and the cart  *)
(*                        are concerned; update_order_payment_slip         *)
(*   order/handler.rs,    uploads before the transaction, deletions after  *)
(*   user/handler.rs      it                                               *)
(*   user/service.rs      update_profile                                   *)
(*   cart/service.rs      add, update, remove, clear                       *)
(*                                                                         *)
(* One customer.  The variables hold committed rows and stored files; what *)
(* a request has read is in its record tx[t].                              *)
(***************************************************************************)
EXTENDS Integers, SequencesExt

CONSTANTS
  Addresses, Orders,  \* ids
  Contents,           \* what an address can say
  Files,              \* uploads
  Txs,                \* requests
  MaxStock,           \* bound: the stock of the product the cart is for
  MaxRequests,        \* bound: the requests there ever are
  MaxFaults,          \* bound: failed statements and calls, lost requests
  None

ASSUME NoneAssumption == None \notin Addresses \cup Orders \cup Contents \cup Files \cup Txs
ASSUME BoundAssumption ==
  MaxStock \in Nat \ {0} /\ MaxRequests \in Nat /\ MaxFaults \in Nat

VARIABLES
  book,         \* addresses, in the order of created_at
  orders,       \* the customer's orders, None: not placed
  avatar,       \* users.image_public_id
  stored,       \* the customer's files in the image store
  unsent,       \* the files not uploaded yet
  stock, peak,  \* of the product; history: the highest it has been
  cart,         \* cart_items.quantity, 0: no row
  userLock,     \* the request holding the users row FOR UPDATE, or None
  addressLock,  \* the request holding an address row, or None
  orderLock,    \* the request holding an order row, or None
  tx, requests, faults,
  unanswered    \* history: a picture was committed and its request told otherwise

addressVars == <<book, addressLock>>
pictureVars == <<avatar, stored, unsent>>
cartVars == <<stock, peak, cart>>
countVars == <<requests, faults, unanswered>>
vars == <<book, orders, avatar, stored, unsent, stock, peak, cart, userLock, addressLock,
          orderLock, tx, requests, faults, unanswered>>

Address == [id : Addresses, content : Contents, default : BOOLEAN]

\* Slips are taken while the status is PENDING, PAYMENT_REVIEW or PAYMENT_FAILED: open.
Order == [open : BOOLEAN, ship : Addresses \cup {None}, snapshot : Contents,
          slip : Files \cup {None}]

ASSUME NoOrderAssumption == None \notin Order

Idle == [pc |-> "idle", kind |-> "none", row |-> None, content |-> None, wish |-> "keep",
         default |-> FALSE, fallback |-> None, file |-> None, previous |-> None, n |-> 0]

(***************************************************************************)
(* tx[t].pc: "owner": the request asks for its row in users; "rows": it    *)
(* holds it and asks for the addresses it reads; "pick": a checkout asks   *)
(* for its address; "place": it has it, the order is to be inserted;       *)
(* "save": a file is uploaded or to be removed, the row naming it is asked *)
(* for; "write": the writes and the commit are left; "discard": file is to *)
(* be deleted from the store; "cart": the stock has been read.             *)
(***************************************************************************)
TxState ==
  [pc : {"idle", "owner", "rows", "pick", "place", "save", "write", "discard", "cart"},
   kind : {"none", "create", "update", "delete", "checkout", "profile", "slip", "add", "set"},
   row : Addresses \cup Orders \cup {None},
   content : Contents \cup {None},
   wish : {"keep", "yes", "no"},           \* is_default of the request
   default : BOOLEAN,                      \* the address was, or is to be, the default
   fallback : Addresses \cup {None},       \* select_replacement_address_id
   file : Files \cup {None}, previous : Files \cup {None},
   n : 0 .. MaxStock]                      \* the stock read

Ids == {book[i].id : i \in DOMAIN book}

TypeOK ==
  /\ book \in Seq(Address)
  /\ \A i, j \in DOMAIN book : book[i].id = book[j].id => i = j
  /\ orders \in [Orders -> Order \cup {None}]
  /\ avatar \in Files \cup {None}
  /\ stored \subseteq Files /\ unsent \subseteq Files \ stored
  /\ stock \in 0 .. MaxStock /\ peak \in stock .. MaxStock /\ cart \in Nat
  /\ userLock \in Txs \cup {None}
  /\ addressLock \in [Addresses -> Txs \cup {None}]
  /\ orderLock \in [Orders -> Txs \cup {None}]
  /\ tx \in [Txs -> TxState]
  /\ requests \in 0 .. MaxRequests /\ faults \in 0 .. MaxFaults
  /\ unanswered \in BOOLEAN

Init ==
  /\ book = <<>>
  /\ orders = [o \in Orders |-> None]
  /\ avatar = None /\ stored = {} /\ unsent = Files
  /\ stock = 1 /\ peak = 1 /\ cart = 0
  /\ userLock = None
  /\ addressLock = [a \in Addresses |-> None]
  /\ orderLock = [o \in Orders |-> None]
  /\ tx = [t \in Txs |-> Idle]
  /\ requests = 0 /\ faults = 0 /\ unanswered = FALSE

-----------------------------------------------------------------------------
(* Steps                                                                   *)

Goto(t, record) == tx' = [tx EXCEPT ![t] = record]

Begin(t, record) ==
  /\ tx[t].pc = "idle" /\ requests < MaxRequests
  /\ requests' = requests + 1
  /\ Goto(t, record)
  /\ UNCHANGED <<addressVars, orders, avatar, cartVars, userLock, orderLock, faults, unanswered>>

ReleaseLocks(t) ==
  /\ userLock' = IF userLock = t THEN None ELSE userLock
  /\ addressLock' = [a \in Addresses |-> IF addressLock[a] = t THEN None ELSE addressLock[a]]
  /\ orderLock' = [o \in Orders |-> IF orderLock[o] = t THEN None ELSE orderLock[o]]

\* The transaction of t is rolled back, and the request goes on as record.
Rollback(t, record) ==
  /\ ReleaseLocks(t) /\ Goto(t, record)
  /\ UNCHANGED <<book, orders, pictureVars, cartVars, requests, unanswered>>

ThenDiscard(file) == IF file = None THEN Idle
                     ELSE [Idle EXCEPT !.pc = "discard", !.file = file]

Fault == faults < MaxFaults /\ faults' = faults + 1

-----------------------------------------------------------------------------
(* Addresses                                                               *)

Place(a) == CHOOSE i \in DOMAIN book : book[i].id = a
Named(a) == book[Place(a)]
Others(a) == RemoveAt(book, Place(a))

\* select_replacement_address_id: the latest other address.
Latest(a) == IF Others(a) = <<>> THEN None ELSE Last(Others(a)).id

NewAddress(a) == a \notin Ids /\ \A s \in Txs : tx[s].row # a

BeginCreateAddress(t, a, c, wish) ==
  /\ NewAddress(a)
  /\ Begin(t, [Idle EXCEPT !.pc = "owner", !.kind = "create", !.row = a,
                           !.content = c, !.wish = wish])
  /\ UNCHANGED <<stored, unsent>>

BeginUpdateAddress(t, a, c, wish) ==
  /\ a \in Ids
  /\ Begin(t, [Idle EXCEPT !.pc = "owner", !.kind = "update", !.row = a,
                           !.content = c, !.wish = wish])
  /\ UNCHANGED <<stored, unsent>>

BeginDeleteAddress(t, a) ==
  /\ a \in Ids
  /\ Begin(t, [Idle EXCEPT !.pc = "owner", !.kind = "delete", !.row = a])
  /\ UNCHANGED <<stored, unsent>>

\* Mutant of LockOwner: the row of the customer is not locked.
FindOwner(t) ==
  /\ tx[t].pc = "owner"
  /\ Goto(t, [tx[t] EXCEPT !.pc = "rows"])
  /\ UNCHANGED <<addressVars, orders, pictureVars, cartVars, userLock, orderLock, countVars>>

\* lock_address_owner.
LockOwner(t) ==
  /\ tx[t].pc = "owner" /\ userLock = None
  /\ userLock' = t
  /\ Goto(t, [tx[t] EXCEPT !.pc = "rows"])
  /\ UNCHANGED <<addressVars, orders, pictureVars, cartVars, orderLock, countVars>>

\* The addresses the statements of t lock.  A creation looks at any one address
\* (LIMIT 1); what it makes the default unsets the others.
Locked(t, any) ==
  LET a == tx[t].row
  IN CASE tx[t].kind = "create" -> IF tx[t].wish = "yes" THEN Ids ELSE Ids \cap {any}
       [] tx[t].kind = "update" /\ tx[t].wish = "yes" -> Ids
       [] tx[t].kind = "update" /\ tx[t].wish = "keep" -> {a}
       [] OTHER -> {a} \cup (IF Named(a).default THEN {Latest(a)} \ {None} ELSE {})

\* Is the new address to be the default, is the present one?
Defaults(t) ==
  IF tx[t].kind = "create" THEN tx[t].wish = "yes" \/ book = <<>> ELSE Named(tx[t].row).default

\* Which address takes its place.
Replacement(t) ==
  IF Defaults(t) /\ (tx[t].kind = "delete" \/ tx[t].wish = "no") THEN Latest(tx[t].row) ELSE None

\* What t goes on with.
Seen(t) ==
  [tx[t] EXCEPT !.pc = "write", !.default = Defaults(t), !.fallback = Replacement(t)]

Present(t) == tx[t].kind = "create" \/ tx[t].row \in Ids

ReadAddresses(t, any) ==
  /\ tx[t].pc = "rows" /\ Present(t)
  /\ \A a \in Locked(t, any) : addressLock[a] = None
  /\ addressLock' = [a \in Addresses |-> IF a \in Locked(t, any) THEN t ELSE addressLock[a]]
  /\ Goto(t, Seen(t))
  /\ UNCHANGED <<book, orders, pictureVars, cartVars, userLock, orderLock, countVars>>

\* 404: the address is gone.
AddressIsGone(t) ==
  /\ tx[t].pc = "rows" /\ ~Present(t)
  /\ Rollback(t, Idle) /\ UNCHANGED faults

\* The statement UPDATE addresses SET is_default = FALSE of the others is run.
Unsets(t) ==
  \/ tx[t].kind = "create" /\ tx[t].default
  \/ tx[t].kind = "update" /\ tx[t].wish = "yes"

\* is_default of the row r after the writes of t: next_is_default of the address it
\* updates, FALSE of those it unsets, TRUE of the one it promotes.
IsDefault(t, r) ==
  CASE r.id = tx[t].row -> \/ tx[t].wish = "yes"
                           \/ tx[t].wish = "no" /\ tx[t].default /\ tx[t].fallback = None
                           \/ tx[t].wish = "keep" /\ r.default
    [] r.id # tx[t].row /\ Unsets(t) -> FALSE
    [] r.id # tx[t].row /\ ~Unsets(t) /\ r.id = tx[t].fallback -> TRUE
    [] OTHER -> r.default

\* The addresses t commits.
Written(t) ==
  LET a == tx[t].row
      kept == IF tx[t].kind = "delete" THEN Others(a) ELSE book
      rest == [i \in DOMAIN kept |->
                 [kept[i] EXCEPT !.default = IsDefault(t, kept[i]),
                                 !.content = IF kept[i].id = a THEN tx[t].content ELSE @]]
  IN IF tx[t].kind = "create"
       THEN Append(rest, [id |-> a, content |-> tx[t].content, default |-> tx[t].default])
       ELSE rest

\* ON DELETE SET NULL: the orders shipped to an address that is deleted.
ShippedTo(a) == {o \in Orders : orders[o] # None /\ orders[o].ship = a}

WriteAddresses(t) ==
  LET gone == IF tx[t].kind = "delete" THEN ShippedTo(tx[t].row) ELSE {}
  IN /\ tx[t].pc = "write" /\ tx[t].kind \in {"create", "update", "delete"}
     /\ \A o \in gone : orderLock[o] = None
     /\ book' = Written(t)
     /\ orders' = [o \in Orders |-> IF o \in gone THEN [orders[o] EXCEPT !.ship = None]
                                                 ELSE orders[o]]
     /\ ReleaseLocks(t) /\ Goto(t, Idle)
     /\ UNCHANGED <<pictureVars, cartVars, countVars>>

-----------------------------------------------------------------------------
(* Checkout                                                                *)

BeginCheckout(t, a) ==
  /\ a \in Ids
  /\ Begin(t, [Idle EXCEPT !.pc = "pick", !.kind = "checkout", !.row = a])
  /\ UNCHANGED <<stored, unsent>>

\* Mutant of PickAddress: the address is read, not locked.
ReadAddress(t) ==
  LET a == tx[t].row
  IN /\ tx[t].pc = "pick" /\ a \in Ids
     /\ Goto(t, [tx[t] EXCEPT !.pc = "place", !.content = Named(a).content])
     /\ UNCHANGED <<addressVars, orders, pictureVars, cartVars, userLock, orderLock, countVars>>

\* Mutant of PickAddress: what the address says is not copied.
PickAddressOnly(t) ==
  LET a == tx[t].row
  IN /\ tx[t].pc = "pick" /\ a \in Ids /\ addressLock[a] = None
     /\ addressLock' = [addressLock EXCEPT ![a] = t]
     /\ Goto(t, [tx[t] EXCEPT !.pc = "place"])
     /\ UNCHANGED <<book, orders, pictureVars, cartVars, userLock, orderLock, countVars>>

\* SELECT ... FROM addresses ... FOR UPDATE.
PickAddress(t) ==
  LET a == tx[t].row
  IN /\ tx[t].pc = "pick" /\ a \in Ids /\ addressLock[a] = None
     /\ addressLock' = [addressLock EXCEPT ![a] = t]
     /\ Goto(t, [tx[t] EXCEPT !.pc = "place", !.content = Named(a).content])
     /\ UNCHANGED <<book, orders, pictureVars, cartVars, userLock, orderLock, countVars>>

\* 400: the address is gone.
NoSuchAddress(t) ==
  /\ tx[t].pc = "pick" /\ tx[t].row \notin Ids
  /\ Rollback(t, Idle) /\ UNCHANGED faults

\* The INSERT of the order, whose foreign key shares the row in users with nobody
\* who holds it FOR UPDATE; the items (OrderStock), the cart, the commit.
PlaceOrder(t, o) ==
  /\ tx[t].pc = "place" /\ orders[o] = None /\ userLock = None
  /\ orders' = [orders EXCEPT ![o] = [open |-> TRUE, ship |-> tx[t].row,
                                      snapshot |-> tx[t].content, slip |-> None]]
  /\ cart' = 0
  /\ ReleaseLocks(t) /\ Goto(t, Idle)
  /\ UNCHANGED <<book, pictureVars, stock, peak, countVars>>

\* An admin, the customer or the cleanup worker moves the order on (OrderStock).
CloseOrder(o) ==
  /\ orders[o] # None /\ orders[o].open /\ orderLock[o] = None
  /\ orders' = [orders EXCEPT ![o].open = FALSE]
  /\ UNCHANGED <<addressVars, pictureVars, cartVars, userLock, orderLock, tx, countVars>>

\* t holds the row in users and asks for an address; s has locked it in a checkout
\* and asks for the row in users.
Deadlocked(t, s) ==
  /\ tx[t].pc = "rows" /\ Present(t) /\ userLock = t
  /\ tx[s].pc = "place"
  /\ \E any \in Addresses : \E a \in Locked(t, any) : addressLock[a] = s

\* The database rolls one of them back: SQLSTATE 40P01, an error return.
DeadlockVictim(t) ==
  /\ \E s \in Txs : Deadlocked(t, s) \/ Deadlocked(s, t)
  /\ Rollback(t, Idle) /\ UNCHANGED faults

-----------------------------------------------------------------------------
(* Pictures                                                                *)

\* PUT /api/users/me/profile with an image, PUT /api/orders/{id}/payment-slip: the
\* file is in the store.
BeginUpload(t, kind, row) ==
  \E i \in unsent :
    /\ stored' = stored \cup {i} /\ unsent' = unsent \ {i}
    /\ Begin(t, [Idle EXCEPT !.pc = "save", !.kind = kind, !.row = row, !.file = i])

BeginProfileImage(t) == BeginUpload(t, "profile", None)
BeginSlip(t, o) == orders[o] # None /\ BeginUpload(t, "slip", o)

\* remove_image=true.
BeginRemoveImage(t) ==
  /\ Begin(t, [Idle EXCEPT !.pc = "save", !.kind = "profile"])
  /\ UNCHANGED <<stored, unsent>>

\* Mutant of LockProfile: the row is read, not locked.
ReadProfile(t) ==
  /\ tx[t].pc = "save" /\ tx[t].kind = "profile"
  /\ Goto(t, [tx[t] EXCEPT !.pc = "write", !.previous = avatar])
  /\ UNCHANGED <<addressVars, orders, pictureVars, cartVars, userLock, orderLock, countVars>>

\* update_profile: FOR UPDATE.
LockProfile(t) ==
  /\ tx[t].pc = "save" /\ tx[t].kind = "profile" /\ userLock = None
  /\ userLock' = t
  /\ Goto(t, [tx[t] EXCEPT !.pc = "write", !.previous = avatar])
  /\ UNCHANGED <<addressVars, orders, pictureVars, cartVars, orderLock, countVars>>

\* update_order_payment_slip: FOR UPDATE.
LockOrder(t) ==
  LET o == tx[t].row
  IN /\ tx[t].pc = "save" /\ tx[t].kind = "slip"
     /\ orderLock[o] = None /\ orders[o].open
     /\ orderLock' = [orderLock EXCEPT ![o] = t]
     /\ Goto(t, [tx[t] EXCEPT !.pc = "write", !.previous = orders[o].slip])
     /\ UNCHANGED <<addressVars, orders, pictureVars, cartVars, userLock, countVars>>

\* 400: payment is approved, or the order closed; the new file is taken back.
OrderIsClosed(t) ==
  /\ tx[t].pc = "save" /\ tx[t].kind = "slip"
  /\ orderLock[tx[t].row] = None /\ ~orders[tx[t].row].open
  /\ Rollback(t, ThenDiscard(tx[t].file)) /\ UNCHANGED faults

\* The UPDATE and the commit; the previous file is to leave the store.
WritePicture(t) ==
  LET o == tx[t].row
  IN /\ tx[t].pc = "write" /\ tx[t].kind \in {"profile", "slip"}
     /\ avatar' = IF tx[t].kind = "profile" THEN tx[t].file ELSE avatar
     /\ orders' = IF tx[t].kind = "slip" THEN [orders EXCEPT ![o].slip = tx[t].file] ELSE orders
     /\ ReleaseLocks(t) /\ Goto(t, ThenDiscard(tx[t].previous))
     /\ UNCHANGED <<book, stored, unsent, cartVars, countVars>>

\* The commit goes through but its answer is lost: the handler takes the new file
\* back although the row names it.
WriteUnanswered(t) ==
  LET o == tx[t].row
  IN /\ tx[t].pc = "write" /\ tx[t].kind \in {"profile", "slip"} /\ Fault
     /\ avatar' = IF tx[t].kind = "profile" THEN tx[t].file ELSE avatar
     /\ orders' = IF tx[t].kind = "slip" THEN [orders EXCEPT ![o].slip = tx[t].file] ELSE orders
     /\ unanswered' = TRUE
     /\ ReleaseLocks(t) /\ Goto(t, ThenDiscard(tx[t].file))
     /\ UNCHANGED <<book, stored, unsent, cartVars, requests>>

\* Mutant of SaveFails: the previous file goes, as after a success.
SaveFailsLate(t) ==
  /\ tx[t].pc \in {"save", "write"} /\ tx[t].kind \in {"profile", "slip"} /\ Fault
  /\ Rollback(t, ThenDiscard(tx[t].previous))

\* The transaction fails: the handler takes the new file back.
SaveFails(t) ==
  /\ tx[t].pc \in {"save", "write"} /\ tx[t].kind \in {"profile", "slip"} /\ Fault
  /\ Rollback(t, ThenDiscard(tx[t].file))

\* delete_image.
Discard(t) ==
  /\ tx[t].pc = "discard"
  /\ stored' = stored \ {tx[t].file}
  /\ Goto(t, Idle)
  /\ UNCHANGED <<addressVars, orders, avatar, unsent, cartVars, userLock, orderLock, countVars>>

-----------------------------------------------------------------------------
(* Cart                                                                    *)

\* fetch_active_product_availability, of add_item_to_cart and
\* update_cart_item_quantity.
BeginCart(t, kind) ==
  /\ stock > 0
  /\ Begin(t, [Idle EXCEPT !.pc = "cart", !.kind = kind, !.n = stock])
  /\ UNCHANGED <<stored, unsent>>

\* Mutant of Accepts: the upsert has no WHERE.
AcceptsAll(t, q) == q <= tx[t].n /\ (tx[t].kind = "set" => cart > 0)

\* The quantity q is not more than the stock read, nor is what the upsert adds it to;
\* an update finds a row.
Accepts(t, q) ==
  /\ q <= tx[t].n
  /\ IF tx[t].kind = "add" THEN cart + q <= tx[t].n ELSE cart > 0

WriteCart(t, q) ==
  /\ tx[t].pc = "cart" /\ Accepts(t, q)
  /\ cart' = IF tx[t].kind = "add" THEN cart + q ELSE q
  /\ Goto(t, Idle)
  /\ UNCHANGED <<addressVars, orders, pictureVars, stock, peak, userLock, orderLock, countVars>>

RefuseCart(t, q) ==
  /\ tx[t].pc = "cart" /\ ~Accepts(t, q)
  /\ Goto(t, Idle)
  /\ UNCHANGED <<addressVars, orders, pictureVars, cartVars, userLock, orderLock, countVars>>

\* remove_item_from_cart, clear_cart.
DropCart ==
  /\ cart > 0 /\ requests < MaxRequests
  /\ cart' = 0 /\ requests' = requests + 1
  /\ UNCHANGED <<addressVars, orders, pictureVars, stock, peak, userLock, orderLock, tx, faults, unanswered>>

\* Orders and admins change the stock (OrderStock).
ChangeStock(n) ==
  /\ n # stock
  /\ stock' = n /\ peak' = IF n > peak THEN n ELSE peak
  /\ UNCHANGED <<addressVars, orders, pictureVars, cart, userLock, orderLock, tx, countVars>>

-----------------------------------------------------------------------------
\* An error return of the database, a client that is gone; nothing more is done.
Abort(t) == tx[t].pc # "idle" /\ Fault /\ Rollback(t, Idle)

Quiescent ==
  /\ requests = MaxRequests /\ \A t \in Txs : tx[t].pc = "idle"
  /\ UNCHANGED vars

BeginAddress(t) ==
  \E a \in Addresses :
    \/ \E c \in Contents, wish \in {"keep", "yes"} : BeginCreateAddress(t, a, c, wish)
    \/ \E c \in Contents, wish \in {"keep", "yes", "no"} : BeginUpdateAddress(t, a, c, wish)
    \/ BeginDeleteAddress(t, a)
    \/ BeginCheckout(t, a)

BeginOther(t) ==
  \/ BeginProfileImage(t) \/ BeginRemoveImage(t)
  \/ \E o \in Orders : BeginSlip(t, o)
  \/ \E kind \in {"add", "set"} : BeginCart(t, kind)

Step(t) ==
  \/ LockOwner(t) \/ AddressIsGone(t) \/ WriteAddresses(t)
  \/ \E any \in Addresses : ReadAddresses(t, any)
  \/ PickAddress(t) \/ NoSuchAddress(t)
  \/ \E o \in Orders : PlaceOrder(t, o)
  \/ DeadlockVictim(t)
  \/ LockProfile(t) \/ LockOrder(t) \/ OrderIsClosed(t) \/ WritePicture(t) \/ Discard(t)
  \/ \E q \in 1 .. MaxStock : WriteCart(t, q) \/ RefuseCart(t, q)

Next ==
  \/ \E t \in Txs : BeginAddress(t) \/ BeginOther(t) \/ Step(t)
  \/ \E t \in Txs : SaveFails(t) \/ WriteUnanswered(t) \/ Abort(t)
  \/ \E o \in Orders : CloseOrder(o)
  \/ \E n \in 0 .. MaxStock : ChangeStock(n)
  \/ DropCart
  \/ Quiescent

Spec == Init /\ [][Next]_vars

-----------------------------------------------------------------------------
(* Properties                                                              *)

\* README.md: "Default address uniqueness is enforced at the database layer".  The
\* index is never needed: whatever requests run at the same time, a customer with
\* addresses has a default one, and only one.
OneDefault == book # <<>> => \E i \in DOMAIN book : \A j \in DOMAIN book : book[j].default = (j = i)

\* An order is shipped to what its address says when the order is committed, and
\* that is what it goes on to say when the address is changed or deleted.
ShippedAsAddressed ==
  [][\A o \in Orders : orders'[o] # None =>
       IF orders[o] = None
         THEN \E r \in ToSet(book') : r.id = orders'[o].ship /\ r.content = orders'[o].snapshot
         ELSE orders'[o].snapshot = orders[o].snapshot]_vars

Slips == {orders[o].slip : o \in {p \in Orders : orders[p] # None}}

\* The profile image and the payment slips that are shown are in the store, whatever
\* fails, and whoever replaces them at the same time, unless the answer to a commit
\* is lost.
PicturesExist == ~unanswered => ({avatar} \cup Slips) \ {None} \subseteq stored

InHand == {tx[t].file : t \in Txs}

\* Without failures a file nobody shows is deleted.
NoFileIsForgotten == faults = 0 => stored \subseteq {avatar} \cup Slips \cup InHand

\* A cart does not come to hold more than there has been in stock, although the stock
\* is read by an earlier statement (cart/service.rs:73) and two requests add to it.
CartIsCovered == cart <= peak
=============================================================================
