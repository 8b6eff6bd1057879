----------------------------- MODULE OrderStock -----------------------------
(***************************************************************************)
(* Orders and the stock they take, as concurrent PostgreSQL transactions   *)
(* (READ COMMITTED) started by request handlers and by the cleanup worker: *)
(*                                                                         *)
(*   order/service.rs       create_order, update_order_payment_slip,       *)
(*                          update_order_for_admin                         *)
(*   shared/maintenance.rs  cancel_stale_orders                            *)
(*   product/service.rs     update_product, delete_product (the stock,     *)
(*                          price and is_active columns)                   *)
(*   cart/service.rs        the rows create_order clears                   *)
(*                                                                         *)
(* The product, order and cart variables hold COMMITTED rows.  What a      *)
(* transaction has written and not yet committed is in its own record      *)
(* tx[t], so that a rollback is just forgetting the record.  A row lock is *)
(* held until the transaction ends.                                        *)
(***************************************************************************)
EXTENDS OrderQuantities

CONSTANTS
  Products,       \* rows of products
  Users,          \* customers
  Handlers,       \* transactions run by request handlers
  Cleaners,       \* transactions run by the cleanup worker of an instance
  Requests,       \* the item lists a client may post: sequences of
                  \* [product, qty]; nothing forbids a product twice, or qty <= 0
  Prices,         \* prices an admin may set
  StockEdits,     \* stock values an admin may set
  Editable,       \* products admins edit while orders run
  AdminTargets,   \* statuses admins ask for
  TimedStatuses,  \* statuses whose timeout is configured (> 0 minutes)
  BatchSize,      \* STALE_ORDER_BATCH_SIZE
  MaxOrders,      \* bound: orders ever begun
  MaxCartRows,    \* bound: cart_items rows ever inserted
  MaxFaults,      \* bound: transactions lost to a crash, a dropped
                  \* connection or a disconnected client
  None

Txs == Handlers \cup Cleaners
Orders == 1 .. MaxOrders       \* in the order of created_at
CartRows == 1 .. MaxCartRows

Statuses == {"PENDING", "PAYMENT_REVIEW", "PAYMENT_FAILED", "PAID",
             "SHIPPED", "DELIVERED", "CANCELLED"}

ASSUME NoneAssumption == None \notin Txs \cup Products \cup Users
ASSUME TxAssumption == Handlers \cap Cleaners = {}
ASSUME BoundAssumption ==
  /\ MaxOrders \in Nat /\ BatchSize \in Nat \ {0}
  /\ MaxCartRows \in Nat /\ MaxFaults \in Nat
ASSUME RequestAssumption ==
  \A r \in Requests : /\ r \in Seq([product : Products, qty : Int])
                      /\ Len(r) \in 1 .. MaxLines
                      /\ \A i \in DOMAIN r : r[i].qty <= MaxInt
ASSUME EditAssumption ==
  /\ StockEdits \subseteq 0 .. MaxInt
  /\ Editable \subseteq Products
  /\ AdminTargets \subseteq Statuses
  /\ TimedStatuses \subseteq {"PENDING", "PAYMENT_FAILED"}

VARIABLES
  stock, price, active,                           \* products
  status, lines, owner, tracking, slip, timedOut, \* orders, order_items
  cart,       \* cart_items rows in the cart of each user
  nextRow,    \* the next cart_items row
  rowLock,    \* the transaction holding a product row, or None
  orderLock,  \* the transaction holding an order row, or None
  tx,         \* the transactions
  nextOrder,  \* the next order id
  faults,     \* faults so far
  supplied    \* history: units put on sale, corrected by each admin edit

productVars == <<stock, price, active, supplied>>
orderVars == <<status, lines, owner, tracking, slip, timedOut>>
cartVars == <<cart, nextRow>>
lockVars == <<rowLock, orderLock>>
vars == <<stock, price, active, supplied, status, lines, owner, tracking,
          slip, timedOut, cart, nextRow, rowLock, orderLock, tx, nextOrder, faults>>

NoAmount == [p \in Products |-> 0]

Idle == [pc |-> "idle", kind |-> "none", user |-> None, batch |-> {},
         todo |-> <<>>, done |-> <<>>, price |-> None, want |-> None,
         amount |-> NoAmount, target |-> "NONE", tracked |-> FALSE,
         basket |-> {}, cleared |-> {}]

RequestLine == [product : Products, qty : Int]
OrderLine == [product : Products, qty : 1 .. MaxInt, price : Prices]

(***************************************************************************)
(* tx[t]: a create_order transaction has kind "create", the lines still to *)
(* process in todo and the order_items rows it wrote in done; the others   *)
(* change the status of the orders in batch to target and first add        *)
(* amount[p] to the stock of each product with amount[p] > 0, want being   *)
(* the row they ask for.  pc = "lock": asking for a product row; "take":   *)
(* the row is locked and read; "clear": only the cart is left; "write":    *)
(* only the commit is left.  basket (history) is what the cart held when   *)
(* the checkout began, cleared the cart_items rows its DELETE removed.     *)
(***************************************************************************)
TxState ==
  [pc : {"idle", "lock", "take", "clear", "write"},
   kind : {"none", "create", "admin", "slip", "stale"},
   user : Users \cup {None}, batch : SUBSET Orders,
   todo : Seq(RequestLine), done : Seq(OrderLine),
   price : Prices \cup {None}, want : Products \cup {None},
   amount : [Products -> Nat], target : Statuses \cup {"NONE"},
   tracked : BOOLEAN, basket : SUBSET CartRows, cleared : SUBSET CartRows]

TypeOK ==
  /\ stock \in [Products -> 0 .. MaxInt]
  /\ price \in [Products -> Prices]
  /\ active \in [Products -> BOOLEAN]
  /\ supplied \in [Products -> Int]
  /\ status \in [Orders -> Statuses \cup {"NONE"}]
  /\ lines \in [Orders -> Seq(OrderLine)]
  /\ owner \in [Orders -> Users \cup {None}]
  /\ tracking \in [Orders -> BOOLEAN]
  /\ slip \in [Orders -> BOOLEAN]
  /\ timedOut \in [Orders -> BOOLEAN]
  /\ cart \in [Users -> SUBSET CartRows]
  /\ nextRow \in 1 .. MaxCartRows + 1
  /\ rowLock \in [Products -> Txs \cup {None}]
  /\ orderLock \in [Orders -> Txs \cup {None}]
  /\ tx \in [Txs -> TxState]
  /\ nextOrder \in 1 .. MaxOrders + 1
  /\ faults \in 0 .. MaxFaults

-----------------------------------------------------------------------------
\* The stock of p as transaction t sees it: its own decrements included.
Available(t, p) == stock[p] - Qty(tx[t].done, p)

Exists(o) == status[o] # "NONE"
Live == {o \in Orders : status[o] \notin {"NONE", "CANCELLED"}}
ProductsOf(o) == {lines[o][i].product : i \in DOMAIN lines[o]}

-----------------------------------------------------------------------------
Init ==
  /\ stock \in [Products -> StockEdits]
  /\ price \in [Products -> Prices]
  /\ active = [p \in Products |-> TRUE]
  /\ supplied = stock
  /\ status = [o \in Orders |-> "NONE"]
  /\ lines = [o \in Orders |-> <<>>]
  /\ owner = [o \in Orders |-> None]
  /\ tracking = [o \in Orders |-> FALSE]
  /\ slip = [o \in Orders |-> FALSE]
  /\ timedOut = [o \in Orders |-> FALSE]
  /\ cart = [u \in Users |-> {}]
  /\ nextRow = 1
  /\ rowLock = [p \in Products |-> None]
  /\ orderLock = [o \in Orders |-> None]
  /\ tx = [t \in Txs |-> Idle]
  /\ nextOrder = 1
  /\ faults = 0

-----------------------------------------------------------------------------
(* The end of a transaction: its locks are released, its record forgotten. *)
End(t) ==
  /\ rowLock' = [p \in Products |-> IF rowLock[p] = t THEN None ELSE rowLock[p]]
  /\ orderLock' = [o \in Orders |-> IF orderLock[o] = t THEN None ELSE orderLock[o]]
  /\ tx' = [tx EXCEPT ![t] = Idle]

Rollback(t) ==
  /\ End(t)
  /\ UNCHANGED <<productVars, orderVars, cartVars, nextOrder>>

\* The product row t asks for when tx[t].pc = "lock".
Wanted(t) ==
  IF tx[t].kind = "create" THEN Head(tx[t].todo).product ELSE tx[t].want

\* Mutant of RowFree: SELECT without FOR UPDATE.
UnlockedRead(t) == TRUE

RowFree(t) == rowLock[Wanted(t)] \in {None, t}

\* Mutant of OrderFree: the same of an order row.
UnlockedOrder(o) == TRUE

OrderFree(o) == orderLock[o] = None

-----------------------------------------------------------------------------
(* create_order                                                            *)

\* BEGIN, the address check and the INSERT of the order row, which nobody
\* else sees before the commit.
BeginCreate(t, u, r) ==
  /\ tx[t].pc = "idle"
  /\ nextOrder <= MaxOrders
  /\ nextOrder' = nextOrder + 1
  /\ orderLock' = [orderLock EXCEPT ![nextOrder] = t]
  /\ tx' = [tx EXCEPT ![t] = [Idle EXCEPT !.pc = "lock", !.kind = "create",
                                !.user = u, !.batch = {nextOrder}, !.todo = r,
                                !.basket = cart[u]]]
  /\ UNCHANGED <<productVars, orderVars, cartVars, rowLock, faults>>

\* SELECT ... FOR UPDATE of the product of the next line; the checks pass.
LockLine(t) ==
  LET p == Wanted(t)
      n == Head(tx[t].todo).qty
  IN /\ tx[t].pc = "lock" /\ tx[t].kind = "create"
     /\ n > 0
     /\ RowFree(t)
     /\ active[p]
     /\ n <= Available(t, p)
     /\ rowLock' = [rowLock EXCEPT ![p] = t]
     /\ tx' = [tx EXCEPT ![t].pc = "take", ![t].price = price[p]]
     /\ UNCHANGED <<productVars, orderVars, cartVars, orderLock, nextOrder, faults>>

\* A check fails: the error return drops the transaction.
RejectLine(t) ==
  LET n == Head(tx[t].todo).qty
  IN /\ tx[t].pc = "lock" /\ tx[t].kind = "create"
     /\ \/ n <= 0
        \/ /\ RowFree(t)
           /\ ~active[Wanted(t)] \/ n > Available(t, Wanted(t))
     /\ Rollback(t)
     /\ UNCHANGED faults

\* UPDATE products SET stock = stock - n WHERE stock >= n, then the INSERT of
\* the line with the price read under the lock.  That no row matches is an
\* error return which LockedStockSuffices shows to be unreachable.
TakeLine(t) ==
  LET l == Head(tx[t].todo)
      rest == Tail(tx[t].todo)
  IN /\ tx[t].pc = "take"
     /\ l.qty <= Available(t, l.product)
     /\ tx' = [tx EXCEPT
                 ![t].pc = IF rest = <<>> THEN "clear" ELSE "lock",
                 ![t].todo = rest,
                 ![t].done = Append(@, [product |-> l.product, qty |-> l.qty,
                                        price |-> tx[t].price]),
                 ![t].price = None]
     /\ UNCHANGED <<productVars, orderVars, cartVars, lockVars, nextOrder, faults>>

\* Mutant of ClearCart: the DELETE misses the rows the checkout began with.
KeepBasket(t) ==
  /\ tx[t].pc = "clear"
  /\ tx' = [tx EXCEPT ![t].pc = "write", ![t].cleared = cart[tx[t].user] \ tx[t].basket]
  /\ UNCHANGED <<productVars, orderVars, cartVars, lockVars, nextOrder, faults>>

\* clear_cart_by_user_id_tx, after the UPDATE of the total (a function of the
\* lines, not kept).  The DELETE sees the rows committed by now; one put in the
\* cart later outlives the checkout.  The wait for another checkout of the same
\* user to end is left out: it only decides which of the two ends first.
ClearCart(t) ==
  /\ tx[t].pc = "clear"
  /\ tx' = [tx EXCEPT ![t].pc = "write", ![t].cleared = cart[tx[t].user]]
  /\ UNCHANGED <<productVars, orderVars, cartVars, lockVars, nextOrder, faults>>

\* COMMIT.
CommitCreate(t) ==
  /\ tx[t].pc = "write" /\ tx[t].kind = "create"
  /\ stock' = [p \in Products |-> Available(t, p)]
  /\ \E o \in tx[t].batch :
       /\ status' = [status EXCEPT ![o] = "PENDING"]
       /\ lines' = [lines EXCEPT ![o] = tx[t].done]
       /\ owner' = [owner EXCEPT ![o] = tx[t].user]
  /\ cart' = [cart EXCEPT ![tx[t].user] = @ \ tx[t].cleared]
  /\ End(t)
  /\ UNCHANGED <<price, active, supplied, tracking, slip, timedOut, nextRow,
                 nextOrder, faults>>

-----------------------------------------------------------------------------
(* update_order_for_admin, update_order_payment_slip, cancel_stale_orders  *)

AdminMoves(current) ==
  CASE current = "PENDING"        -> {"PAYMENT_REVIEW", "CANCELLED"}
    [] current = "PAYMENT_REVIEW" -> {"PAID", "PAYMENT_FAILED", "CANCELLED"}
    [] current = "PAYMENT_FAILED" -> {"PAYMENT_REVIEW", "CANCELLED"}
    [] current = "PAID"           -> {"SHIPPED", "CANCELLED"}
    [] current = "SHIPPED"        -> {"DELIVERED"}
    [] OTHER                      -> {}

ValidTransition(current, next) == next = current \/ next \in AdminMoves(current)

\* Mutants of the two rules below: tracking from PAID on; a restore whenever
\* the order ends up cancelled.
TracksPaid(next) == next \in {"PAID", "SHIPPED", "DELIVERED"}
RestoresAgain(current, next) == next = "CANCELLED"

StatusSupportsTracking(next) == next \in {"SHIPPED", "DELIVERED"}
ShouldRestoreStock(current, next) == current # "CANCELLED" /\ next = "CANCELLED"

\* UPDATE products p ... FROM order_items oi WHERE oi.product_id = p.id: a row
\* of products that joins with several lines is updated once, by any of them.
AdminAmounts(o) ==
  {a \in [Products -> 0 .. MaxInt] :
     \A p \in Products :
       IF p \in ProductsOf(o)
         THEN \E i \in DOMAIN lines[o] :
                lines[o][i].product = p /\ a[p] = lines[o][i].qty
         ELSE a[p] = 0}

\* Mutant of StaleAmounts: the sum lacks its WHERE order_id = ANY(batch).
EveryOrdersAmounts(S) == [p \in Products |-> Total(lines, Orders, p)]

\* cancel_stale_orders sums the lines of the batch for each product first.
StaleAmounts(S) == [p \in Products |-> Total(lines, S, p)]

RowsOf(a) == {p \in Products : a[p] > 0}

\* The record of a transaction that will restore the amounts a: the rows are
\* updated one after the other, in the order the executor finds them.
StatusTx(t, record, a) ==
  tx' = [tx EXCEPT ![t] = [record EXCEPT !.pc = "write", !.amount = a]]

RestoreTx(t, record, a) ==
  \/ RowsOf(a) = {} /\ StatusTx(t, record, a)
  \/ \E p \in RowsOf(a) :
       tx' = [tx EXCEPT ![t] = [record EXCEPT !.pc = "lock", !.amount = a, !.want = p]]

\* SELECT ... FOR UPDATE of the order, and the checks of the request.
BeginAdmin(t, o, next, newTracking) ==
  LET final == newTracking \/ tracking[o]
      record == [Idle EXCEPT !.kind = "admin", !.batch = {o},
                             !.target = next, !.tracked = final]
  IN /\ tx[t].pc = "idle"
     /\ Exists(o) /\ OrderFree(o)
     /\ ValidTransition(status[o], next)
     /\ final => StatusSupportsTracking(next)
     /\ next = "SHIPPED" => final
     /\ orderLock' = [orderLock EXCEPT ![o] = t]
     /\ IF ShouldRestoreStock(status[o], next)
          THEN \E a \in AdminAmounts(o) : RestoreTx(t, record, a)
          ELSE StatusTx(t, record, NoAmount)
     /\ UNCHANGED <<productVars, orderVars, cartVars, rowLock, nextOrder, faults>>

BeginSlip(t, u, o) ==
  /\ tx[t].pc = "idle"
  /\ owner[o] = u /\ OrderFree(o)
  /\ status[o] \in {"PENDING", "PAYMENT_REVIEW", "PAYMENT_FAILED"}
  /\ orderLock' = [orderLock EXCEPT ![o] = t]
  /\ StatusTx(t, [Idle EXCEPT !.kind = "slip", !.batch = {o},
                              !.target = "PAYMENT_REVIEW"], NoAmount)
  /\ UNCHANGED <<productVars, orderVars, cartVars, rowLock, nextOrder, faults>>

\* SELECT ... ORDER BY created_at FOR UPDATE SKIP LOCKED LIMIT: the oldest
\* orders over their timeout that nobody holds, all locked at once.
Stale(o) == status[o] \in TimedStatuses /\ timedOut[o]

\* Mutants of Candidates: without FOR UPDATE SKIP LOCKED; without the second
\* of the two status conditions.
UnlockedCandidates == {o \in Orders : Stale(o)}
PendingCandidates == {o \in Orders : Stale(o) /\ OrderFree(o) /\ status[o] = "PENDING"}

Candidates == {o \in Orders : Stale(o) /\ OrderFree(o)}

BeginStale(t, S) ==
  /\ tx[t].pc = "idle"
  /\ S \subseteq Candidates /\ S # {}
  /\ Cardinality(S) <= BatchSize
  /\ \A o \in Candidates \ S : Cardinality(S) = BatchSize /\ \A s \in S : s < o
  /\ orderLock' = [o \in Orders |-> IF o \in S THEN t ELSE orderLock[o]]
  /\ RestoreTx(t, [Idle EXCEPT !.kind = "stale", !.batch = S,
                               !.target = "CANCELLED"], StaleAmounts(S))
  /\ UNCHANGED <<productVars, orderVars, cartVars, rowLock, nextOrder, faults>>

\* The UPDATE reaches the next product row.
RestoreRow(t) ==
  LET p == Wanted(t)
      left == {q \in RowsOf(tx[t].amount) : q # p /\ rowLock[q] # t}
  IN /\ tx[t].pc = "lock" /\ tx[t].kind # "create"
     /\ RowFree(t)
     /\ stock[p] + tx[t].amount[p] <= MaxInt
     /\ rowLock' = [rowLock EXCEPT ![p] = t]
     /\ \/ left = {} /\ tx' = [tx EXCEPT ![t].pc = "write", ![t].want = None]
        \/ \E q \in left : tx' = [tx EXCEPT ![t].want = q]
     /\ UNCHANGED <<productVars, orderVars, cartVars, orderLock, nextOrder, faults>>

\* "integer out of range": the statement fails and with it the transaction.
RestoreOverflow(t) ==
  /\ tx[t].pc = "lock" /\ tx[t].kind # "create"
  /\ RowFree(t)
  /\ stock[Wanted(t)] + tx[t].amount[Wanted(t)] > MaxInt
  /\ Rollback(t)
  /\ UNCHANGED faults

\* The writes a status change commits.  A timeout runs from created_at while
\* the order is PENDING and from updated_at when it is PAYMENT_FAILED.
WriteStatus(t) ==
  /\ tx[t].pc = "write"
  /\ stock' = [p \in Products |-> stock[p] + tx[t].amount[p]]
  /\ status' = [o \in Orders |-> IF o \in tx[t].batch THEN tx[t].target ELSE status[o]]
  /\ timedOut' = [o \in Orders |->
                    timedOut[o] /\ (o \in tx[t].batch => tx[t].target = "PENDING")]
  /\ End(t)
  /\ UNCHANGED <<price, active, supplied, lines, owner, cartVars, nextOrder, faults>>

CommitAdmin(t) ==
  /\ tx[t].kind = "admin"
  /\ tracking' = [o \in Orders |-> IF o \in tx[t].batch THEN tx[t].tracked ELSE tracking[o]]
  /\ WriteStatus(t)
  /\ UNCHANGED slip

CommitSlip(t) ==
  /\ tx[t].kind = "slip"
  /\ slip' = [o \in Orders |-> slip[o] \/ o \in tx[t].batch]
  /\ WriteStatus(t)
  /\ UNCHANGED tracking

CommitStale(t) ==
  /\ tx[t].kind = "stale"
  /\ WriteStatus(t)
  /\ UNCHANGED <<tracking, slip>>

-----------------------------------------------------------------------------
(* The rest of the store                                                   *)

\* update_product: the columns orders depend on; each may be left as it is.
UpdateProduct(p, s, c, a) ==
  /\ rowLock[p] = None
  /\ stock' = [stock EXCEPT ![p] = s]
  /\ price' = [price EXCEPT ![p] = c]
  /\ active' = [active EXCEPT ![p] = a]
  /\ supplied' = [supplied EXCEPT ![p] = @ + s - stock[p]]
  /\ UNCHANGED <<orderVars, cartVars, lockVars, tx, nextOrder, faults>>

DeleteProduct(p) ==
  /\ rowLock[p] = None
  /\ active' = [active EXCEPT ![p] = FALSE]
  /\ UNCHANGED <<stock, price, supplied, orderVars, cartVars, lockVars, tx, nextOrder,
                 faults>>

\* add_item_to_cart inserts a row; its checks read the product earlier and hold
\* no lock.  An upsert that only raises a quantity changes nothing here.
AddToCart(u) ==
  /\ nextRow <= MaxCartRows
  /\ nextRow' = nextRow + 1
  /\ cart' = [cart EXCEPT ![u] = @ \cup {nextRow}]
  /\ UNCHANGED <<productVars, orderVars, lockVars, tx, nextOrder, faults>>

\* remove_item_from_cart deletes a row, clear_cart all of them.
RemoveFromCart(u, S) ==
  /\ S = cart[u] \/ Cardinality(S) = 1
  /\ cart' = [cart EXCEPT ![u] = @ \ S]
  /\ UNCHANGED <<productVars, orderVars, nextRow, lockVars, tx, nextOrder, faults>>

\* The passage of time: the timeout of the order has run out.
TimeOut(o) ==
  /\ status[o] \in TimedStatuses /\ ~timedOut[o]
  /\ timedOut' = [timedOut EXCEPT ![o] = TRUE]
  /\ UNCHANGED <<productVars, status, lines, owner, tracking, slip, cartVars, lockVars,
                 tx, nextOrder, faults>>

\* Mutant of Blocked: create_order asks with NOWAIT, again and again until it has the
\* row, so that the database does not see it waiting.
BlockedRestore(t) == tx[t].pc = "lock" /\ tx[t].kind # "create" /\ ~RowFree(t)

\* The statement of t waits in the queue of its product row: the locks are asked for
\* without NOWAIT or SKIP LOCKED.
Blocked(t) == tx[t].pc = "lock" /\ ~RowFree(t)

\* Transactions that wait for each other's product rows; PostgreSQL aborts one.
Deadlocked(C) ==
  /\ C # {} /\ \A t \in C : Blocked(t)
  /\ {rowLock[Wanted(t)] : t \in C} = C

DeadlockVictim(t) ==
  /\ \E C \in SUBSET Txs : t \in C /\ Deadlocked(C)
  /\ Rollback(t)
  /\ UNCHANGED faults

\* The process dies, the connection is lost, or the client goes away and the
\* handler's future is dropped.
Abort(t) ==
  /\ tx[t].pc # "idle"
  /\ faults < MaxFaults
  /\ faults' = faults + 1
  /\ Rollback(t)

\* The bound on orders is reached and every transaction has ended.  TLC's
\* deadlock check then finds the states where a transaction is stuck.
Quiescent ==
  /\ nextOrder > MaxOrders
  /\ \A t \in Txs : tx[t].pc = "idle"
  /\ UNCHANGED vars

-----------------------------------------------------------------------------
Create(t) == LockLine(t) \/ RejectLine(t) \/ TakeLine(t) \/ ClearCart(t) \/ CommitCreate(t)
Restore(t) == RestoreRow(t) \/ RestoreOverflow(t)
Commit(t) == CommitAdmin(t) \/ CommitSlip(t) \/ CommitStale(t)
Step(t) == Create(t) \/ Restore(t) \/ Commit(t)

Next ==
  \/ \E t \in Handlers, u \in Users, r \in Requests : BeginCreate(t, u, r)
  \/ \E t \in Handlers, o \in Orders, next \in AdminTargets, newTracking \in BOOLEAN :
       BeginAdmin(t, o, next, newTracking)
  \/ \E t \in Handlers, u \in Users, o \in Orders : BeginSlip(t, u, o)
  \/ \E t \in Cleaners, S \in SUBSET Orders : BeginStale(t, S)
  \/ \E t \in Txs : Step(t)
  \/ \E p \in Editable, s \in 0 .. MaxInt, c \in Prices, a \in BOOLEAN :
       s \in StockEdits \cup {stock[p]} /\ UpdateProduct(p, s, c, a)
  \/ \E p \in Editable : DeleteProduct(p)
  \/ \E u \in Users : AddToCart(u)
  \/ \E u \in Users, S \in SUBSET CartRows : RemoveFromCart(u, S)
  \/ \E o \in Orders : TimeOut(o)
  \/ \E t \in Txs : DeadlockVictim(t)
  \/ \E t \in Txs : Abort(t)
  \/ Quiescent

Spec == Init /\ [][Next]_vars

(* Waiting transactions are served: PostgreSQL queues the waiters of a row  *)
(* and its deadlock detector breaks every cycle; tokio polls every task; the *)
(* cleanup worker's interval keeps ticking.                                 *)
Fairness ==
  /\ \A t \in Txs : SF_vars(Step(t))
  /\ WF_vars(\E t \in Txs : DeadlockVictim(t))
  /\ \A t \in Cleaners : SF_vars(\E S \in SUBSET Orders : BeginStale(t, S))

FairSpec == Spec /\ Fairness

-----------------------------------------------------------------------------
(* Properties                                                              *)

\* Nothing is sold twice: what is in stock and what live orders hold never
\* exceeds what was put on sale (create_order's row locks and WHERE stock >= n,
\* the restores of both cancellations).
NoOversell == \A p \in Products : stock[p] + Total(lines, Live, p) <= supplied[p]

\* Nothing is lost either: a cancelled order, whoever cancels it, gives back
\* exactly what it took, and once.
StockConserved == \A p \in Products : stock[p] + Total(lines, Live, p) = supplied[p]

\* The error return of create_order for an UPDATE that matches no row
\* (order/service.rs:135) is dead: the stock checked under FOR UPDATE is still
\* there when the UPDATE runs, earlier lines of the same product included.
LockedStockSuffices ==
  \A t \in Txs : tx[t].pc = "take" =>
    Head(tx[t].todo).qty <= Available(t, Head(tx[t].todo).product)

\* A parcel on its way or delivered is traceable and nothing else is.
ShippedIsTracked ==
  \A o \in Orders : tracking[o] <=> status[o] \in {"SHIPPED", "DELIVERED"}

DocumentedMoves ==
  {<<"NONE", "PENDING">>,
   <<"PENDING", "PAYMENT_REVIEW">>, <<"PENDING", "CANCELLED">>,
   <<"PAYMENT_REVIEW", "PAID">>, <<"PAYMENT_REVIEW", "PAYMENT_FAILED">>,
   <<"PAYMENT_REVIEW", "CANCELLED">>, <<"PAYMENT_FAILED", "PAYMENT_REVIEW">>,
   <<"PAYMENT_FAILED", "CANCELLED">>, <<"PAID", "SHIPPED">>,
   <<"PAID", "CANCELLED">>, <<"SHIPPED", "DELIVERED">>}

\* An order only makes the moves of the status table of API_DOCS.md, whoever
\* moves it and however the transactions race: the row does not move between
\* the check of the transition under FOR UPDATE and the commit.
OnlyDocumentedMoves ==
  [][\A o \in Orders : \/ status'[o] = status[o]
                       \/ <<status[o], status'[o]>> \in DocumentedMoves]_vars

\* The cleanup worker cancels an order only while its timeout has run out: a
\* payment slip or an admin decision that commits first always wins.
AutoCancelOnlyStale ==
  [][\A t \in Cleaners, o \in Orders :
       /\ tx[t].kind = "stale" /\ o \in tx[t].batch
       /\ status[o] # "CANCELLED" /\ status'[o] = "CANCELLED"
       => Stale(o)]_vars

\* Checkout is atomic: an order appears with prices that are still the
\* catalogue's, of products still on sale, and in the same step everything that
\* was in its buyer's cart when create_order began is gone.
CheckoutIsAtomic ==
  [][\A o \in Orders :
       ~Exists(o) /\ status'[o] # "NONE" =>
         /\ \A i \in DOMAIN lines'[o] :
              /\ lines'[o][i].price = price[lines'[o][i].product]
              /\ active[lines'[o][i].product]
         /\ \A t \in Txs : o \in tx[t].batch =>
              cart'[owner'[o]] \cap tx[t].basket = {}]_vars

\* No transaction waits for ever, although create_order locks product rows in
\* the order of the request and the restores in any order: those that wait for each
\* other are all seen waiting by the deadlock detector, and one of them fails.
EveryTransactionEnds == \A t \in Txs : []<>(tx[t].pc = "idle")

\* An admin has set the stock of a product so high that the units held by orders over
\* their timeout no longer fit into the column.
Overfull == \E p \in Products : stock[p] + Total(lines, {o \in Orders : Stale(o)}, p) > MaxInt

\* An order over its timeout does not keep its stock for ever, although the
\* worker skips locked orders, takes BatchSize of them in a pass, oldest first, and
\* starts a pass again that failed as a whole - provided that admins end up leaving room
\* for what it returns (an order that does not fit is at the head of every pass, and
\* those behind it wait for ever) and transactions do not deadlock for ever,
\* the worker being one of the victims.
StaleOrdersAreHandled ==
  /\ <>[]~Overfull
  /\ <>[][\A t \in Txs : ~DeadlockVictim(t)]_vars
  => \A o \in Orders : Stale(o) ~> ~Stale(o)
=============================================================================
