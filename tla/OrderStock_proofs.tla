-------------------------- MODULE OrderStock_proofs --------------------------
(***************************************************************************)
(* IInv of OrderStockInv is inductive, for every value of the constants,   *)
(* and the safety and action properties of OrderStock follow from it.      *)
(***************************************************************************)
EXTENDS OrderStockInv, OrderQuantities_proofs

-----------------------------------------------------------------------------
(* Types and finite sets                                                   *)

LEMMA OrdersFinite == IsFiniteSet(Orders) /\ \A S \in SUBSET Orders : IsFiniteSet(S)
  <1>1. IsFiniteSet(Orders)
    BY FS_Interval, BoundAssumption DEF Orders
  <1>2. QED
    BY <1>1, FS_Subset

LEMMA IdleType ==
  /\ Idle \in TxState
  /\ Idle.pc = "idle" /\ Idle.kind = "none" /\ Idle.batch = {} /\ Idle.done = <<>>
  /\ Idle.amount = NoAmount /\ NoAmount \in [Products -> Nat]
  BY DEF Idle, TxState, NoAmount

\* The types of what a transaction's record holds.
LEMMA TxFields ==
  ASSUME TypeOK, NEW s \in Txs
  PROVE  /\ tx[s] \in TxState
         /\ tx[s].todo \in Seq(RequestLine) /\ tx[s].done \in Seq(OrderLine)
         /\ \A i \in DOMAIN tx[s].todo :
              tx[s].todo[i].product \in Products /\ tx[s].todo[i].qty \in Int
         /\ \A i \in DOMAIN tx[s].done :
              tx[s].done[i].product \in Products /\ tx[s].done[i].qty \in 1 .. MaxInt
         /\ tx[s].batch \subseteq Orders /\ tx[s].amount \in [Products -> Nat]
  <1>1. tx[s] \in TxState
    BY DEF TypeOK
  <1>2. tx[s].todo \in Seq(RequestLine) /\ tx[s].done \in Seq(OrderLine)
        /\ tx[s].batch \subseteq Orders /\ tx[s].amount \in [Products -> Nat]
    BY <1>1 DEF TxState
  <1>3. /\ \A i \in DOMAIN tx[s].todo : tx[s].todo[i] \in RequestLine
        /\ \A i \in DOMAIN tx[s].done : tx[s].done[i] \in OrderLine
    BY <1>2
  <1>4. QED
    BY <1>1, <1>2, <1>3 DEF RequestLine, OrderLine

LEMMA NoneIsNoTx == None \notin Txs
  BY NoneAssumption

\* What order rows hold of each product is a number.
LEMMA LiveTotalType ==
  ASSUME NEW L, NEW S \in SUBSET Orders, NEW p
  PROVE  Total(L, S, p) \in Nat
  BY OrdersFinite, TotalType

\* The empty list holds nothing.
LEMMA QtyOfEmpty == ASSUME NEW p PROVE Qty(<<>>, p) = 0
  BY QtyZero

\* What Append and Tail do to the members of a sequence.
LEMMA SeqAppend ==
  ASSUME NEW R, NEW s \in Seq(R), NEW x \in R
  PROVE  /\ Append(s, x) \in Seq(R) /\ Len(s) \in Nat /\ Len(Append(s, x)) = Len(s) + 1
         /\ \A i \in DOMAIN Append(s, x) :
              \/ i \in DOMAIN s /\ Append(s, x)[i] = s[i]
              \/ i \notin DOMAIN s /\ i = Len(s) + 1 /\ Append(s, x)[i] = x
  OBVIOUS

LEMMA SeqTail ==
  ASSUME NEW R, NEW s \in Seq(R), s # <<>>
  PROVE  /\ Tail(s) \in Seq(R) /\ Len(s) \in Nat /\ Len(Tail(s)) = Len(s) - 1
         /\ Head(s) = s[1] /\ 1 \in DOMAIN s
         /\ \A i \in DOMAIN Tail(s) :
              i \in Nat \ {0} /\ i + 1 \in DOMAIN s /\ Tail(s)[i] = s[i + 1]
  OBVIOUS

LEMMA NextOrderType ==
  ASSUME TypeOK
  PROVE  nextOrder \in Int /\ nextOrder \in 1 .. MaxOrders + 1
  BY BoundAssumption DEF TypeOK

-----------------------------------------------------------------------------
(* Frames: what a step of one transaction leaves to another one.           *)

\* A step puts only new rows into carts.
OnlyNewRows ==
  /\ nextRow' >= nextRow
  /\ \A u \in Users : \A c \in cart'[u] : c \in cart[u] \/ c >= nextRow

LEMMA SameCarts ==
  ASSUME TypeOK, UNCHANGED cartVars
  PROVE  OnlyNewRows /\ (CartsInv => CartsInv')
  BY BoundAssumption DEF OnlyNewRows, CartsInv, TypeOK, cartVars

\* A transaction that keeps its record and its locks, and whose rows nobody
\* changes, keeps its invariant.
LEMMA TxFrame ==
  ASSUME TypeOK, TypeOK', NEW s \in Txs, TxInv(s), tx'[s] = tx[s],
         \A p \in Products : rowLock'[p] = s <=> rowLock[p] = s,
         \A o \in Orders : orderLock'[o] = s <=> orderLock[o] = s,
         \A p \in Products : rowLock[p] = s =>
           stock'[p] = stock[p] /\ price'[p] = price[p] /\ active'[p] = active[p],
         \A o \in tx[s].batch : /\ status'[o] = status[o] /\ lines'[o] = lines[o]
                                /\ timedOut[o] => timedOut'[o],
         nextOrder' >= nextOrder, OnlyNewRows
  PROVE  TxInv(s)'
  <1> DEFINE done == tx[s].done
             todo == tx[s].todo
             batch == tx[s].batch
             amount == tx[s].amount
  <1>1. /\ todo \in Seq(RequestLine) /\ done \in Seq(OrderLine)
        /\ \A i \in DOMAIN todo : todo[i].product \in Products
        /\ \A i \in DOMAIN done : done[i].product \in Products
        /\ batch \subseteq Orders
    BY TxFields
  <1>2. LocksInv(s)'
    BY DEF TxInv, LocksInv
  <1>3. CreateInv(s)'
    <2> SUFFICES ASSUME tx[s].kind = "create" PROVE CreateInv(s)'
      BY DEF CreateInv
    <2>1. CreateShape(s) /\ TakeInv(s) /\ DoneInv(s) /\ DistinctInv(s) /\ CartInv(s)
      BY DEF TxInv, CreateInv
    <2>2. CreateShape(s)'
      <3>1. nextOrder \in Int /\ nextOrder' \in Int /\ Orders \subseteq Int
        BY BoundAssumption DEF TypeOK, Orders
      <3>2. \A o \in Orders : o < nextOrder => o < nextOrder'
        BY <3>1
      <3>3. QED
        BY <2>1, <3>2 DEF CreateShape
    <2>3. \A p \in Products : Qty(done, p) <= stock'[p]
      <3> TAKE p \in Products
      <3>1. CASE rowLock[p] = s
        BY <2>1, <3>1 DEF DoneInv
      <3>2. CASE rowLock[p] # s
        <4>1. Len(done) \in Nat /\ \A i \in 1 .. Len(done) : done[i].product # p
          BY <1>1, <2>1, <3>2 DEF DoneInv
        <4>2. Qty(done, p) = 0
          BY <4>1, QtyZero
        <4>3. QED
          BY <4>2, SizeAssumption DEF TypeOK
      <3>3. QED
        BY <3>1, <3>2
    <2>4. DoneInv(s)'
      BY <1>1, <2>1, <2>3 DEF DoneInv
    <2>5. TakeInv(s)'
      <3> SUFFICES ASSUME tx[s].pc = "take" PROVE TakeInv(s)'
        BY DEF TakeInv
      <3>1. todo # <<>>
        BY <2>1 DEF CreateShape
      <3>2. Head(todo).product \in Products
        BY <1>1, <3>1
      <3>3. QED
        BY <2>1, <3>2 DEF TakeInv, Available
    <2>6. DistinctInv(s)'
      BY <2>1 DEF DistinctInv, DistinctRequests, Distinct
    <2>7. CartInv(s)'
      <3>1. /\ nextRow \in Int /\ nextRow' \in Int /\ CartRows \subseteq Int
            /\ tx[s].basket \subseteq CartRows
        <4>1. nextRow \in 1 .. MaxCartRows + 1 /\ nextRow' \in 1 .. MaxCartRows + 1
          BY DEF TypeOK
        <4>2. tx[s].basket \subseteq CartRows
          BY TxFields DEF TxState
        <4>3. QED
          BY <4>1, <4>2, BoundAssumption DEF CartRows
      <3>2. \A c \in tx[s].basket : c \in Int /\ c < nextRow
        BY <2>1, <3>1 DEF CartInv
      <3>3. tx[s].user \in Users
        BY <2>1 DEF CreateShape
      <3>4. \A c \in tx[s].basket :
              c < nextRow' /\ (c \in cart'[tx[s].user] => c \in cart[tx[s].user])
        BY <3>1, <3>2, <3>3 DEF OnlyNewRows
      <3>5. QED
        BY <2>1, <3>4 DEF CartInv
    <2>8. QED
      BY <2>2, <2>4, <2>5, <2>6, <2>7 DEF CreateInv
  <1>4. RestorePlan(s) => RestorePlan(s)'
    <2>1. \A p : Total(lines', batch, p) = Total(lines, batch, p)
      BY TotalSameLines
    <2>2. \A o \in batch : o \in Live' <=> o \in Live
      BY <1>1 DEF Live
    <2>3. QED
      BY <2>1, <2>2 DEF RestorePlan, Plan, DistinctRequests, Distinct
  <1>5. StatusInv(s)'
    <2> SUFFICES ASSUME tx[s].kind \in {"admin", "slip", "stale"} PROVE StatusInv(s)'
      BY DEF StatusInv
    <2>1. RestoreInv(s) /\ RestorePlan(s)
      BY DEF TxInv, StatusInv
    <2>2. RestorePlan(s)'
      BY <1>4, <2>1
    <2>3. RowsOf(amount)' = RowsOf(amount) /\ RowsOf(amount) \subseteq Products
      BY DEF RowsOf
    <2>4. RestoreInv(s)'
      BY <2>1, <2>3 DEF RestoreInv
    <2>5. QED
      BY <2>2, <2>4 DEF StatusInv
  <1>6. MoveInv(s)'
    BY DEF TxInv, MoveInv, Moves, Stale
  <1>7. QED
    BY <1>2, <1>3, <1>5, <1>6 DEF TxInv

\* The facts about the stored rows survive a step that leaves them alone.
LEMMA StoredFrame ==
  ASSUME UNCHANGED <<stock, supplied, status, lines, tracking>>,
         ShippedIsTracked, BalanceInv
  PROVE  ShippedIsTracked' /\ BalanceInv'
  <1>1. Live' = Live
    BY DEF Live
  <1>2. QED
    BY <1>1, SMT DEF ShippedIsTracked, BalanceInv, NoOversell, Conserved,
                     StockConserved, Total, UnitsOf, DistinctRequests

LEMMA OrdersFrame ==
  ASSUME OrdersInv, UNCHANGED <<status, lines, nextOrder>>,
         \A o \in Orders : orderLock[o] = None => orderLock'[o] = None
  PROVE  OrdersInv'
  BY DEF OrdersInv, DistinctRequests, Distinct

\* The locks of the others are kept when a transaction ends.
LEMMA EndFrame ==
  ASSUME TypeOK, NEW t \in Txs, End(t)
  PROVE  /\ rowLock' \in [Products -> Txs \cup {None}]
         /\ orderLock' \in [Orders -> Txs \cup {None}]
         /\ tx' \in [Txs -> TxState] /\ tx'[t] = Idle
         /\ \A p \in Products : rowLock'[p] # t
         /\ \A o \in Orders : orderLock'[o] # t
         /\ \A o \in Orders : orderLock[o] = None => orderLock'[o] = None
         /\ \A s \in Txs \ {t} :
              /\ tx'[s] = tx[s]
              /\ \A p \in Products : rowLock'[p] = s <=> rowLock[p] = s
              /\ \A o \in Orders : orderLock'[o] = s <=> orderLock[o] = s
  BY IdleType, NoneIsNoTx DEF TypeOK, End

LEMMA IdleTx ==
  ASSUME NEW t \in Txs, tx'[t] = Idle,
         \A p \in Products : rowLock'[p] # t,
         \A o \in Orders : orderLock'[o] # t
  PROVE  TxInv(t)'
  BY IdleType DEF TxInv, LocksInv, CreateInv, StatusInv, MoveInv

-----------------------------------------------------------------------------
(* One lemma per kind of step                                              *)

LEMMA RollbackStep ==
  ASSUME IInv, NEW t \in Txs, Rollback(t), faults' \in 0 .. MaxFaults
  PROVE  IInv'
  <1>1. TypeOK /\ TypeOK'
    BY EndFrame DEF IInv, TypeOK, Rollback, productVars, orderVars, cartVars
  <1>carts. OnlyNewRows /\ CartsInv'
    BY <1>1, SameCarts DEF IInv, Rollback
  <1>2. TxInv(t)'
    BY <1>1, EndFrame, IdleTx DEF Rollback
  <1>3. ASSUME NEW s \in Txs, s # t
        PROVE  TxInv(s)'
    <2>1. nextOrder' >= nextOrder
      BY <1>1, BoundAssumption DEF Rollback, TypeOK
    <2>2. QED
      BY <1>1, <1>3, <1>carts, <2>1, EndFrame, TxFrame DEF IInv, Rollback, productVars, orderVars
  <1>4. OrdersInv'
    BY <1>1, EndFrame, OrdersFrame DEF IInv, Rollback, orderVars
  <1>5. ShippedIsTracked' /\ BalanceInv'
    BY StoredFrame DEF IInv, Rollback, productVars, orderVars
  <1>6. QED
    BY <1>1, <1>2, <1>3, <1>4, <1>5, <1>carts DEF IInv

LEMMA BeginCreateStep ==
  ASSUME IInv, NEW t \in Handlers, NEW u \in Users, NEW r \in Requests,
         BeginCreate(t, u, r)
  PROVE  IInv'
  <1> DEFINE o == nextOrder
             new == [Idle EXCEPT !.pc = "lock", !.kind = "create",
                                 !.user = u, !.batch = {o}, !.todo = r,
                                 !.basket = cart[u]]
  <1>1. TypeOK /\ t \in Txs /\ o \in Orders
    BY BoundAssumption DEF IInv, TypeOK, Txs, Orders, BeginCreate
  <1>2. /\ r \in Seq(RequestLine) /\ Len(r) \in 1 .. MaxLines
        /\ \A i \in DOMAIN r : r[i].qty <= MaxInt
    BY RequestAssumption DEF RequestLine
  <1>3. /\ new \in TxState /\ new.pc = "lock" /\ new.kind = "create" /\ new.user = u
        /\ new.batch = {o} /\ new.todo = r /\ new.done = <<>> /\ new.basket = cart[u]
    <2>1. cart[u] \in SUBSET CartRows
      BY <1>1 DEF TypeOK
    <2>2. QED
      BY <1>1, <1>2, <2>1, IdleType DEF TxState, Idle
  <1>4. /\ tx' \in [Txs -> TxState] /\ tx'[t] = new
        /\ \A s \in Txs \ {t} : tx'[s] = tx[s]
    BY <1>1, <1>3 DEF TypeOK, BeginCreate
  <1>5. /\ orderLock' \in [Orders -> Txs \cup {None}] /\ orderLock'[o] = t
        /\ orderLock[o] = None /\ status[o] = "NONE"
        /\ \A q \in Orders \ {o} : orderLock'[q] = orderLock[q]
    BY <1>1, BoundAssumption DEF IInv, OrdersInv, TypeOK, Orders, BeginCreate
  <1>6. nextOrder \in Int /\ nextOrder' = nextOrder + 1 /\ nextOrder' \in 1 .. MaxOrders + 1
    BY <1>1, BoundAssumption DEF Orders, BeginCreate
  <1>7. TypeOK'
    BY <1>1, <1>4, <1>5, <1>6 DEF TypeOK, BeginCreate, productVars, orderVars, cartVars
  <1>carts. OnlyNewRows /\ CartsInv'
    BY <1>1, SameCarts DEF IInv, BeginCreate
  <1>8. ASSUME NEW s \in Txs, s # t
        PROVE  TxInv(s)'
    <2>1. nextOrder' >= nextOrder
      BY <1>6
    <2>2. \A q \in Orders : orderLock'[q] = s <=> orderLock[q] = s
      BY <1>5, <1>8, NoneIsNoTx
    <2>3. QED
      BY <1>1, <1>4, <1>7, <1>8, <1>carts, <2>1, <2>2, TxFrame
      DEF IInv, BeginCreate, productVars, orderVars
  <1>9. TxInv(t)'
    <2>1. TxInv(t) /\ tx[t] = Idle /\ tx[t].pc = "idle"
      BY <1>1 DEF IInv, BeginCreate, TxInv, LocksInv
    <2>2. LocksInv(t)'
      <3>1. \A q \in Orders : orderLock[q] # t
        BY <2>1, IdleType DEF TxInv, LocksInv
      <3>2. QED
        BY <1>3, <1>4, <1>5, <3>1 DEF LocksInv
    <2>3. CreateShape(t)'
      <3>1. status'[o] = "NONE" /\ o < nextOrder'
        BY <1>5, <1>6 DEF BeginCreate, orderVars
      <3>2. Len(tx'[t].done) + Len(tx'[t].todo) <= MaxLines /\ tx'[t].todo # <<>>
        BY <1>2, <1>3, <1>4, SizeAssumption
      <3>3. QED
        BY <1>1, <1>2, <1>3, <1>4, <3>1, <3>2 DEF CreateShape
    <2>4. DoneInv(t)'
      <3>1. \A p \in Products : 0 <= stock'[p]
        BY <1>7, SizeAssumption DEF TypeOK
      <3>2. QED
        BY <1>3, <1>4, <3>1, QtyOfEmpty DEF DoneInv
    <2>5. TakeInv(t)' /\ DistinctInv(t)'
      BY <1>3, <1>4 DEF TakeInv, DistinctInv, DistinctRequests, Distinct
    <2>cart. CartInv(t)'
      BY <1>3, <1>4 DEF CartInv, IInv, CartsInv, BeginCreate, cartVars
    <2>6. QED
      BY <1>3, <1>4, <2>2, <2>3, <2>4, <2>5, <2>cart
      DEF TxInv, CreateInv, StatusInv, MoveInv
  <1>10. OrdersInv'
    <2>1. \A q \in Orders : q >= nextOrder' => q >= nextOrder /\ q # o
      BY <1>6, BoundAssumption DEF Orders
    <2>2. QED
      BY <1>5, <2>1 DEF IInv, OrdersInv, BeginCreate, orderVars, DistinctRequests, Distinct
  <1>11. ShippedIsTracked' /\ BalanceInv'
    BY StoredFrame DEF IInv, BeginCreate, productVars, orderVars
  <1>12. QED
    BY <1>7, <1>8, <1>9, <1>10, <1>11, <1>carts DEF IInv

\* The next line of a request under way is one of its lines.
LEMMA NextLine ==
  ASSUME TypeOK, NEW t \in Txs, CreateShape(t), tx[t].pc \in {"lock", "take"}
  PROVE  /\ tx[t].todo # <<>> /\ 1 \in DOMAIN tx[t].todo /\ Head(tx[t].todo) = tx[t].todo[1]
         /\ Head(tx[t].todo).product \in Products /\ Head(tx[t].todo).qty \in Int
         /\ Head(tx[t].todo).qty <= MaxInt
  <1>1. tx[t].todo # <<>> /\ tx[t].todo \in Seq(RequestLine)
    BY TxFields DEF CreateShape
  <1>2. 1 \in DOMAIN tx[t].todo /\ Head(tx[t].todo) = tx[t].todo[1]
    BY <1>1
  <1>3. QED
    BY <1>1, <1>2, TxFields DEF CreateShape

LEMMA LockLineStep ==
  ASSUME IInv, NEW t \in Txs, LockLine(t)
  PROVE  IInv'
  <1> DEFINE l == Head(tx[t].todo)
             p == l.product
             new == [tx[t] EXCEPT !.pc = "take", !.price = price[p]]
  <1>1. TypeOK /\ TxInv(t) /\ tx[t].kind = "create" /\ tx[t].pc = "lock"
    BY DEF IInv, LockLine
  <1>2. CreateShape(t) /\ DoneInv(t) /\ DistinctInv(t) /\ CartInv(t) /\ LocksInv(t)
    BY <1>1 DEF TxInv, CreateInv
  <1>3. p \in Products /\ Wanted(t) = p
    BY <1>1, <1>2, NextLine DEF Wanted
  <1>4. price[p] \in Prices /\ tx[t] \in TxState
    BY <1>1, <1>3 DEF TypeOK
  <1>5. /\ new \in TxState /\ new.pc = "take" /\ new.kind = tx[t].kind /\ new.price = price[p]
        /\ new.batch = tx[t].batch /\ new.todo = tx[t].todo /\ new.done = tx[t].done
        /\ new.user = tx[t].user /\ new.basket = tx[t].basket
    BY <1>4 DEF TxState
  <1>6. tx' = [tx EXCEPT ![t] = new]
    BY <1>1, <1>3 DEF LockLine, TypeOK
  <1>7. tx' \in [Txs -> TxState] /\ tx'[t] = new /\ \A s \in Txs \ {t} : tx'[s] = tx[s]
    BY <1>1, <1>5, <1>6 DEF TypeOK
  <1>8. /\ rowLock' \in [Products -> Txs \cup {None}] /\ rowLock'[p] = t
        /\ rowLock[p] \in {None, t} /\ \A q \in Products \ {p} : rowLock'[q] = rowLock[q]
    BY <1>1, <1>3 DEF TypeOK, LockLine, RowFree
  <1>9. TypeOK'
    BY <1>1, <1>7, <1>8 DEF TypeOK, LockLine, productVars, orderVars, cartVars
  <1>carts. OnlyNewRows /\ CartsInv'
    BY <1>1, SameCarts DEF IInv, LockLine
  <1>10. nextOrder' >= nextOrder
    BY <1>1, BoundAssumption DEF LockLine, TypeOK
  <1>11. ASSUME NEW s \in Txs, s # t
         PROVE  TxInv(s)'
    <2>1. \A q \in Products : rowLock'[q] = s <=> rowLock[q] = s
      BY <1>8, <1>11, NoneIsNoTx
    <2>2. QED
      BY <1>1, <1>7, <1>9, <1>10, <1>11, <1>carts, <2>1, TxFrame
      DEF IInv, LockLine, productVars, orderVars
  <1>12. TxInv(t)'
    <2>1. LocksInv(t)'
      BY <1>1, <1>2, <1>5, <1>7 DEF LocksInv, LockLine
    <2>2. CreateShape(t)'
      BY <1>1, <1>2, <1>5, <1>7 DEF CreateShape, LockLine, orderVars
    <2>3. TakeInv(t)'
      BY <1>3, <1>5, <1>7, <1>8 DEF TakeInv, LockLine, Available, productVars
    <2>4. DoneInv(t)'
      <3>1. \A i \in DOMAIN tx[t].done : tx[t].done[i].product \in Products
        BY <1>1, TxFields
      <3>2. \A i \in DOMAIN tx[t].done : rowLock'[tx[t].done[i].product] = t
        BY <1>2, <1>8, <3>1 DEF DoneInv
      <3>3. QED
        BY <1>2, <1>5, <1>7, <3>2 DEF DoneInv, LockLine, productVars
    <2>5. DistinctInv(t)'
      BY <1>2, <1>5, <1>7 DEF DistinctInv, DistinctRequests, Distinct
    <2>cart. CartInv(t)'
      BY <1>2, <1>5, <1>7 DEF CartInv, LockLine, cartVars
    <2>6. QED
      BY <1>1, <1>5, <1>7, <2>1, <2>2, <2>3, <2>4, <2>5, <2>cart
      DEF TxInv, CreateInv, StatusInv, MoveInv
  <1>13. OrdersInv' /\ ShippedIsTracked' /\ BalanceInv'
    BY OrdersFrame, StoredFrame DEF IInv, LockLine, productVars, orderVars
  <1>14. QED
    BY <1>9, <1>11, <1>12, <1>13, <1>carts DEF IInv

LEMMA TakeLineStep ==
  ASSUME IInv, NEW t \in Txs, TakeLine(t)
  PROVE  IInv'
  <1> DEFINE todo == tx[t].todo
             done == tx[t].done
             l == Head(todo)
             p == l.product
             line == [product |-> p, qty |-> l.qty, price |-> tx[t].price]
             rest == Tail(todo)
             taken == Append(done, line)
             new == [tx[t] EXCEPT !.pc = IF rest = <<>> THEN "clear" ELSE "lock",
                                  !.todo = rest, !.done = taken, !.price = None]
  <1>1. TypeOK /\ TxInv(t) /\ tx[t].pc = "take"
    BY DEF IInv, TakeLine
  <1>2. tx[t] \in TxState /\ tx[t].kind = "create"
    BY <1>1, TxFields DEF TxInv, LocksInv, StatusInv, RestoreInv, TxState
  <1>3. CreateShape(t) /\ TakeInv(t) /\ DoneInv(t) /\ DistinctInv(t) /\ CartInv(t)
        /\ LocksInv(t)
    BY <1>1, <1>2 DEF TxInv, CreateInv
  <1>4. /\ todo # <<>> /\ p \in Products /\ l.qty \in Int /\ l.qty <= MaxInt
        /\ l = todo[1] /\ 1 \in DOMAIN todo
    BY <1>1, <1>3, NextLine
  <1>5. /\ l.qty > 0 /\ l.qty <= stock[p] - Qty(done, p) /\ rowLock[p] = t
        /\ tx[t].price = price[p] /\ active[p]
    BY <1>1, <1>3 DEF TakeInv, Available
  <1>6. line \in OrderLine /\ line.product = p /\ line.qty = l.qty /\ line.price = price[p]
    BY <1>1, <1>4, <1>5, SizeAssumption DEF OrderLine, TypeOK
  <1>7. /\ todo \in Seq(RequestLine) /\ done \in Seq(OrderLine)
        /\ rest \in Seq(RequestLine) /\ taken \in Seq(OrderLine)
    BY <1>1, <1>4, <1>6, TxFields, SeqAppend, SeqTail
  <1>8. Len(done) + Len(todo) <= MaxLines /\ Len(taken) + Len(rest) <= MaxLines
        /\ Len(done) < MaxLines
    <2>1. Len(done) + Len(todo) <= MaxLines
      BY <1>3 DEF CreateShape
    <2>2. Len(done) \in Nat /\ Len(todo) \in Nat /\ Len(todo) # 0
      BY <1>4, <1>7
    <2>3. Len(taken) = Len(done) + 1 /\ Len(rest) = Len(todo) - 1
      BY <1>4, <1>6, <1>7, SeqAppend, SeqTail
    <2> HIDE DEF taken, rest, todo, done
    <2>4. QED
      BY <2>1, <2>2, <2>3, SizeAssumption
  <1>9. \A i \in DOMAIN rest : i + 1 \in DOMAIN todo /\ i + 1 # 1 /\ rest[i] = todo[i + 1]
                              /\ i \in Int
    BY <1>4, <1>7, SeqTail
  <1>10. \A i \in DOMAIN taken :
           \/ i \in DOMAIN done /\ taken[i] = done[i]
           \/ i \notin DOMAIN done /\ i = Len(done) + 1 /\ taken[i] = line
    BY <1>6, <1>7, SeqAppend
  <1>11. /\ new \in TxState /\ new.pc \in {"lock", "clear"} /\ new.kind = "create"
         /\ new.pc = "clear" <=> rest = <<>>
         /\ new.batch = tx[t].batch /\ new.todo = rest /\ new.done = taken
         /\ new.user = tx[t].user /\ new.basket = tx[t].basket
    BY <1>2, <1>7 DEF TxState
  <1>12. tx' = [tx EXCEPT ![t] = new]
    BY <1>1 DEF TakeLine, TypeOK
  <1>13. tx' \in [Txs -> TxState] /\ tx'[t] = new /\ \A s \in Txs \ {t} : tx'[s] = tx[s]
    BY <1>1, <1>11, <1>12 DEF TypeOK
  <1>14. UNCHANGED <<stock, price, active, supplied, status, lines, tracking, timedOut,
                     cart, nextRow, rowLock, orderLock, nextOrder>>
    BY DEF TakeLine, productVars, orderVars, cartVars, lockVars
  <1>15. TypeOK'
    BY <1>1, <1>13 DEF TypeOK, TakeLine, productVars, orderVars, cartVars, lockVars
  <1>carts. OnlyNewRows /\ CartsInv'
    BY <1>1, SameCarts DEF IInv, TakeLine
  <1>16. nextOrder' >= nextOrder
    BY <1>1, <1>14, NextOrderType
  <1> HIDE DEF new, rest, taken, line, todo, done
  <1>17. ASSUME NEW s \in Txs, s # t
         PROVE  TxInv(s)'
    BY <1>1, <1>13, <1>14, <1>15, <1>16, <1>17, <1>carts, TxFrame DEF IInv
  <1>18. TxInv(t)'
    <2>1. LocksInv(t)'
      BY <1>1, <1>2, <1>3, <1>11, <1>13, <1>14 DEF LocksInv
    <2>2. CreateShape(t)'
      <3>1. \A i \in DOMAIN rest : rest[i].qty <= MaxInt
        BY <1>3, <1>9 DEF CreateShape, todo
      <3>2. QED
        BY <1>3, <1>8, <1>11, <1>13, <1>14, <3>1 DEF CreateShape
    <2>3. TakeInv(t)'
      BY <1>11, <1>13 DEF TakeInv
    <2>4. DoneInv(t)'
      <3>1. \A i \in DOMAIN taken : /\ rowLock[taken[i].product] = t
                                   /\ taken[i].price = price[taken[i].product]
                                   /\ active[taken[i].product]
        BY <1>3, <1>5, <1>6, <1>10 DEF DoneInv, done
      <3>2. ASSUME NEW q \in Products
            PROVE  Qty(taken, q) <= stock[q]
        <4>1. line.qty \in 1 .. MaxInt
          BY <1>4, <1>5, <1>6, SizeAssumption
        <4>2. Qty(taken, q) = Qty(done, q) + (IF line.product = q THEN line.qty ELSE 0)
          BY <1>6, <1>7, <1>8, <4>1, QtyAppend DEF taken
        <4>3. Qty(done, q) \in Nat /\ Qty(done, q) <= stock[q] /\ stock[q] \in Int
          BY <1>1, <1>3, QtyType, SizeAssumption DEF DoneInv, TypeOK, done
        <4>4. QED
          BY <1>4, <1>5, <1>6, <4>2, <4>3
      <3>3. QED
        BY <1>11, <1>13, <1>14, <3>1, <3>2 DEF DoneInv
    <2>5. DistinctInv(t)'
      <3>1. DistinctRequests' = DistinctRequests
        BY DEF DistinctRequests, Distinct
      <3> SUFFICES ASSUME DistinctRequests PROVE DistinctInv(t)'
        BY <3>1 DEF DistinctInv
      <3>2. Distinct(todo) /\ Distinct(done)
            /\ \A i \in DOMAIN todo, j \in DOMAIN done : todo[i].product # done[j].product
        BY <1>3 DEF DistinctInv, todo, done
      <3>3. \A i \in DOMAIN rest : rest[i].product # p
        BY <1>4, <1>9, <3>2 DEF Distinct
      <3>4. Distinct(rest)
        BY <1>9, <3>2 DEF Distinct
      <3>5. Distinct(taken)
        BY <1>4, <1>6, <1>10, <3>2 DEF Distinct
      <3>6. \A i \in DOMAIN rest, j \in DOMAIN taken : rest[i].product # taken[j].product
        BY <1>6, <1>9, <1>10, <3>2, <3>3
      <3>7. QED
        BY <1>11, <1>13, <3>1, <3>4, <3>5, <3>6 DEF DistinctInv, Distinct
    <2>cart. CartInv(t)'
      BY <1>3, <1>11, <1>13, <1>14 DEF CartInv
    <2>6. QED
      BY <1>11, <1>13, <2>1, <2>2, <2>3, <2>4, <2>5, <2>cart
      DEF TxInv, CreateInv, StatusInv, MoveInv
  <1>19. OrdersInv' /\ ShippedIsTracked' /\ BalanceInv'
    BY <1>14, OrdersFrame, StoredFrame DEF IInv
  <1>20. QED
    BY <1>15, <1>17, <1>18, <1>19, <1>carts DEF IInv

\* The DELETE of the cart: what is left of the basket will go.
LEMMA ClearCartStep ==
  ASSUME IInv, NEW t \in Txs, ClearCart(t)
  PROVE  IInv'
  <1> DEFINE new == [tx[t] EXCEPT !.pc = "write", !.cleared = cart[tx[t].user]]
  <1>1. TypeOK /\ TxInv(t) /\ tx[t].pc = "clear"
    BY DEF IInv, ClearCart
  <1>2. tx[t] \in TxState /\ tx[t].kind = "create"
    BY <1>1, TxFields DEF TxInv, LocksInv, StatusInv, RestoreInv, TxState
  <1>3. CreateShape(t) /\ DoneInv(t) /\ DistinctInv(t) /\ CartInv(t) /\ LocksInv(t)
    BY <1>1, <1>2 DEF TxInv, CreateInv
  <1>4. cart[tx[t].user] \in SUBSET CartRows
    BY <1>1, <1>3 DEF TypeOK, CreateShape
  <1>5. /\ new \in TxState /\ new.pc = "write" /\ new.kind = "create"
        /\ new.batch = tx[t].batch /\ new.todo = tx[t].todo /\ new.done = tx[t].done
        /\ new.user = tx[t].user /\ new.basket = tx[t].basket
        /\ new.cleared = cart[tx[t].user]
    BY <1>2, <1>4 DEF TxState
  <1>6. tx' = [tx EXCEPT ![t] = new]
    BY <1>1 DEF ClearCart, TypeOK
  <1>7. tx' \in [Txs -> TxState] /\ tx'[t] = new /\ \A s \in Txs \ {t} : tx'[s] = tx[s]
    BY <1>1, <1>5, <1>6 DEF TypeOK
  <1>8. UNCHANGED <<stock, price, active, supplied, status, lines, tracking, timedOut,
                    cart, nextRow, rowLock, orderLock, nextOrder>>
    BY DEF ClearCart, productVars, orderVars, cartVars, lockVars
  <1>9. TypeOK'
    BY <1>1, <1>7 DEF TypeOK, ClearCart, productVars, orderVars, cartVars, lockVars
  <1>10. nextOrder' >= nextOrder /\ OnlyNewRows /\ CartsInv'
    BY <1>1, <1>8, NextOrderType, SameCarts DEF IInv, cartVars
  <1> HIDE DEF new
  <1>11. ASSUME NEW s \in Txs, s # t
         PROVE  TxInv(s)'
    BY <1>1, <1>7, <1>8, <1>9, <1>10, <1>11, TxFrame DEF IInv
  <1>12. TxInv(t)'
    <2>1. LocksInv(t)'
      BY <1>1, <1>2, <1>3, <1>5, <1>7, <1>8 DEF LocksInv
    <2>2. CreateShape(t)'
      BY <1>3, <1>5, <1>7, <1>8 DEF CreateShape
    <2>3. TakeInv(t)'
      BY <1>5, <1>7 DEF TakeInv
    <2>4. DoneInv(t)'
      BY <1>3, <1>5, <1>7, <1>8 DEF DoneInv
    <2>5. DistinctInv(t)'
      BY <1>3, <1>5, <1>7 DEF DistinctInv, DistinctRequests, Distinct
    <2>6. CartInv(t)'
      BY <1>3, <1>5, <1>7, <1>8 DEF CartInv
    <2>7. QED
      BY <1>5, <1>7, <2>1, <2>2, <2>3, <2>4, <2>5, <2>6
      DEF TxInv, CreateInv, StatusInv, MoveInv
  <1>13. OrdersInv' /\ ShippedIsTracked' /\ BalanceInv'
    BY <1>8, OrdersFrame, StoredFrame DEF IInv
  <1>14. QED
    BY <1>9, <1>10, <1>11, <1>12, <1>13 DEF IInv

\* A create_order transaction has taken nothing from a row it does not hold.
LEMMA NothingTaken ==
  ASSUME TypeOK, NEW t \in Txs, DoneInv(t), NEW p \in Products, rowLock[p] # t
  PROVE  Qty(tx[t].done, p) = 0
  <1>1. tx[t].done \in Seq(OrderLine)
    BY TxFields
  <1>2. Len(tx[t].done) \in Nat /\ \A i \in 1 .. Len(tx[t].done) : tx[t].done[i].product # p
    BY <1>1 DEF DoneInv
  <1>3. QED
    BY <1>2, QtyZero

LEMMA CommitCreateStep ==
  ASSUME IInv, NEW t \in Txs, CommitCreate(t)
  PROVE  IInv'
  <1> DEFINE done == tx[t].done
  <1>1. TypeOK /\ TxInv(t) /\ tx[t].pc = "write" /\ tx[t].kind = "create"
    BY DEF IInv, CommitCreate
  <1>2. CreateShape(t) /\ DoneInv(t) /\ DistinctInv(t) /\ CartInv(t) /\ LocksInv(t)
    BY <1>1 DEF TxInv, CreateInv
  <1>3. PICK o \in Orders : tx[t].batch = {o} /\ status[o] = "NONE" /\ o < nextOrder
    BY <1>2 DEF CreateShape
  <1>4. /\ status' = [status EXCEPT ![o] = "PENDING"]
        /\ lines' = [lines EXCEPT ![o] = done]
        /\ owner' = [owner EXCEPT ![o] = tx[t].user]
    BY <1>3 DEF CommitCreate
  <1>5. /\ done \in Seq(OrderLine) /\ tx[t].user \in Users /\ orderLock[o] = t
        /\ Len(done) <= MaxLines
    <2>1. done \in Seq(OrderLine) /\ tx[t].todo \in Seq(RequestLine)
      BY <1>1, TxFields
    <2>2. Len(done) \in Nat /\ Len(tx[t].todo) \in Nat
      BY <2>1
    <2>3. Len(done) + Len(tx[t].todo) <= MaxLines
      BY <1>2 DEF CreateShape
    <2>4. Len(done) <= MaxLines
      <3> HIDE DEF done
      <3>1. QED
        BY <2>2, <2>3, SizeAssumption
    <2>5. QED
      BY <1>2, <1>3, <2>1, <2>4 DEF CreateShape, LocksInv
  <1>6. \A p \in Products : /\ stock[p] \in Int /\ 0 <= stock'[p] /\ stock'[p] <= MaxInt
                            /\ stock'[p] = stock[p] - Qty(done, p)
    <2> TAKE p \in Products
    <2>1. Qty(done, p) \in Nat /\ Qty(done, p) <= stock[p] /\ stock[p] \in 0 .. MaxInt
      BY <1>1, <1>2, QtyType DEF DoneInv, TypeOK
    <2>2. stock'[p] = stock[p] - Qty(done, p)
      BY DEF CommitCreate, Available
    <2>3. QED
      BY <2>1, <2>2, SizeAssumption
  <1>7. stock' \in [Products -> 0 .. MaxInt]
    <2>1. stock' = [p \in Products |-> Available(t, p)]
      BY DEF CommitCreate
    <2>2. \A p \in Products : stock'[p] \in 0 .. MaxInt
      <3> TAKE p \in Products
      <3>1. Qty(done, p) \in Nat
        BY QtyType
      <3>2. QED
        BY <1>6, <3>1, SizeAssumption
    <2>3. QED
      BY <2>1, <2>2
  <1>8. End(t) /\ UNCHANGED <<price, active, supplied, tracking, slip, timedOut, nextRow,
                             nextOrder, faults>>
    BY DEF CommitCreate
  <1>9. TypeOK'
    <2>1. cart' = [cart EXCEPT ![tx[t].user] = @ \ tx[t].cleared]
      BY DEF CommitCreate
    <2>2. /\ status' \in [Orders -> Statuses \cup {"NONE"}]
          /\ lines' \in [Orders -> Seq(OrderLine)]
          /\ owner' \in [Orders -> Users \cup {None}]
          /\ cart' \in [Users -> SUBSET CartRows]
      BY <1>1, <1>4, <1>5, <2>1 DEF TypeOK, Statuses
    <2>3. QED
      BY <1>1, <1>7, <1>8, <2>2, EndFrame DEF TypeOK
  <1>carts. OnlyNewRows /\ CartsInv'
    <2>1. \A u \in Users : cart'[u] \subseteq cart[u]
      BY <1>1 DEF CommitCreate, TypeOK
    <2>2. nextRow' = nextRow /\ nextRow \in Int
      BY <1>1, <1>8, BoundAssumption DEF TypeOK
    <2>3. QED
      BY <2>1, <2>2 DEF IInv, OnlyNewRows, CartsInv
  <1>10. ASSUME NEW s \in Txs, s # t
         PROVE  TxInv(s)'
    <2>1. TxInv(s)
      BY DEF IInv
    <2>2. \A p \in Products : rowLock[p] = s =>
            stock'[p] = stock[p] /\ price'[p] = price[p] /\ active'[p] = active[p]
      <3> SUFFICES ASSUME NEW p \in Products, rowLock[p] = s
                   PROVE  stock'[p] = stock[p] /\ price'[p] = price[p] /\ active'[p] = active[p]
        OBVIOUS
      <3>1. Qty(done, p) = 0
        BY <1>1, <1>2, <1>10, NothingTaken
      <3>2. stock'[p] = stock[p]
        BY <1>6, <3>1
      <3>3. QED
        BY <1>8, <3>2
    <2>3. o \notin tx[s].batch
      BY <1>5, <1>10, <2>1 DEF TxInv, LocksInv
    <2>4. \A q \in tx[s].batch : /\ status'[q] = status[q] /\ lines'[q] = lines[q]
                                 /\ timedOut[q] => timedOut'[q]
      BY <1>1, <1>4, <1>8, <2>3, TxFields DEF TypeOK
    <2>5. nextOrder' >= nextOrder
      BY <1>1, <1>8, NextOrderType
    <2>6. QED
      BY <1>1, <1>8, <1>9, <1>10, <1>carts, <2>1, <2>2, <2>4, <2>5, EndFrame, TxFrame
  <1>11. TxInv(t)'
    BY <1>1, <1>8, EndFrame, IdleTx
  <1>12. OrdersInv'
    <2>1. ~ (o >= nextOrder)
      BY <1>1, <1>3, NextOrderType, BoundAssumption DEF Orders
    <2>2. \A q \in Orders : orderLock[q] = None => orderLock'[q] = None
      BY <1>1, <1>8, EndFrame
    <2>3. \A q \in Orders : q >= nextOrder' => status'[q] = "NONE" /\ orderLock'[q] = None
      BY <1>1, <1>4, <1>8, <2>1, <2>2 DEF IInv, OrdersInv, TypeOK
    <2>4. \A q \in Orders : Len(lines'[q]) <= MaxLines
      BY <1>1, <1>4, <1>5 DEF IInv, OrdersInv, TypeOK
    <2>5. DistinctRequests => \A q \in Orders : Distinct(lines'[q])
      BY <1>1, <1>2, <1>4 DEF IInv, OrdersInv, TypeOK, DistinctInv
    <2>6. QED
      BY <2>3, <2>4, <2>5 DEF OrdersInv, DistinctRequests, Distinct
  <1>13. ShippedIsTracked'
    BY <1>1, <1>3, <1>4, <1>8 DEF IInv, ShippedIsTracked, TypeOK
  <1>14. BalanceInv'
    <2>1. Live' = Live \cup {o} /\ o \notin Live /\ Live \subseteq Orders
      BY <1>1, <1>3, <1>4 DEF Live, TypeOK
    <2>2. ASSUME NEW p \in Products
          PROVE  stock'[p] + Total(lines', Live', p) = stock[p] + Total(lines, Live, p)
      <3>1. IsFiniteSet(Live) /\ IsFiniteSet({o}) /\ Live \cap {o} = {}
        BY <2>1, OrdersFinite, FS_Singleton
      <3>2. Total(lines', Live', p) = Total(lines', Live, p) + Total(lines', {o}, p)
        BY <2>1, <3>1, TotalOfUnion
      <3>3. Total(lines', Live, p) = Total(lines, Live, p)
        <4>1. \A q \in Live : lines'[q] = lines[q]
          BY <1>1, <1>4, <2>1 DEF TypeOK
        <4>2. QED
          BY <4>1, TotalSameLines
      <3>4. Total(lines', {o}, p) = Qty(done, p)
        <4>1. lines'[o] = done
          BY <1>1, <1>4 DEF TypeOK
        <4>2. QED
          BY <4>1, TotalOfOne
      <3>5. Total(lines, Live, p) \in Nat /\ Qty(done, p) \in Nat
        BY <2>1, LiveTotalType, QtyType
      <3>6. Total(lines', Live', p) = Total(lines, Live, p) + Qty(done, p)
        BY <3>2, <3>3, <3>4
      <3>7. QED
        BY <1>6, <3>5, <3>6
    <2>3. QED
      BY <1>8, <2>2 DEF IInv, BalanceInv, NoOversell, Conserved, StockConserved,
                        DistinctRequests, Distinct
  <1>15. QED
    BY <1>9, <1>10, <1>11, <1>12, <1>13, <1>14, <1>carts DEF IInv

\* The record a status transaction starts with.
LEMMA RestoreTxRecord ==
  ASSUME TypeOK, NEW t \in Txs, NEW r \in TxState, NEW a \in [Products -> Nat],
         RestoreTx(t, r, a)
  PROVE  \E new \in TxState :
           /\ tx' = [tx EXCEPT ![t] = new]
           /\ new.kind = r.kind /\ new.batch = r.batch /\ new.target = r.target
           /\ new.tracked = r.tracked /\ new.amount = a
           /\ \/ new.pc = "write" /\ RowsOf(a) = {}
              \/ new.pc = "lock" /\ new.want \in RowsOf(a)
  <1>1. CASE RowsOf(a) = {} /\ StatusTx(t, r, a)
    <2> DEFINE new == [r EXCEPT !.pc = "write", !.amount = a]
    <2>1. /\ new \in TxState /\ new.pc = "write" /\ new.kind = r.kind /\ new.batch = r.batch
          /\ new.target = r.target /\ new.tracked = r.tracked /\ new.amount = a
      BY DEF TxState
    <2>2. tx' = [tx EXCEPT ![t] = new]
      BY <1>1 DEF StatusTx
    <2> HIDE DEF new
    <2>3. QED
      BY <1>1, <2>1, <2>2
  <1>2. ASSUME NEW p \in RowsOf(a),
               tx' = [tx EXCEPT ![t] = [r EXCEPT !.pc = "lock", !.amount = a, !.want = p]]
        PROVE  \E new \in TxState :
                 /\ tx' = [tx EXCEPT ![t] = new]
                 /\ new.kind = r.kind /\ new.batch = r.batch /\ new.target = r.target
                 /\ new.tracked = r.tracked /\ new.amount = a
                 /\ new.pc = "lock" /\ new.want \in RowsOf(a)
    <2> DEFINE new == [r EXCEPT !.pc = "lock", !.amount = a, !.want = p]
    <2>1. p \in Products
      BY DEF RowsOf
    <2>2. /\ new \in TxState /\ new.pc = "lock" /\ new.kind = r.kind /\ new.batch = r.batch
          /\ new.target = r.target /\ new.tracked = r.tracked /\ new.amount = a /\ new.want = p
      BY <2>1 DEF TxState
    <2>3. tx' = [tx EXCEPT ![t] = new]
      BY <1>2
    <2> HIDE DEF new
    <2>4. QED
      BY <2>2, <2>3
  <1>3. QED
    BY <1>1, <1>2 DEF RestoreTx

\* A transaction begins a status change: it has locked the orders of r.batch,
\* checked the moves and planned the amounts.
LEMMA BeginStatusStep ==
  ASSUME IInv, NEW t \in Txs, tx[t].pc = "idle", NEW r \in TxState, NEW a \in [Products -> Nat],
         RestoreTx(t, r, a), r.kind \in {"admin", "slip", "stale"}, r.target \in Statuses,
         \A o \in r.batch : orderLock[o] = None /\ Exists(o),
         orderLock' = [o \in Orders |-> IF o \in r.batch THEN t ELSE orderLock[o]],
         UNCHANGED <<productVars, orderVars, cartVars, rowLock, nextOrder, faults>>,
         Plan([r EXCEPT !.amount = a]), Moves(r)
  PROVE  IInv'
  <1>1. TypeOK /\ TxInv(t) /\ tx[t] = Idle /\ OrdersInv
    BY DEF IInv, TxInv, LocksInv
  <1>2. /\ \A p \in Products : rowLock[p] # t
        /\ \A o \in Orders : orderLock[o] # t
    BY <1>1, IdleType DEF TxInv, LocksInv
  <1>3. PICK new \in TxState :
           /\ tx' = [tx EXCEPT ![t] = new]
           /\ new.kind = r.kind /\ new.batch = r.batch /\ new.target = r.target
           /\ new.tracked = r.tracked /\ new.amount = a
           /\ \/ new.pc = "write" /\ RowsOf(a) = {}
              \/ new.pc = "lock" /\ new.want \in RowsOf(a)
    BY <1>1, RestoreTxRecord
  <1>4. tx' \in [Txs -> TxState] /\ tx'[t] = new /\ \A s \in Txs \ {t} : tx'[s] = tx[s]
    BY <1>1, <1>3 DEF TypeOK
  <1>5. UNCHANGED <<stock, price, active, supplied, status, lines, tracking, timedOut,
                    rowLock, nextOrder>>
    BY DEF productVars, orderVars
  <1>6. orderLock' \in [Orders -> Txs \cup {None}]
    BY <1>1 DEF TypeOK
  <1>7. TypeOK'
    BY <1>1, <1>4, <1>6 DEF TypeOK, productVars, orderVars, cartVars
  <1>carts. OnlyNewRows /\ CartsInv'
    BY <1>1, SameCarts DEF IInv
  <1>8. ASSUME NEW s \in Txs, s # t
        PROVE  TxInv(s)'
    <2>1. \A o \in Orders : orderLock'[o] = s <=> orderLock[o] = s
      BY <1>8, NoneIsNoTx
    <2>2. nextOrder' >= nextOrder
      BY <1>1, <1>5, NextOrderType
    <2>3. QED
      BY <1>1, <1>4, <1>5, <1>7, <1>8, <1>carts, <2>1, <2>2, TxFrame DEF IInv
  <1>9. TxInv(t)'
    <2>1. r.batch \subseteq Orders
      BY DEF TxState
    <2>2. LocksInv(t)'
      BY <1>2, <1>3, <1>4, <2>1 DEF LocksInv
    <2>3. RestoreInv(t)'
      <3>1. RowsOf(a)' = RowsOf(a) /\ RowsOf(a) \subseteq Products
        BY DEF RowsOf
      <3>2. QED
        BY <1>2, <1>3, <1>4, <1>5, <3>1 DEF RestoreInv
    <2>4. RestorePlan(t)'
      <3> DEFINE q == [r EXCEPT !.amount = a]
      <3>1. q.batch = r.batch /\ q.target = r.target /\ q.amount = a
        BY DEF TxState
      <3>2. Live' = Live
        BY <1>5 DEF Live
      <3>3. Plan(q)
        OBVIOUS
      <3> HIDE DEF q
      <3>4. \A p : Total(lines', r.batch, p) = Total(lines, r.batch, p)
        BY <1>5, TotalSameLines
      <3>5. QED
        BY <1>3, <1>4, <3>1, <3>2, <3>3, <3>4 DEF RestorePlan, Plan, DistinctRequests, Distinct
    <2>5. MoveInv(t)'
      BY <1>3, <1>4, <1>5 DEF MoveInv, Moves, Stale
    <2>6. QED
      BY <1>3, <1>4, <2>2, <2>3, <2>4, <2>5 DEF TxInv, CreateInv, StatusInv
  <1>10. OrdersInv'
    <2>1. \A o \in Orders : o >= nextOrder => o \notin r.batch
      BY <1>1 DEF OrdersInv, Exists
    <2>2. QED
      BY <1>1, <1>5, <2>1 DEF OrdersInv, DistinctRequests, Distinct
  <1>11. ShippedIsTracked' /\ BalanceInv'
    BY <1>5, StoredFrame DEF IInv
  <1>12. QED
    BY <1>7, <1>8, <1>9, <1>10, <1>11, <1>carts DEF IInv

\* The UPDATE ... FROM order_items of an admin's cancellation adds at most what
\* the order holds, and exactly that when no product is repeated.
LEMMA AdminAmountsBound ==
  ASSUME TypeOK, OrdersInv, NEW o \in Orders, NEW a \in AdminAmounts(o), NEW p \in Products
  PROVE  /\ a \in [Products -> Nat]
         /\ a[p] <= Qty(lines[o], p)
         /\ DistinctRequests => a[p] = Qty(lines[o], p)
  <1> DEFINE s == lines[o]
  <1>1. /\ s \in Seq(OrderLine) /\ Len(s) \in Nat /\ DOMAIN s = 1 .. Len(s) /\ Len(s) <= MaxLines
        /\ DistinctRequests => Distinct(s)
    BY DEF TypeOK, OrdersInv
  <1>2. a \in [Products -> 0 .. MaxInt] /\ a \in [Products -> Nat]
    BY SizeAssumption DEF AdminAmounts
  <1>3. CASE p \notin ProductsOf(o)
    <2>1. a[p] = 0
      BY <1>3 DEF AdminAmounts
    <2>2. \A i \in 1 .. Len(s) : s[i].product # p
      BY <1>1, <1>3 DEF ProductsOf
    <2>3. Qty(s, p) = 0
      BY <1>1, <2>2, QtyZero
    <2>4. QED
      BY <1>2, <2>1, <2>3
  <1>4. CASE p \in ProductsOf(o)
    <2>1. PICK i \in DOMAIN s : s[i].product = p /\ a[p] = s[i].qty
      BY <1>4 DEF AdminAmounts
    <2>2. s[i] \in OrderLine
      BY <1>1
    <2>3. i \in 1 .. MaxLines /\ i <= Len(s) /\ s[i].qty \in 1 .. MaxInt
      BY <1>1, <2>2, SizeAssumption DEF OrderLine
    <2> HIDE DEF s
    <2>4. /\ s[i].qty <= Qty(s, s[i].product)
          /\ (\A j \in 1 .. Len(s) : s[j].product = s[i].product => j = i)
               => Qty(s, s[i].product) = s[i].qty
      BY <1>1, <2>3, QtyOfLine
    <2>5. DistinctRequests => \A j \in 1 .. Len(s) : s[j].product = s[i].product => j = i
      BY <1>1, <2>1 DEF Distinct
    <2>6. QED
      BY <1>2, <2>1, <2>4, <2>5 DEF s
  <1>5. QED
    BY <1>3, <1>4

\* No row is updated when nothing is given back.
LEMMA NoRows == RowsOf(NoAmount) = {}
  BY DEF RowsOf, NoAmount

LEMMA BeginAdminStep ==
  ASSUME IInv, NEW t \in Handlers, NEW o \in Orders, NEW next \in AdminTargets,
         NEW newTracking \in BOOLEAN, BeginAdmin(t, o, next, newTracking)
  PROVE  IInv'
  <1> DEFINE final == newTracking \/ tracking[o]
             r == [Idle EXCEPT !.kind = "admin", !.batch = {o},
                               !.target = next, !.tracked = final]
  <1>1. /\ TypeOK /\ OrdersInv /\ t \in Txs /\ tx[t].pc = "idle" /\ next \in Statuses
        /\ Exists(o) /\ orderLock[o] = None /\ ValidTransition(status[o], next)
        /\ status[o] \in Statuses
    BY EditAssumption DEF IInv, TypeOK, Txs, BeginAdmin, OrderFree, Exists
  <1>2. final \in BOOLEAN
    BY <1>1 DEF TypeOK
  <1>3. /\ r \in TxState /\ r.kind = "admin" /\ r.batch = {o} /\ r.target = next
        /\ r.tracked = final /\ r.amount = NoAmount
    <2> DEFINE q == [Idle EXCEPT !.kind = "admin", !.batch = {o}, !.target = next]
    <2>1. /\ q \in TxState /\ q.kind = "admin" /\ q.batch = {o} /\ q.target = next
          /\ q.amount = NoAmount
      <3>1. {o} \in SUBSET Orders
        OBVIOUS
      <3>2. next \in Statuses
        BY <1>1
      <3> HIDE DEF final, r
      <3>3. QED
        BY <3>1, <3>2, IdleType DEF TxState, Idle
    <2>2. r = [q EXCEPT !.tracked = final]
      BY DEF Idle
    <2> HIDE DEF q, r, final
    <2>3. QED
      BY <1>2, <2>1, <2>2 DEF TxState
  <1>4. orderLock' = [q \in Orders |-> IF q \in r.batch THEN t ELSE orderLock[q]]
    BY <1>1, <1>3 DEF BeginAdmin, TypeOK
  <1>5. Moves(r)
    <2>1. status[o] = next \/ <<status[o], next>> \in DocumentedMoves
      BY <1>1 DEF ValidTransition, AdminMoves, Statuses, DocumentedMoves
    <2>2. final <=> next \in {"SHIPPED", "DELIVERED"}
      <3>1. final => next \in {"SHIPPED", "DELIVERED"}
        BY DEF BeginAdmin, StatusSupportsTracking
      <3>2. next = "SHIPPED" => final
        BY DEF BeginAdmin
      <3>3. next = "DELIVERED" => status[o] \in {"SHIPPED", "DELIVERED"}
        BY <2>1 DEF DocumentedMoves
      <3>4. status[o] \in {"SHIPPED", "DELIVERED"} => tracking[o]
        BY DEF IInv, ShippedIsTracked
      <3>5. QED
        BY <3>1, <3>2, <3>3, <3>4
    <2> HIDE DEF final, r
    <2>3. QED
      BY <1>3, <2>1, <2>2 DEF Moves
  <1>6. UNCHANGED <<productVars, orderVars, cartVars, rowLock, nextOrder, faults>>
    BY DEF BeginAdmin
  <1>7. \A q \in r.batch : orderLock[q] = None /\ Exists(q)
    BY <1>1, <1>3
  <1>8. ASSUME NEW a \in [Products -> Nat], RestoreTx(t, r, a), Plan([r EXCEPT !.amount = a])
        PROVE  IInv'
    <2> HIDE DEF r
    <2>1. QED
      BY <1>1, <1>3, <1>4, <1>5, <1>6, <1>7, <1>8, BeginStatusStep
  <1>9. CASE ShouldRestoreStock(status[o], next)
    <2>1. PICK a \in AdminAmounts(o) : RestoreTx(t, r, a)
      BY <1>9 DEF BeginAdmin
    <2>2. a \in [Products -> Nat]
      BY SizeAssumption DEF AdminAmounts
    <2>3. \A p \in Products : /\ a[p] <= Total(lines, {o}, p)
                              /\ DistinctRequests => a[p] = Total(lines, {o}, p)
      <3> TAKE p \in Products
      <3>1. a[p] <= Qty(lines[o], p) /\ (DistinctRequests => a[p] = Qty(lines[o], p))
        BY <1>1, AdminAmountsBound
      <3>2. Total(lines, {o}, p) = Qty(lines[o], p)
        BY TotalOfOne
      <3>3. QED
        BY <3>1, <3>2
    <2>4. next = "CANCELLED" /\ o \in Live
      BY <1>1, <1>9 DEF ShouldRestoreStock, Live, Exists
    <2>5. Plan([r EXCEPT !.amount = a])
      <3> DEFINE q == [r EXCEPT !.amount = a]
      <3>1. q.batch = {o} /\ q.target = next /\ q.amount = a
        BY <1>3 DEF TxState
      <3> HIDE DEF q
      <3>2. Plan(q)
        BY <2>3, <2>4, <3>1 DEF Plan
      <3>3. QED
        BY <3>2 DEF q
    <2>6. QED
      BY <1>8, <2>1, <2>2, <2>5
  <1>10. CASE ~ShouldRestoreStock(status[o], next)
    <2>1. StatusTx(t, r, NoAmount)
      BY <1>10 DEF BeginAdmin
    <2>2. RestoreTx(t, r, NoAmount)
      BY <2>1, NoRows DEF RestoreTx
    <2>3. \/ next # "CANCELLED" /\ o \in Live
          \/ next = "CANCELLED" /\ o \notin Live
      BY <1>1, <1>10 DEF ShouldRestoreStock, ValidTransition, AdminMoves, Live, Exists
    <2>4. Plan([r EXCEPT !.amount = NoAmount])
      <3> DEFINE q == [r EXCEPT !.amount = NoAmount]
      <3>1. q.batch = {o} /\ q.target = next /\ q.amount = NoAmount
        BY <1>3 DEF TxState
      <3> HIDE DEF q
      <3>2. Plan(q)
        BY <2>3, <3>1 DEF Plan
      <3>3. QED
        BY <3>2 DEF q
    <2>5. QED
      BY <1>8, <2>2, <2>4, IdleType
  <1>11. QED
    BY <1>9, <1>10

LEMMA BeginSlipStep ==
  ASSUME IInv, NEW t \in Handlers, NEW u \in Users, NEW o \in Orders, BeginSlip(t, u, o)
  PROVE  IInv'
  <1> DEFINE r == [Idle EXCEPT !.kind = "slip", !.batch = {o}, !.target = "PAYMENT_REVIEW"]
  <1>1. /\ TypeOK /\ t \in Txs /\ tx[t].pc = "idle" /\ orderLock[o] = None
        /\ status[o] \in {"PENDING", "PAYMENT_REVIEW", "PAYMENT_FAILED"}
    BY DEF IInv, Txs, BeginSlip, OrderFree
  <1>2. /\ r \in TxState /\ r.kind = "slip" /\ r.batch = {o} /\ r.target = "PAYMENT_REVIEW"
        /\ r.amount = NoAmount
    <2>1. {o} \in SUBSET Orders /\ "PAYMENT_REVIEW" \in Statuses
      BY DEF Statuses
    <2>2. QED
      BY <2>1, IdleType DEF TxState, Idle
  <1>3. orderLock' = [q \in Orders |-> IF q \in r.batch THEN t ELSE orderLock[q]]
    BY <1>1, <1>2 DEF BeginSlip, TypeOK
  <1>4. UNCHANGED <<productVars, orderVars, cartVars, rowLock, nextOrder, faults>>
    BY DEF BeginSlip
  <1>5. \A q \in r.batch : orderLock[q] = None /\ Exists(q)
    BY <1>1, <1>2 DEF Exists
  <1>6. RestoreTx(t, r, NoAmount)
    BY NoRows DEF BeginSlip, RestoreTx
  <1>7. Plan([r EXCEPT !.amount = NoAmount])
    <2>1. [r EXCEPT !.amount = NoAmount] = r
      BY <1>2 DEF TxState
    <2> HIDE DEF r
    <2>2. o \in Live
      BY <1>1 DEF Live
    <2>3. Plan(r)
      BY <1>2, <2>2 DEF Plan
    <2>4. QED
      BY <2>1, <2>3
  <1> HIDE DEF r
  <1>8. Moves(r)
    BY <1>1, <1>2 DEF Moves, DocumentedMoves
  <1>9. r.target \in Statuses
    BY <1>2 DEF Statuses
  <1>10. QED
    BY <1>1, <1>2, <1>3, <1>4, <1>5, <1>6, <1>7, <1>8, <1>9, IdleType, BeginStatusStep

LEMMA BeginStaleStep ==
  ASSUME IInv, NEW t \in Cleaners, NEW S \in SUBSET Orders, BeginStale(t, S)
  PROVE  IInv'
  <1> DEFINE r == [Idle EXCEPT !.kind = "stale", !.batch = S, !.target = "CANCELLED"]
             a == StaleAmounts(S)
  <1>1. /\ TypeOK /\ t \in Txs /\ tx[t].pc = "idle" /\ S \subseteq Candidates
        /\ RestoreTx(t, r, a)
    BY DEF IInv, Txs, BeginStale
  <1>2. \A o \in S : /\ orderLock[o] = None /\ Exists(o) /\ Stale(o) /\ o \in Live
                     /\ status[o] \in {"PENDING", "PAYMENT_FAILED"}
    BY <1>1, EditAssumption DEF Candidates, OrderFree, Stale, Exists, Live
  <1>3. /\ r \in TxState /\ r.kind = "stale" /\ r.batch = S /\ r.target = "CANCELLED"
    <2>1. "CANCELLED" \in Statuses
      BY DEF Statuses
    <2>2. QED
      BY <2>1, IdleType DEF TxState, Idle
  <1>4. orderLock' = [q \in Orders |-> IF q \in r.batch THEN t ELSE orderLock[q]]
    BY <1>3 DEF BeginStale
  <1>5. UNCHANGED <<productVars, orderVars, cartVars, rowLock, nextOrder, faults>>
    BY DEF BeginStale
  <1>6. a \in [Products -> Nat] /\ \A p \in Products : a[p] = Total(lines, S, p)
    BY LiveTotalType DEF StaleAmounts
  <1>7. Plan([r EXCEPT !.amount = a])
    <2> DEFINE q == [r EXCEPT !.amount = a]
    <2>1. q.batch = S /\ q.target = "CANCELLED" /\ q.amount = a
      BY <1>3 DEF TxState
    <2> HIDE DEF q, r, a
    <2>2. \A p \in Products : Total(lines, S, p) \in Nat
      BY LiveTotalType
    <2>3. Plan(q)
      BY <1>2, <1>6, <2>1, <2>2 DEF Plan
    <2>4. QED
      BY <2>3 DEF q
  <1> HIDE DEF r, a
  <1>8. Moves(r)
    BY <1>2, <1>3 DEF Moves, DocumentedMoves
  <1>9. r.target \in Statuses /\ \A q \in r.batch : orderLock[q] = None /\ Exists(q)
    BY <1>2, <1>3 DEF Statuses
  <1>10. QED
    BY <1>1, <1>3, <1>4, <1>5, <1>6, <1>7, <1>8, <1>9, BeginStatusStep

LEMMA RestoreRowStep ==
  ASSUME IInv, NEW t \in Txs, RestoreRow(t)
  PROVE  IInv'
  <1> DEFINE p == Wanted(t)
             a == tx[t].amount
             left == {q \in RowsOf(a) : q # p /\ rowLock[q] # t}
  <1>1. /\ TypeOK /\ TxInv(t) /\ tx[t].pc = "lock" /\ tx[t].kind # "create"
        /\ stock[p] + a[p] <= MaxInt
    BY DEF IInv, RestoreRow
  <1>2. /\ tx[t] \in TxState /\ a \in [Products -> Nat]
        /\ tx[t].kind \in {"admin", "slip", "stale"}
    BY <1>1, TxFields DEF TxInv, LocksInv, TxState
  <1>3. RestoreInv(t) /\ RestorePlan(t) /\ LocksInv(t) /\ MoveInv(t)
    BY <1>1, <1>2 DEF TxInv, StatusInv
  <1>4. p \in RowsOf(a) /\ p \in Products /\ RowsOf(a) \subseteq Products
    BY <1>1, <1>3 DEF RestoreInv, Wanted, RowsOf
  <1>5. PICK new \in TxState :
          /\ tx' = [tx EXCEPT ![t] = new]
          /\ new.kind = tx[t].kind /\ new.batch = tx[t].batch /\ new.target = tx[t].target
          /\ new.tracked = tx[t].tracked /\ new.amount = a
          /\ \/ left = {} /\ new.pc = "write"
             \/ new.pc = "lock" /\ new.want \in left
    <2>1. CASE left = {} /\ tx' = [tx EXCEPT ![t].pc = "write", ![t].want = None]
      <3> DEFINE new == [tx[t] EXCEPT !.pc = "write", !.want = None]
      <3>1. /\ new \in TxState /\ new.kind = tx[t].kind /\ new.batch = tx[t].batch
            /\ new.target = tx[t].target /\ new.tracked = tx[t].tracked /\ new.amount = a
            /\ new.pc = "write"
        BY <1>2 DEF TxState
      <3>2. tx' = [tx EXCEPT ![t] = new]
        BY <1>1, <2>1 DEF TypeOK
      <3> HIDE DEF new, left
      <3>3. QED
        BY <2>1, <3>1, <3>2
    <2>2. ASSUME NEW q \in left, tx' = [tx EXCEPT ![t].want = q]
          PROVE  \E new \in TxState :
                   /\ tx' = [tx EXCEPT ![t] = new]
                   /\ new.kind = tx[t].kind /\ new.batch = tx[t].batch /\ new.target = tx[t].target
                   /\ new.tracked = tx[t].tracked /\ new.amount = a
                   /\ new.pc = "lock" /\ new.want \in left
      <3> DEFINE new == [tx[t] EXCEPT !.want = q]
      <3>1. q \in Products
        BY <1>4
      <3>2. /\ new \in TxState /\ new.kind = tx[t].kind /\ new.batch = tx[t].batch
            /\ new.target = tx[t].target /\ new.tracked = tx[t].tracked /\ new.amount = a
            /\ new.pc = "lock" /\ new.want = q
        BY <1>1, <1>2, <3>1 DEF TxState
      <3>3. tx' = [tx EXCEPT ![t] = new]
        BY <1>1, <2>2 DEF TypeOK
      <3> HIDE DEF new, left
      <3>4. QED
        BY <3>2, <3>3
    <2>3. QED
      BY <2>1, <2>2 DEF RestoreRow
  <1>6. tx' \in [Txs -> TxState] /\ tx'[t] = new /\ \A s \in Txs \ {t} : tx'[s] = tx[s]
    BY <1>1, <1>5 DEF TypeOK
  <1>7. /\ rowLock' \in [Products -> Txs \cup {None}] /\ rowLock'[p] = t
        /\ rowLock[p] \in {None, t} /\ \A q \in Products \ {p} : rowLock'[q] = rowLock[q]
    BY <1>1, <1>4 DEF TypeOK, RestoreRow, RowFree
  <1>8. UNCHANGED <<stock, price, active, supplied, status, lines, tracking, timedOut,
                    orderLock, nextOrder>>
    BY DEF RestoreRow, productVars, orderVars
  <1>9. TypeOK'
    BY <1>1, <1>6, <1>7 DEF TypeOK, RestoreRow, productVars, orderVars, cartVars
  <1>carts. OnlyNewRows /\ CartsInv'
    BY <1>1, SameCarts DEF IInv, RestoreRow
  <1>10. ASSUME NEW s \in Txs, s # t
         PROVE  TxInv(s)'
    <2>1. \A q \in Products : rowLock'[q] = s <=> rowLock[q] = s
      BY <1>7, <1>10, NoneIsNoTx
    <2>2. nextOrder' >= nextOrder
      BY <1>1, <1>8, NextOrderType
    <2>3. QED
      BY <1>1, <1>6, <1>8, <1>9, <1>10, <1>carts, <2>1, <2>2, TxFrame DEF IInv
  <1>11. TxInv(t)'
    <2>1. LocksInv(t)'
      BY <1>1, <1>2, <1>3, <1>5, <1>6, <1>8 DEF LocksInv
    <2>2. RestoreInv(t)'
      <3>1. RowsOf(a)' = RowsOf(a)
        BY <1>5, <1>6 DEF RowsOf
      <3>2. new.pc = "write" => \A q \in RowsOf(a) : rowLock'[q] = t
        BY <1>4, <1>5, <1>7
      <3>3. new.pc = "lock" => new.want \in RowsOf(a) /\ rowLock'[new.want] # t
        BY <1>4, <1>5, <1>7
      <3>4. \A q \in Products : rowLock'[q] = t => stock[q] + a[q] <= MaxInt
        BY <1>1, <1>3, <1>7 DEF RestoreInv
      <3> HIDE DEF left
      <3>5. QED
        BY <1>3, <1>5, <1>6, <1>8, <3>1, <3>2, <3>3, <3>4 DEF RestoreInv
    <2>3. RestorePlan(t)'
      <3>1. Live' = Live /\ \A q : Total(lines', tx[t].batch, q) = Total(lines, tx[t].batch, q)
        BY <1>8, TotalSameLines DEF Live
      <3>2. QED
        BY <1>3, <1>5, <1>6, <3>1 DEF RestorePlan, Plan, DistinctRequests, Distinct
    <2>4. MoveInv(t)'
      BY <1>2, <1>3, <1>5, <1>6, <1>8 DEF MoveInv, Moves, Stale
    <2>5. QED
      BY <1>2, <1>5, <1>6, <2>1, <2>2, <2>3, <2>4 DEF TxInv, CreateInv, StatusInv
  <1>12. OrdersInv' /\ ShippedIsTracked' /\ BalanceInv'
    BY <1>8, OrdersFrame, StoredFrame DEF IInv
  <1>13. QED
    BY <1>9, <1>10, <1>11, <1>12, <1>carts DEF IInv

\* The writes that the three status transactions share.
LEMMA WriteStatusStep ==
  ASSUME IInv, NEW t \in Txs, WriteStatus(t), tx[t].kind \in {"admin", "slip", "stale"},
         tracking' \in [Orders -> BOOLEAN], slip' \in [Orders -> BOOLEAN]
  PROVE  /\ TypeOK' /\ OrdersInv' /\ CartsInv' /\ BalanceInv'
         /\ \A s \in Txs : TxInv(s)'
  <1> DEFINE a == tx[t].amount
             batch == tx[t].batch
             target == tx[t].target
  <1>1. /\ TypeOK /\ TxInv(t) /\ tx[t].pc = "write" /\ End(t)
        /\ UNCHANGED <<price, active, supplied, lines, owner, cartVars, nextOrder, faults>>
    BY DEF IInv, WriteStatus
  <1>2. RestoreInv(t) /\ RestorePlan(t) /\ LocksInv(t)
    BY <1>1 DEF TxInv, StatusInv
  <1>3. batch \subseteq Orders /\ a \in [Products -> Nat] /\ target \in Statuses
    BY <1>1, <1>2, TxFields DEF RestoreInv
  <1>4. /\ \A o \in batch : status'[o] = target
        /\ \A o \in Orders \ batch : status'[o] = status[o] /\ timedOut'[o] = timedOut[o]
        /\ status' \in [Orders -> Statuses \cup {"NONE"}] /\ timedOut' \in [Orders -> BOOLEAN]
    BY <1>1, <1>3 DEF TypeOK, WriteStatus
  <1>5. \A p \in Products : /\ stock[p] \in Int /\ a[p] \in Nat /\ stock'[p] = stock[p] + a[p]
                            /\ stock'[p] \in 0 .. MaxInt
                            /\ rowLock[p] # t => a[p] = 0
    <2> TAKE p \in Products
    <2>1. stock[p] \in 0 .. MaxInt /\ a[p] \in Nat /\ stock'[p] = stock[p] + a[p]
      BY <1>1, <1>3 DEF TypeOK, WriteStatus
    <2>2. rowLock[p] # t => ~ (a[p] > 0)
      BY <1>1, <1>2 DEF RestoreInv, RowsOf
    <2>3. rowLock[p] = t => stock[p] + a[p] <= MaxInt
      BY <1>2 DEF RestoreInv
    <2> HIDE DEF a
    <2>4. QED
      BY <2>1, <2>2, <2>3, SizeAssumption
  <1>6. stock' \in [Products -> 0 .. MaxInt]
    BY <1>5 DEF WriteStatus
  <1>7. TypeOK'
    BY <1>1, <1>4, <1>6, EndFrame DEF TypeOK, cartVars
  <1>carts. OnlyNewRows /\ CartsInv'
    BY <1>1, SameCarts DEF IInv
  <1>8. ASSUME NEW s \in Txs, s # t
        PROVE  TxInv(s)'
    <2>1. TxInv(s) /\ LocksInv(s)
      BY DEF IInv, TxInv
    <2>2. \A p \in Products : rowLock[p] = s => stock'[p] = stock[p]
      BY <1>5, <1>8
    <2>3. tx[s].batch \subseteq Orders \ batch
      BY <1>1, <1>2, <1>8, <2>1, TxFields DEF LocksInv
    <2>4. nextOrder' >= nextOrder
      BY <1>1, NextOrderType
    <2> HIDE DEF batch
    <2>5. \A o \in tx[s].batch : /\ status'[o] = status[o] /\ lines'[o] = lines[o]
                                 /\ timedOut[o] => timedOut'[o]
      BY <1>1, <1>4, <2>3
    <2>6. QED
      BY <1>1, <1>7, <1>8, <1>carts, <2>1, <2>2, <2>4, <2>5, EndFrame, TxFrame
  <1>9. TxInv(t)'
    BY <1>1, EndFrame, IdleTx
  <1>10. OrdersInv'
    <2>1. OrdersInv /\ \A o \in batch : orderLock[o] = t
      BY <1>2, <1>3 DEF IInv, LocksInv
    <2>2. \A o \in Orders : o >= nextOrder => o \notin batch
      BY <2>1, NoneIsNoTx DEF OrdersInv
    <2>3. \A o \in Orders : orderLock[o] = None => orderLock'[o] = None
      BY <1>1, EndFrame
    <2> HIDE DEF batch, target
    <2>4. QED
      BY <1>1, <1>4, <2>1, <2>2, <2>3 DEF OrdersInv, DistinctRequests, Distinct
  <1>11. BalanceInv'
    <2>1. \A p : Total(lines', Live', p) = Total(lines, Live', p)
      BY <1>1, TotalSameLines
    <2>2. CASE Live' = Live /\ a = NoAmount
      <3>1. \A p \in Products : stock'[p] = stock[p]
        BY <1>5, <2>2 DEF NoAmount
      <3>2. QED
        BY <1>1, <2>1, <2>2, <3>1 DEF IInv, BalanceInv, NoOversell, Conserved, StockConserved,
                                      DistinctRequests, Distinct
    <2>3. CASE /\ Live = Live' \cup batch /\ Live' \cap batch = {}
               /\ \A p \in Products :
                    /\ a[p] <= Total(lines, batch, p)
                    /\ DistinctRequests => a[p] = Total(lines, batch, p)
      <3>1. ASSUME NEW p \in Products
            PROVE  /\ Total(lines, Live', p) \in Nat /\ Total(lines, batch, p) \in Nat
                   /\ Total(lines, Live, p) = Total(lines, Live', p) + Total(lines, batch, p)
        <4>1. Live' \in SUBSET Orders
          BY DEF Live
        <4>2. IsFiniteSet(Live') /\ IsFiniteSet(batch)
          BY <1>3, <4>1, OrdersFinite
        <4> HIDE DEF batch
        <4>3. QED
          BY <1>3, <2>3, <4>1, <4>2, LiveTotalType, TotalOfUnion
      <3>2. ASSUME NEW p \in Products
            PROVE  /\ stock'[p] + Total(lines, Live', p) <= stock[p] + Total(lines, Live, p)
                   /\ DistinctRequests =>
                        stock'[p] + Total(lines, Live', p) = stock[p] + Total(lines, Live, p)
        <4> DEFINE x == Total(lines, Live', p)
                   y == Total(lines, batch, p)
                   z == Total(lines, Live, p)
        <4>1. stock[p] \in Int /\ a[p] \in Nat /\ stock'[p] = stock[p] + a[p]
          BY <1>5
        <4>2. a[p] <= y /\ (DistinctRequests => a[p] = y)
          BY <2>3
        <4>3. x \in Nat /\ y \in Nat /\ z = x + y
          BY <3>1
        <4> HIDE DEF a, x, y, z
        <4>4. QED
          BY <4>1, <4>2, <4>3 DEF x, z
      <3>3. NoOversell'
        <4>1. \A p \in Products : supplied[p] \in Int /\ stock'[p] \in Int /\ stock[p] \in Int
          BY <1>1, <1>5, SizeAssumption DEF TypeOK
        <4>2. \A p \in Products : stock[p] + Total(lines, Live, p) <= supplied[p]
          BY DEF IInv, BalanceInv, NoOversell
        <4>3. ASSUME NEW p \in Products
              PROVE  stock'[p] + Total(lines, Live', p) <= supplied[p]
          <5>1. Total(lines, Live, p) \in Int /\ Total(lines, Live', p) \in Int
            BY LiveTotalType DEF Live
          <5>2. QED
            BY <3>2, <4>1, <4>2, <5>1
        <4>4. QED
          BY <1>1, <2>1, <4>3 DEF NoOversell
      <3>4. Conserved'
        <4>1. DistinctRequests' = DistinctRequests
          BY DEF DistinctRequests, Distinct
        <4>2. DistinctRequests =>
                \A p \in Products : stock'[p] + Total(lines, Live', p) = supplied[p]
          BY <3>2 DEF IInv, BalanceInv, Conserved, StockConserved
        <4>3. QED
          BY <1>1, <2>1, <4>1, <4>2 DEF Conserved, StockConserved
      <3>5. QED
        BY <3>3, <3>4 DEF BalanceInv
    <2>4. QED
      <3>1. \A o \in batch : o \in Live' <=> target # "CANCELLED"
        BY <1>3, <1>4 DEF Live, Statuses
      <3>2. \A o \in Orders \ batch : o \in Live' <=> o \in Live
        BY <1>4 DEF Live
      <3>3. Live \subseteq Orders /\ Live' \subseteq Orders
        BY DEF Live
      <3>4. \/ Live' = Live /\ a = NoAmount
            \/ /\ Live = Live' \cup batch /\ Live' \cap batch = {}
               /\ \A p \in Products :
                    /\ a[p] <= Total(lines, batch, p)
                    /\ DistinctRequests => a[p] = Total(lines, batch, p)
        BY <1>2, <3>1, <3>2, <3>3, <1>3 DEF RestorePlan, Plan
      <3>5. QED
        BY <2>2, <2>3, <3>4
  <1>12. QED
    BY <1>7, <1>8, <1>9, <1>10, <1>11, <1>carts

LEMMA CommitAdminStep ==
  ASSUME IInv, NEW t \in Txs, CommitAdmin(t)
  PROVE  IInv'
  <1>1. TypeOK /\ TxInv(t) /\ tx[t].kind = "admin" /\ WriteStatus(t)
    BY DEF IInv, CommitAdmin
  <1>2. tx[t] \in TxState /\ tx[t].tracked \in BOOLEAN
    BY <1>1, TxFields DEF TxState
  <1>3. tracking' \in [Orders -> BOOLEAN] /\ slip' \in [Orders -> BOOLEAN]
    BY <1>1, <1>2 DEF TypeOK, CommitAdmin
  <1>4. \A o \in tx[t].batch : tx[t].tracked <=> tx[t].target \in {"SHIPPED", "DELIVERED"}
    BY <1>1 DEF TxInv, MoveInv, Moves
  <1>5. ShippedIsTracked'
    BY <1>1, <1>2, <1>3, <1>4 DEF IInv, ShippedIsTracked, TypeOK, CommitAdmin, WriteStatus
  <1>6. QED
    BY <1>1, <1>3, <1>5, WriteStatusStep DEF IInv

LEMMA CommitSlipStep ==
  ASSUME IInv, NEW t \in Txs, CommitSlip(t)
  PROVE  IInv'
  <1>1. TypeOK /\ TxInv(t) /\ tx[t].kind = "slip" /\ WriteStatus(t)
    BY DEF IInv, CommitSlip
  <1>2. tracking' = tracking /\ tracking' \in [Orders -> BOOLEAN] /\ slip' \in [Orders -> BOOLEAN]
    BY <1>1 DEF TypeOK, CommitSlip
  <1>3. \A o \in tx[t].batch : /\ tx[t].target \notin {"SHIPPED", "DELIVERED"}
                               /\ status[o] \notin {"SHIPPED", "DELIVERED"}
    BY <1>1 DEF TxInv, MoveInv, Moves
  <1>4. ShippedIsTracked'
    BY <1>1, <1>2, <1>3 DEF IInv, ShippedIsTracked, TypeOK, WriteStatus
  <1>5. QED
    BY <1>1, <1>2, <1>4, WriteStatusStep DEF IInv

LEMMA CommitStaleStep ==
  ASSUME IInv, NEW t \in Txs, CommitStale(t)
  PROVE  IInv'
  <1>1. TypeOK /\ TxInv(t) /\ tx[t].kind = "stale" /\ WriteStatus(t)
    BY DEF IInv, CommitStale
  <1>2. tracking' = tracking /\ tracking' \in [Orders -> BOOLEAN] /\ slip' \in [Orders -> BOOLEAN]
    BY <1>1 DEF TypeOK, CommitStale
  <1>3. \A o \in tx[t].batch : /\ tx[t].target \notin {"SHIPPED", "DELIVERED"}
                               /\ status[o] \notin {"SHIPPED", "DELIVERED"}
    BY <1>1 DEF TxInv, MoveInv, Moves
  <1>4. ShippedIsTracked'
    BY <1>1, <1>2, <1>3 DEF IInv, ShippedIsTracked, TypeOK, WriteStatus
  <1>5. QED
    BY <1>1, <1>2, <1>4, WriteStatusStep DEF IInv

\* A step that changes no lock, no transaction and no order row but a timeout.
LEMMA OutsideStep ==
  ASSUME IInv, TypeOK', UNCHANGED <<status, lines, tracking, rowLock, orderLock, tx, nextOrder>>,
         \A o \in Orders : timedOut[o] => timedOut'[o],
         \A p \in Products : rowLock[p] # None =>
           stock'[p] = stock[p] /\ price'[p] = price[p] /\ active'[p] = active[p],
         OnlyNewRows, CartsInv',
         \A p \in Products : stock'[p] - stock[p] = supplied'[p] - supplied[p]
  PROVE  IInv'
  <1>1. TypeOK
    BY DEF IInv
  <1>2. ASSUME NEW s \in Txs
        PROVE  TxInv(s)'
    <2>1. nextOrder' >= nextOrder
      BY <1>1, NextOrderType
    <2>2. tx[s].batch \subseteq Orders
      BY <1>1, TxFields
    <2>3. QED
      BY <1>1, <2>1, <2>2, NoneIsNoTx, TxFrame DEF IInv
  <1>3. OrdersInv'
    BY OrdersFrame DEF IInv
  <1>4. ShippedIsTracked'
    BY DEF IInv, ShippedIsTracked
  <1>5. BalanceInv'
    <2>1. \A p : Total(lines', Live', p) = Total(lines, Live, p)
      <3>1. Live' = Live
        BY DEF Live
      <3>2. QED
        BY <3>1, TotalSameLines
    <2>2. ASSUME NEW p \in Products
          PROVE  /\ stock[p] \in Int /\ supplied[p] \in Int /\ Total(lines, Live, p) \in Int
                 /\ stock'[p] \in Int /\ supplied'[p] \in Int
      BY <1>1, SizeAssumption, LiveTotalType DEF TypeOK, Live
    <2>3. NoOversell'
      <3>1. ASSUME NEW p \in Products
            PROVE  stock'[p] + Total(lines, Live, p) <= supplied'[p]
        <4>1. stock[p] + Total(lines, Live, p) <= supplied[p]
          BY DEF IInv, BalanceInv, NoOversell
        <4>2. QED
          BY <2>2, <4>1
      <3>2. QED
        BY <2>1, <3>1 DEF NoOversell
    <2>4. Conserved'
      <3>1. DistinctRequests' = DistinctRequests
        BY DEF DistinctRequests, Distinct
      <3>2. ASSUME DistinctRequests, NEW p \in Products
            PROVE  stock'[p] + Total(lines, Live, p) = supplied'[p]
        <4>1. stock[p] + Total(lines, Live, p) = supplied[p]
          BY <3>2 DEF IInv, BalanceInv, Conserved, StockConserved
        <4>2. QED
          BY <2>2, <4>1
      <3>3. QED
        BY <2>1, <3>1, <3>2 DEF Conserved, StockConserved
    <2>5. QED
      BY <2>3, <2>4 DEF BalanceInv
  <1>6. QED
    BY <1>2, <1>3, <1>4, <1>5 DEF IInv

LEMMA UpdateProductStep ==
  ASSUME IInv, NEW p \in Editable, NEW s \in 0 .. MaxInt, NEW c \in Prices, NEW a \in BOOLEAN,
         UpdateProduct(p, s, c, a)
  PROVE  IInv'
  <1>1. TypeOK /\ p \in Products /\ rowLock[p] = None
    BY EditAssumption DEF IInv, UpdateProduct
  <1>2. /\ stock' = [stock EXCEPT ![p] = s] /\ price' = [price EXCEPT ![p] = c]
        /\ active' = [active EXCEPT ![p] = a]
        /\ supplied' = [supplied EXCEPT ![p] = @ + s - stock[p]]
        /\ UNCHANGED <<status, lines, owner, tracking, slip, timedOut, cart, nextRow, rowLock,
                       orderLock, tx, nextOrder, faults>>
    BY DEF UpdateProduct, orderVars, cartVars, lockVars
  <1>3. /\ stock \in [Products -> 0 .. MaxInt] /\ supplied \in [Products -> Int]
        /\ price \in [Products -> Prices] /\ active \in [Products -> BOOLEAN]
        /\ \A q \in Products : stock[q] \in Int /\ supplied[q] \in Int
    BY <1>1, SizeAssumption DEF TypeOK
  <1>4. TypeOK'
    <2>1. supplied[p] + s - stock[p] \in Int
      BY <1>1, <1>3, SizeAssumption
    <2>2. /\ stock' \in [Products -> 0 .. MaxInt] /\ supplied' \in [Products -> Int]
          /\ price' \in [Products -> Prices] /\ active' \in [Products -> BOOLEAN]
      BY <1>2, <1>3, <2>1
    <2>3. QED
      BY <1>1, <1>2, <2>2 DEF TypeOK
  <1>5. \A q \in Products : stock'[q] - stock[q] = supplied'[q] - supplied[q]
    BY <1>1, <1>2, <1>3, SizeAssumption
  <1>carts. OnlyNewRows /\ CartsInv'
    BY <1>1, SameCarts DEF IInv, UpdateProduct
  <1>6. QED
    BY <1>1, <1>2, <1>3, <1>4, <1>5, <1>carts, OutsideStep

LEMMA OtherSteps ==
  ASSUME IInv, \/ \E p \in Editable : DeleteProduct(p)
               \/ \E u \in Users : AddToCart(u)
               \/ \E u \in Users, S \in SUBSET CartRows : RemoveFromCart(u, S)
               \/ \E o \in Orders : TimeOut(o)
               \/ UNCHANGED vars
  PROVE  IInv'
  <1>1. TypeOK /\ \A p \in Products : stock[p] \in Int /\ supplied[p] \in Int
    BY SizeAssumption DEF IInv, TypeOK
  <1>2. ASSUME NEW p \in Editable, DeleteProduct(p)
        PROVE  IInv'
    <2>1. /\ p \in Products /\ rowLock[p] = None /\ active' = [active EXCEPT ![p] = FALSE]
          /\ UNCHANGED <<stock, price, supplied, status, lines, owner, tracking, slip, timedOut,
                         cart, nextRow, rowLock, orderLock, tx, nextOrder, faults>>
      BY <1>2, EditAssumption DEF DeleteProduct, orderVars, cartVars, lockVars
    <2>2. TypeOK'
      BY <1>1, <2>1 DEF TypeOK
    <2>3. \A q \in Products : rowLock[q] # None => active'[q] = active[q]
      BY <1>1, <2>1 DEF TypeOK
    <2>4. \A q \in Products : stock'[q] - stock[q] = supplied'[q] - supplied[q]
      BY <1>1, <2>1
    <2>5. OnlyNewRows /\ CartsInv'
      BY <1>1, <2>1, SameCarts DEF IInv, cartVars
    <2>6. QED
      BY <2>1, <2>2, <2>3, <2>4, <2>5, OutsideStep
  <1>3. ASSUME NEW u \in Users, AddToCart(u)
        PROVE  IInv'
    <2>1. /\ nextRow <= MaxCartRows /\ nextRow' = nextRow + 1
          /\ cart' = [cart EXCEPT ![u] = @ \cup {nextRow}]
          /\ UNCHANGED <<stock, price, active, supplied, status, lines, owner, tracking, slip,
                         timedOut, rowLock, orderLock, tx, nextOrder, faults>>
      BY <1>3 DEF AddToCart, productVars, orderVars, lockVars
    <2>2. nextRow \in 1 .. MaxCartRows /\ nextRow' \in 1 .. MaxCartRows + 1
      BY <1>1, <2>1, BoundAssumption DEF TypeOK
    <2>3. \A v \in Users : cart'[v] \subseteq cart[v] \cup {nextRow}
      BY <1>1, <2>1 DEF TypeOK
    <2>4. cart' \in [Users -> SUBSET CartRows]
      BY <1>1, <2>1, <2>2 DEF TypeOK, CartRows
    <2>5. TypeOK'
      BY <1>1, <2>1, <2>2, <2>4 DEF TypeOK
    <2>6. OnlyNewRows
      BY <2>1, <2>2, <2>3 DEF OnlyNewRows
    <2>7. CartsInv'
      <3>1. \A v \in Users, c \in CartRows : c \in cart[v] => c < nextRow'
        BY <2>1, <2>2, BoundAssumption DEF IInv, CartsInv, CartRows
      <3>2. QED
        BY <1>1, <2>1, <2>2, <2>3, <3>1 DEF CartsInv, TypeOK
    <2>8. QED
      BY <1>1, <2>1, <2>5, <2>6, <2>7, OutsideStep
  <1>rm. ASSUME NEW u \in Users, NEW S \in SUBSET CartRows, RemoveFromCart(u, S)
         PROVE  IInv'
    <2>1. /\ cart' = [cart EXCEPT ![u] = @ \ S] /\ nextRow' = nextRow
          /\ UNCHANGED <<stock, price, active, supplied, status, lines, owner, tracking, slip,
                         timedOut, rowLock, orderLock, tx, nextOrder, faults>>
      BY <1>rm DEF RemoveFromCart, productVars, orderVars, lockVars
    <2>2. \A v \in Users : cart'[v] \subseteq cart[v]
      BY <1>1, <2>1 DEF TypeOK
    <2>3. TypeOK'
      BY <1>1, <2>1 DEF TypeOK
    <2>4. nextRow \in Int
      BY <1>1, BoundAssumption DEF TypeOK
    <2>5. OnlyNewRows /\ CartsInv'
      BY <2>1, <2>2, <2>4 DEF IInv, OnlyNewRows, CartsInv
    <2>6. QED
      BY <1>1, <2>1, <2>3, <2>5, OutsideStep
  <1>4. ASSUME NEW o \in Orders, TimeOut(o)
        PROVE  IInv'
    <2>1. /\ timedOut' = [timedOut EXCEPT ![o] = TRUE]
          /\ UNCHANGED <<stock, price, active, supplied, status, lines, owner, tracking, slip,
                         cart, nextRow, rowLock, orderLock, tx, nextOrder, faults>>
      BY <1>4 DEF TimeOut, productVars, cartVars, lockVars
    <2>2. TypeOK' /\ \A q \in Orders : timedOut[q] => timedOut'[q]
      BY <1>1, <2>1 DEF TypeOK
    <2>3. OnlyNewRows /\ CartsInv'
      BY <1>1, <2>1, SameCarts DEF IInv, cartVars
    <2>4. QED
      BY <1>1, <2>1, <2>2, <2>3, OutsideStep
  <1>5. CASE UNCHANGED vars
    <2>1. UNCHANGED <<stock, price, active, supplied, status, lines, owner, tracking, slip,
                      timedOut, cart, nextRow, rowLock, orderLock, tx, nextOrder, faults>>
      BY <1>5 DEF vars
    <2>2. TypeOK'
      BY <1>1, <2>1 DEF TypeOK
    <2>3. OnlyNewRows /\ CartsInv'
      BY <1>1, <2>1, SameCarts DEF IInv, cartVars
    <2>4. QED
      BY <1>1, <2>1, <2>2, <2>3, OutsideStep
  <1>6. QED
    BY <1>2, <1>3, <1>rm, <1>4, <1>5

-----------------------------------------------------------------------------
(* The invariant                                                           *)

LEMMA InitInv == ASSUME Init PROVE IInv
  <1>0. stock \in [Products -> 0 .. MaxInt] /\ supplied = stock
    <2>1. stock \in [Products -> StockEdits] /\ supplied = stock
      BY DEF Init
    <2>2. QED
      BY <2>1, EditAssumption
  <1>1. TypeOK
    <2>1. /\ stock \in [Products -> 0 .. MaxInt] /\ supplied \in [Products -> Int]
          /\ price \in [Products -> Prices] /\ active \in [Products -> BOOLEAN]
      BY <1>0, SizeAssumption DEF Init
    <2>2. /\ nextOrder \in 1 .. MaxOrders + 1 /\ faults \in 0 .. MaxFaults
          /\ nextRow \in 1 .. MaxCartRows + 1
      BY BoundAssumption DEF Init
    <2>3. tx \in [Txs -> TxState]
      BY IdleType DEF Init
    <2>4. QED
      BY <2>1, <2>2, <2>3 DEF Init, TypeOK
  <1>2. ASSUME NEW t \in Txs
        PROVE  TxInv(t)
    BY IdleType, NoneIsNoTx DEF Init, TxInv, LocksInv, CreateInv, StatusInv, MoveInv
  <1>3. OrdersInv
    BY SizeAssumption DEF Init, OrdersInv, Distinct
  <1>carts. CartsInv
    BY DEF Init, CartsInv
  <1>4. ShippedIsTracked
    BY DEF Init, ShippedIsTracked
  <1>5. BalanceInv
    <2>1. Live = {}
      BY DEF Init, Live
    <2>2. ASSUME NEW p \in Products
          PROVE  stock[p] + Total(lines, Live, p) = supplied[p] /\ supplied[p] \in Int
      <3>1. UnitsOf(lines, Live, p) = {}
        BY <2>1 DEF UnitsOf
      <3>2. Total(lines, Live, p) = 0
        BY <3>1, FS_EmptySet DEF Total
      <3>3. stock[p] \in Int /\ supplied[p] = stock[p]
        BY <1>0, SizeAssumption
      <3>4. QED
        BY <3>2, <3>3
    <2>3. QED
      BY <2>2 DEF BalanceInv, NoOversell, Conserved, StockConserved
  <1>6. QED
    BY <1>1, <1>2, <1>3, <1>4, <1>5, <1>carts DEF IInv

LEMMA NextInv == ASSUME IInv, [Next]_vars PROVE IInv'
  <1>1. TypeOK /\ faults \in 0 .. MaxFaults
    BY DEF IInv, TypeOK
  <1>2. ASSUME NEW t \in Handlers, NEW u \in Users, NEW r \in Requests, BeginCreate(t, u, r)
        PROVE  IInv'
    BY <1>2, BeginCreateStep
  <1>3. ASSUME NEW t \in Handlers, NEW o \in Orders, NEW next \in AdminTargets,
               NEW newTracking \in BOOLEAN, BeginAdmin(t, o, next, newTracking)
        PROVE  IInv'
    BY <1>3, BeginAdminStep
  <1>4. ASSUME NEW t \in Handlers, NEW u \in Users, NEW o \in Orders, BeginSlip(t, u, o)
        PROVE  IInv'
    BY <1>4, BeginSlipStep
  <1>5. ASSUME NEW t \in Cleaners, NEW S \in SUBSET Orders, BeginStale(t, S)
        PROVE  IInv'
    BY <1>5, BeginStaleStep
  <1>6. ASSUME NEW t \in Txs, Step(t)
        PROVE  IInv'
    <2>1. CASE LockLine(t)
      BY <2>1, LockLineStep
    <2>2. CASE RejectLine(t)
      BY <1>1, <2>2, RollbackStep DEF RejectLine
    <2>3. CASE TakeLine(t)
      BY <2>3, TakeLineStep
    <2>11. CASE ClearCart(t)
      BY <2>11, ClearCartStep
    <2>4. CASE CommitCreate(t)
      BY <2>4, CommitCreateStep
    <2>5. CASE RestoreRow(t)
      BY <2>5, RestoreRowStep
    <2>6. CASE RestoreOverflow(t)
      BY <1>1, <2>6, RollbackStep DEF RestoreOverflow
    <2>7. CASE CommitAdmin(t)
      BY <2>7, CommitAdminStep
    <2>8. CASE CommitSlip(t)
      BY <2>8, CommitSlipStep
    <2>9. CASE CommitStale(t)
      BY <2>9, CommitStaleStep
    <2>10. QED
      BY <1>6, <2>1, <2>2, <2>3, <2>4, <2>5, <2>6, <2>7, <2>8, <2>9, <2>11
      DEF Step, Create, Restore, Commit
  <1>7. ASSUME NEW p \in Editable, NEW s \in 0 .. MaxInt, NEW c \in Prices, NEW a \in BOOLEAN,
               UpdateProduct(p, s, c, a)
        PROVE  IInv'
    BY <1>7, UpdateProductStep
  <1>8. ASSUME NEW t \in Txs, DeadlockVictim(t)
        PROVE  IInv'
    BY <1>1, <1>8, RollbackStep DEF DeadlockVictim
  <1>9. ASSUME NEW t \in Txs, Abort(t)
        PROVE  IInv'
    <2>1. faults' \in 0 .. MaxFaults
      BY <1>1, <1>9, BoundAssumption DEF Abort
    <2>2. QED
      BY <1>9, <2>1, RollbackStep DEF Abort
  <1>10. CASE Quiescent \/ UNCHANGED vars
    BY <1>10, OtherSteps DEF Quiescent
  <1>11. QED
    BY <1>2, <1>3, <1>4, <1>5, <1>6, <1>7, <1>8, <1>9, <1>10, OtherSteps DEF Next

\* The invariant holds in every reachable state, whatever the constants.
THEOREM Invariance == Spec => []IInv
  <1>1. Init => IInv
    BY InitInv
  <1>2. IInv /\ [Next]_vars => IInv'
    BY NextInv
  <1>3. QED
    BY <1>1, <1>2, PTL DEF Spec

\* Every row, lock and transaction record keeps its type; in particular the
\* stock column never leaves 0 .. MaxInt (the CHECK constraint is never hit).
THEOREM TypeCorrect == Spec => []TypeOK
  <1>1. IInv => TypeOK
    BY DEF IInv
  <1>2. QED
    BY <1>1, Invariance, PTL

\* Stock and live orders never exceed what was put on sale.
THEOREM NothingSoldTwice == Spec => []NoOversell
  <1>1. IInv => NoOversell
    BY DEF IInv, BalanceInv
  <1>2. QED
    BY <1>1, Invariance, PTL

\* When no item list repeats a product, nothing is lost either.
THEOREM NothingLost == ASSUME DistinctRequests PROVE Spec => []StockConserved
  <1>1. IInv => StockConserved
    BY DEF IInv, BalanceInv, Conserved
  <1>2. QED
    BY <1>1, Invariance, PTL

\* The UPDATE of create_order always finds the stock its SELECT FOR UPDATE saw.
THEOREM UpdateNeverMisses == Spec => []LockedStockSuffices
  <1>1. IInv => LockedStockSuffices
    <2> SUFFICES ASSUME IInv, NEW t \in Txs, tx[t].pc = "take"
                 PROVE  Head(tx[t].todo).qty <= Available(t, Head(tx[t].todo).product)
      BY DEF LockedStockSuffices
    <2>1. TypeOK /\ TxInv(t)
      BY DEF IInv
    <2>2. tx[t].kind = "create"
      BY <2>1, TxFields DEF TxInv, LocksInv, StatusInv, RestoreInv, TxState
    <2>3. QED
      BY <2>1, <2>2 DEF TxInv, CreateInv, TakeInv
  <1>2. QED
    BY <1>1, Invariance, PTL

\* Exactly the orders sent to the buyer carry a tracking number.
THEOREM TrackedWhenShipped == Spec => []ShippedIsTracked
  <1>1. IInv => ShippedIsTracked
    BY DEF IInv
  <1>2. QED
    BY <1>1, Invariance, PTL

-----------------------------------------------------------------------------
(* What a step may never do                                                *)

\* Only the commit of a transaction moves an order.
LEMMA OnlyCommits ==
  ASSUME [Next]_vars
  PROVE  status' = status \/ \E t \in Txs : CommitCreate(t) \/ Commit(t)
  BY DEF Next, vars, BeginCreate, BeginAdmin, BeginSlip, BeginStale, Step, Create, Restore, Commit,
         LockLine, RejectLine, TakeLine, ClearCart, RestoreRow, RestoreOverflow, Rollback,
         CommitAdmin, CommitSlip, CommitStale, WriteStatus, UpdateProduct, DeleteProduct,
         AddToCart, RemoveFromCart, TimeOut, DeadlockVictim, Abort, Quiescent, orderVars

\* A checkout commits a new order of the rows it still holds, and clears what
\* was in the cart of the buyer.
LEMMA CheckoutEffect ==
  ASSUME IInv, NEW t \in Txs, CommitCreate(t)
  PROVE  \E o \in Orders :
           /\ ~Exists(o) /\ status' = [status EXCEPT ![o] = "PENDING"]
           /\ orderLock[o] = t /\ tx[t].batch = {o}
           /\ cart'[owner'[o]] \cap tx[t].basket = {}
           /\ \A i \in DOMAIN lines'[o] :
                /\ lines'[o][i].price = price[lines'[o][i].product]
                /\ active[lines'[o][i].product]
  <1>1. TypeOK /\ TxInv(t) /\ tx[t].kind = "create" /\ tx[t].pc = "write"
    BY DEF IInv, CommitCreate
  <1>2. CreateShape(t) /\ DoneInv(t) /\ CartInv(t)
    BY <1>1 DEF TxInv, CreateInv
  <1>3. PICK o \in Orders : tx[t].batch = {o} /\ status[o] = "NONE"
    BY <1>2 DEF CreateShape
  <1>4. /\ status' = [status EXCEPT ![o] = "PENDING"]
        /\ lines'[o] = tx[t].done /\ owner'[o] = tx[t].user
        /\ cart' = [cart EXCEPT ![tx[t].user] = @ \ tx[t].cleared]
    BY <1>1, <1>3 DEF CommitCreate, TypeOK
  <1>5. \A i \in DOMAIN lines'[o] : /\ lines'[o][i].price = price[lines'[o][i].product]
                                   /\ active[lines'[o][i].product]
    BY <1>2, <1>4 DEF DoneInv
  <1>6. ~Exists(o) /\ tx[t].user \in Users /\ orderLock[o] = t
    BY <1>1, <1>2, <1>3 DEF CreateShape, Exists, TxInv, LocksInv
  <1>7. cart'[owner'[o]] = cart[tx[t].user] \ tx[t].cleared
    BY <1>1, <1>4, <1>6 DEF TypeOK
  <1>8. cart'[owner'[o]] \cap tx[t].basket = {}
    BY <1>1, <1>2, <1>7 DEF CartInv
  <1>9. QED
    BY <1>3, <1>4, <1>5, <1>6, <1>8

\* A status change commits the move that was checked, of the orders it holds.
LEMMA MoveEffect ==
  ASSUME IInv, NEW t \in Txs, Commit(t), NEW o \in Orders, status'[o] # status[o]
  PROVE  /\ o \in tx[t].batch /\ orderLock[o] = t /\ Exists(o)
         /\ <<status[o], status'[o]>> \in DocumentedMoves
         /\ tx[t].kind = "stale" => Stale(o)
  <1>1. TypeOK /\ TxInv(t) /\ tx[t].kind \in {"admin", "slip", "stale"} /\ WriteStatus(t)
    BY DEF IInv, Commit, CommitAdmin, CommitSlip, CommitStale
  <1>2. o \in tx[t].batch /\ status'[o] = tx[t].target
    BY <1>1 DEF WriteStatus
  <1>3. Exists(o)
    BY <1>1, <1>2 DEF TxInv, StatusInv, RestorePlan, Plan, Live, Exists, LocksInv, MoveInv,
                      Moves, DocumentedMoves, RestoreInv
  <1>4. QED
    BY <1>1, <1>2, <1>3 DEF TxInv, LocksInv, MoveInv, Moves

\* A checkout reads prices and products on sale and empties the cart in the
\* one step in which its order appears.
THEOREM AtomicCheckout == Spec => CheckoutIsAtomic
  <1>1. ASSUME IInv, [Next]_vars, NEW o \in Orders, ~Exists(o), status'[o] # "NONE"
        PROVE  /\ \A i \in DOMAIN lines'[o] :
                    /\ lines'[o][i].price = price[lines'[o][i].product]
                    /\ active[lines'[o][i].product]
               /\ \A t \in Txs : o \in tx[t].batch =>
                    cart'[owner'[o]] \cap tx[t].basket = {}
    <2>1. status'[o] # status[o] /\ TypeOK
      BY <1>1 DEF Exists, IInv
    <2>2. PICK t \in Txs : CommitCreate(t)
      BY <1>1, <2>1, OnlyCommits, MoveEffect
    <2>3. PICK q \in Orders :
             /\ ~Exists(q) /\ status' = [status EXCEPT ![q] = "PENDING"]
             /\ orderLock[q] = t /\ tx[t].batch = {q}
             /\ cart'[owner'[q]] \cap tx[t].basket = {}
             /\ \A i \in DOMAIN lines'[q] :
                  /\ lines'[q][i].price = price[lines'[q][i].product]
                  /\ active[lines'[q][i].product]
      BY <1>1, <2>2, CheckoutEffect
    <2>4. q = o
      BY <2>1, <2>3 DEF TypeOK
    <2>5. \A s \in Txs : o \in tx[s].batch => s = t
      BY <1>1, <2>3, <2>4 DEF IInv, TxInv, LocksInv
    <2>6. QED
      BY <2>3, <2>4, <2>5
  <1>2. IInv /\ [Next]_vars =>
          [\A o \in Orders :
             ~Exists(o) /\ status'[o] # "NONE" =>
               /\ \A i \in DOMAIN lines'[o] :
                    /\ lines'[o][i].price = price[lines'[o][i].product]
                    /\ active[lines'[o][i].product]
               /\ \A t \in Txs : o \in tx[t].batch =>
                    cart'[owner'[o]] \cap tx[t].basket = {}]_vars
    BY <1>1
  <1>3. QED
    BY <1>2, Invariance, PTL DEF Spec, CheckoutIsAtomic

\* Orders move along the documented status table only.
THEOREM MovesAreDocumented == Spec => OnlyDocumentedMoves
  <1>1. ASSUME IInv, [Next]_vars, NEW o \in Orders, status'[o] # status[o]
        PROVE  <<status[o], status'[o]>> \in DocumentedMoves
    <2>1. ASSUME NEW t \in Txs, CommitCreate(t)
          PROVE  <<status[o], status'[o]>> \in DocumentedMoves
      <3>1. PICK q \in Orders : ~Exists(q) /\ status' = [status EXCEPT ![q] = "PENDING"]
        BY <1>1, <2>1, CheckoutEffect
      <3>2. q = o /\ status[o] = "NONE" /\ status'[o] = "PENDING"
        BY <1>1, <3>1 DEF IInv, TypeOK, Exists
      <3>3. QED
        BY <3>2 DEF DocumentedMoves
    <2>2. QED
      BY <1>1, <2>1, OnlyCommits, MoveEffect
  <1>2. IInv /\ [Next]_vars =>
          [\A o \in Orders : \/ status'[o] = status[o]
                             \/ <<status[o], status'[o]>> \in DocumentedMoves]_vars
    BY <1>1
  <1>3. QED
    BY <1>2, Invariance, PTL DEF Spec, OnlyDocumentedMoves

\* The worker cancels only orders that are over their timeout when it commits.
THEOREM StaleWhenCancelled == Spec => AutoCancelOnlyStale
  <1>1. ASSUME IInv, [Next]_vars, NEW t \in Cleaners, NEW o \in Orders,
               tx[t].kind = "stale", o \in tx[t].batch,
               status[o] # "CANCELLED", status'[o] = "CANCELLED"
        PROVE  Stale(o)
    <2>1. TypeOK /\ t \in Txs /\ TxInv(t)
      BY <1>1 DEF IInv, Txs
    <2>2. Stale(o)
      BY <1>1, <2>1 DEF TxInv, MoveInv, Moves
    <2>3. QED
      BY <2>2
  <1>2. IInv /\ [Next]_vars =>
          [\A t \in Cleaners, o \in Orders :
             /\ tx[t].kind = "stale" /\ o \in tx[t].batch
             /\ status[o] # "CANCELLED" /\ status'[o] = "CANCELLED"
             => Stale(o)]_vars
    BY <1>1
  <1>3. QED
    BY <1>2, Invariance, PTL DEF Spec, AutoCancelOnlyStale
=============================================================================
