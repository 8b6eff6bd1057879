---------------------------- MODULE OrderStockInv ----------------------------
(***************************************************************************)
(* The inductive invariant behind the theorems of OrderStock_proofs: what  *)
(* a transaction under way may rely on because of the locks it holds.      *)
(***************************************************************************)
EXTENDS OrderStock

\* No item list names a product twice (nothing in create_order checks it).
Distinct(s) == \A i, j \in DOMAIN s : s[i].product = s[j].product => i = j
DistinctRequests == \A r \in Requests : Distinct(r)

\* An idle transaction holds nothing; batch is the set of order rows held.
LocksInv(t) ==
  /\ tx[t].pc = "idle" <=> tx[t].kind = "none"
  /\ tx[t].pc = "idle" => tx[t] = Idle /\ \A p \in Products : rowLock[p] # t
  /\ \A o \in Orders : o \in tx[t].batch <=> orderLock[o] = t

\* A create_order transaction has its new order row, its buyer and the lines
\* of the request that are still to process.
CreateShape(t) ==
  LET todo == tx[t].todo
  IN /\ tx[t].pc \in {"lock", "take", "clear", "write"}
     /\ tx[t].user \in Users
     /\ \E o \in Orders : tx[t].batch = {o} /\ status[o] = "NONE" /\ o < nextOrder
     /\ Len(tx[t].done) + Len(todo) <= MaxLines
     /\ tx[t].pc \in {"lock", "take"} => todo # <<>>
     /\ \A i \in DOMAIN todo : todo[i].qty <= MaxInt

\* It holds the row it is about to take from, with what it read there ...
TakeInv(t) ==
  LET l == Head(tx[t].todo)
  IN tx[t].pc = "take" =>
     /\ rowLock[l.product] = t
     /\ l.qty > 0 /\ l.qty <= Available(t, l.product)
     /\ tx[t].price = price[l.product]
     /\ active[l.product]

\* ... and the row of every product it has taken.
DoneInv(t) ==
  LET done == tx[t].done
  IN /\ \A i \in DOMAIN done :
          /\ rowLock[done[i].product] = t
          /\ done[i].price = price[done[i].product]
          /\ active[done[i].product]
     /\ \A p \in Products : Qty(done, p) <= stock[p]

\* A list without repeated products gives an order without repeated products.
DistinctInv(t) ==
  LET todo == tx[t].todo
      done == tx[t].done
  IN DistinctRequests =>
     /\ Distinct(todo) /\ Distinct(done)
     /\ \A i \in DOMAIN todo, j \in DOMAIN done : todo[i].product # done[j].product

\* What is left in the cart of what was there at the beginning will be deleted.
CartInv(t) ==
  /\ \A c \in tx[t].basket : c < nextRow
  /\ tx[t].pc = "write" => tx[t].basket \cap cart[tx[t].user] \subseteq tx[t].cleared

CreateInv(t) ==
  tx[t].kind = "create" =>
    CreateShape(t) /\ TakeInv(t) /\ DoneInv(t) /\ DistinctInv(t) /\ CartInv(t)

\* What a status transaction (its record r) will add to stock is what its
\* orders hold, or less when an admin cancels an order with repeated products.
Plan(r) ==
  \/ r.target # "CANCELLED" /\ r.batch \subseteq Live /\ r.amount = NoAmount
  \/ r.target = "CANCELLED" /\ r.batch \cap Live = {} /\ r.amount = NoAmount
  \/ /\ r.target = "CANCELLED" /\ r.batch \subseteq Live
     /\ \A p \in Products :
          /\ r.amount[p] <= Total(lines, r.batch, p)
          /\ DistinctRequests => r.amount[p] = Total(lines, r.batch, p)

RestorePlan(t) == Plan(tx[t])

\* It holds the rows it has updated, and their new value fits the column.
RestoreInv(t) ==
  LET amount == tx[t].amount
  IN /\ tx[t].pc \in {"lock", "write"}
     /\ tx[t].target \in Statuses
     /\ tx[t].pc = "lock" => tx[t].want \in RowsOf(amount) /\ rowLock[tx[t].want] # t
     /\ tx[t].pc = "write" => \A p \in RowsOf(amount) : rowLock[p] = t
     /\ \A p \in Products : rowLock[p] = t => stock[p] + amount[p] <= MaxInt

StatusInv(t) ==
  tx[t].kind \in {"admin", "slip", "stale"} => RestoreInv(t) /\ RestorePlan(t)

\* The check it made of its orders still holds.
Moves(r) ==
  LET sent == {"SHIPPED", "DELIVERED"}
  IN \A o \in r.batch :
       /\ status[o] = r.target \/ <<status[o], r.target>> \in DocumentedMoves
       /\ r.kind = "stale" => Stale(o)
       /\ r.kind = "admin" => (r.tracked <=> r.target \in sent)
       /\ r.kind # "admin" => r.target \notin sent /\ status[o] \notin sent

MoveInv(t) == tx[t].kind \in {"admin", "slip", "stale"} => Moves(tx[t])

TxInv(t) == LocksInv(t) /\ CreateInv(t) /\ StatusInv(t) /\ MoveInv(t)

CartsInv == \A u \in Users : \A c \in cart[u] : c < nextRow

OrdersInv ==
  /\ \A o \in Orders : o >= nextOrder => status[o] = "NONE" /\ orderLock[o] = None
  /\ \A o \in Orders : Len(lines[o]) <= MaxLines
  /\ DistinctRequests => \A o \in Orders : Distinct(lines[o])

Conserved == DistinctRequests => StockConserved

\* What is in stock and in live orders accounts for what was put on sale.
BalanceInv == NoOversell /\ Conserved

IInv ==
  /\ TypeOK
  /\ \A t \in Txs : TxInv(t)
  /\ OrdersInv
  /\ CartsInv
  /\ ShippedIsTracked
  /\ BalanceInv
=============================================================================
