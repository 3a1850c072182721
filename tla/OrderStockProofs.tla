--------------------------- MODULE OrderStockProofs ---------------------------
(***************************************************************************)
(* What OrderService does to the stock: for every instance no unit is sold *)
(* twice, and when clients write order ids as the server does no unit is   *)
(* lost.  The argument follows a transaction from its first statement to   *)
(* its commit: what it has taken from or given back to each product is     *)
(* what the order it is about to write says.                               *)
(***************************************************************************)
EXTENDS OrderServiceProofs

USE DEF InTx, InCallback

(* Outside a transaction a request has done nothing; each operation has its own steps; a create
   is about the order named after it. *)
Stage(r) ==
    /\ pc[r] \in {"idle", "begin", "done", "find"} => delta[r] = NoItems /\ draft[r] = NoOrder
    /\ pc[r] \in {"read", "decrement", "insert"} => req[r].op = "create"
    /\ pc[r] \in {"find", "update"} => req[r].op # "create"
    /\ pc[r] = "restore" => req[r].op = "cancel"
    /\ pc[r] \in {"insert", "update", "commit"} => todo[r] = {}
    /\ req[r].op = "create" => req[r].order = r

(* What a create has taken is what its draft says, product by product. *)
Building(r) ==
    /\ todo[r] \subseteq Refs(req[r].lines)
    /\ \A p \in Products :
          /\ draft[r].quantity[p] \in Int4
          /\ draft[r].quantity[p] # 0 =>
                \E ref \in Refs(req[r].lines) :
                    draft[r].quantity[p] = MergedQuantity(req[r].lines, ref)
          /\ ~SameProductTwice(req[r].lines) =>
                /\ delta[r][p] = -draft[r].quantity[p]
                /\ (\E ref \in todo[r] : ProductOf[ref] = p) => draft[r].quantity[p] = 0

(* A create that has passed NewOrder and the primary key of order_items. *)
Built(r) ==
    /\ ~SameProductTwice(req[r].lines)
    /\ PositiveQuantities(req[r].lines)
    /\ draft[r].status = "PENDING"

(* A confirmation or cancellation holds its order, still pending and unchanged; a cancellation
   has given back the items it read, except those still to do. *)
Settling(r) ==
    LET o == req[r].order IN
    /\ orderLock[o] = r
    /\ orders[o].status = "PENDING"
    /\ draft[r].status = IF req[r].op = "confirm" THEN "CONFIRMED" ELSE "CANCELLED"
    /\ draft[r].quantity = ItemsRead(orders[o].quantity, req[r].spelling)
    /\ \A p \in Products :
          delta[r][p] = IF req[r].op = "cancel" /\ p \notin todo[r]
                        THEN draft[r].quantity[p] ELSE 0

Work(r) ==
    /\ Stage(r)
    /\ req[r].op = "create" /\ pc[r] \in {"begin", "read", "decrement", "insert", "commit"} =>
          Building(r)
    /\ req[r].op = "create" /\ pc[r] = "commit" => Built(r)
    /\ req[r].op # "create" /\ pc[r] \in {"restore", "update", "commit"} => Settling(r)

(* An order in the database: the request that created it is over, and its quantities fit. *)
Row(o) ==
    /\ orders[o].status # "NONE" => pc[o] = "done"
    /\ \A p \in Products : orders[o].quantity[p] \in 0..Int4Max

WorkInv == \A r \in Requests : Work(r)
RowInv == \A o \in Requests : Row(o)

StockInv == Inv /\ WorkInv /\ RowInv

-----------------------------------------------------------------------------
(* Requests do not disturb one another's work. *)

SameWork(s) ==
    /\ pc'[s] = pc[s] /\ req'[s] = req[s]
    /\ todo'[s] = todo[s] /\ delta'[s] = delta[s] /\ draft'[s] = draft[s]

LEMMA WorkKept ==
    ASSUME StockInv, NEW s \in Requests, SameWork(s),
           \A o \in Requests : orderLock[o] = s /\ orders[o].status = "PENDING" =>
               /\ orderLock'[o] = s
               /\ orders'[o].status = "PENDING"
               /\ orders'[o].quantity = orders[o].quantity
    PROVE  Work(s)'
<1>1. Work(s)
  BY DEF StockInv, WorkInv
<1>2. Stage(s)'
  BY <1>1 DEF Work, Stage, SameWork
<1>3. Building(s) => Building(s)'
  BY DEF Building, SameWork
<1>4. Built(s) => Built(s)'
  BY DEF Built, SameWork
<1>5. ASSUME pc[s] # "idle", Settling(s) PROVE Settling(s)'
  <2>1. req[s].order \in Requests
    BY <1>5 DEF StockInv, Inv, RequestInv, Input
  <2> QED
    BY <1>5, <2>1 DEF Settling, SameWork
<1> QED
  BY <1>1, <1>2, <1>3, <1>4, <1>5 DEF Work, SameWork

(* A step of r that commits nothing. *)
LEMMA OneRequestSteps ==
    ASSUME StockInv, NEW r \in Requests, pc[r] # "done", orders' = orders,
           \A s \in Requests : s # r => SameWork(s),
           \A o \in Requests, s \in Requests : s # r /\ orderLock[o] = s => orderLock'[o] = s,
           Work(r)'
    PROVE  WorkInv' /\ RowInv'
<1>1. ASSUME NEW s \in Requests, s # r PROVE Work(s)'
  BY <1>1, WorkKept
<1>2. ASSUME NEW o \in Requests PROVE Row(o)'
  BY DEF StockInv, RowInv, Row, SameWork
<1> QED
  BY <1>1, <1>2 DEF WorkInv, RowInv

LEMMA AbortWork ==
    ASSUME StockInv, NEW r \in Requests, NEW code, pc[r] \in InTx, Abort(r, code),
           \A o \in Requests, s \in Requests : s # r /\ orderLock[o] = s => orderLock'[o] = s
    PROVE  WorkInv' /\ RowInv'
<1>1. \A s \in Requests : s # r => SameWork(s)
  BY DEF Abort, Goto, work, SameWork, StockInv, Inv, TypeOK
<1>2. Work(r)'
  <2>1. /\ pc'[r] = "rollback" /\ req' = req
    BY DEF Abort, Goto, StockInv, Inv, TypeOK
  <2>2. Work(r)
    BY DEF StockInv, WorkInv
  <2> QED
    BY <2>1, <2>2 DEF Work, Stage
<1>3. orders' = orders /\ pc[r] # "done"
  BY DEF Abort, db
<1> QED
  BY <1>1, <1>2, <1>3, OneRequestSteps

(* The lock of an order that r takes was nobody's. *)
LEMMA TakeOrderKeeps ==
    ASSUME StockInv, NEW r \in Requests, NEW x, TakeOrder(r, x)
    PROVE  \A o \in Requests, s \in Requests : s # r /\ orderLock[o] = s => orderLock'[o] = s
BY ConstantFacts DEF TakeOrder, Free, StockInv, Inv, TypeOK

-----------------------------------------------------------------------------
(* Steps outside the transaction *)

LEMMA ReceiveCreateWork ==
    ASSUME StockInv, NEW r \in Requests, ReceiveCreate(r) PROVE WorkInv' /\ RowInv'
<1> USE DEF ReceiveCreate, Goto, db, locks
<1>1. \A s \in Requests : s # r => SameWork(s)
  BY DEF SameWork, StockInv, Inv, TypeOK
<1>2. orders' = orders /\ orderLock' = orderLock /\ pc[r] = "idle"
  OBVIOUS
<1>3. Work(r)'
  <2>1. Work(r)
    BY DEF StockInv, WorkInv
  <2>2. delta'[r] = NoItems /\ draft'[r] = NoOrder
    BY <1>2, <2>1 DEF Work, Stage
  <2>3. /\ req'[r].op = "create" /\ req'[r].order = r
        /\ \/ pc'[r] = "done"
           \/ pc'[r] = "begin" /\ todo'[r] = Refs(req'[r].lines)
    BY DEF StockInv, Inv, TypeOK
  <2>4. Stage(r)'
    BY <2>2, <2>3 DEF Stage
  <2>5. pc'[r] = "begin" => Building(r)'
    <3> SUFFICES ASSUME pc'[r] = "begin" PROVE Building(r)'
      OBVIOUS
    <3>1. draft'[r].quantity = NoItems
      BY <2>2 DEF NoOrder
    <3>2. \A p \in Products : draft'[r].quantity[p] = 0 /\ delta'[r][p] = 0
      BY <2>2, <3>1, ConstantFacts
    <3>3. 0 \in Int4
      BY ConstantFacts DEF Int4
    <3> QED
      BY <2>3, <3>2, <3>3 DEF Building
  <2> QED
    BY <2>3, <2>4, <2>5 DEF Work
<1> QED
  BY <1>1, <1>2, <1>3, OneRequestSteps

LEMMA ReceiveTransitionWork ==
    ASSUME StockInv, NEW r \in Requests, ReceiveTransition(r) PROVE WorkInv' /\ RowInv'
<1> USE DEF ReceiveTransition, Goto, db, locks, work
<1>1. \A s \in Requests : s # r => SameWork(s)
  BY DEF SameWork, StockInv, Inv, TypeOK
<1>2. orders' = orders /\ orderLock' = orderLock /\ pc[r] = "idle"
  OBVIOUS
<1>3. Work(r)'
  <2>1. Work(r)
    BY DEF StockInv, WorkInv
  <2>2. pc'[r] = "begin" /\ req'[r].op # "create"
    BY DEF StockInv, Inv, TypeOK
  <2> QED
    BY <1>2, <2>1, <2>2 DEF Work, Stage
<1> QED
  BY <1>1, <1>2, <1>3, OneRequestSteps

LEMMA BeginWork ==
    ASSUME StockInv, NEW r \in Requests, Begin(r) \/ BeginFails(r) PROVE WorkInv' /\ RowInv'
<1> USE DEF Begin, BeginFails, Goto, db, locks, work
<1>1. \A s \in Requests : s # r => SameWork(s)
  BY DEF SameWork, StockInv, Inv, TypeOK
<1>2. orders' = orders /\ orderLock' = orderLock /\ pc[r] = "begin"
  OBVIOUS
<1>3. Work(r)'
  <2>1. Work(r)
    BY DEF StockInv, WorkInv
  <2>2. CASE BeginFails(r)
    BY <1>2, <2>1, <2>2 DEF Work, Stage, StockInv, Inv, TypeOK
  <2>3. CASE Begin(r)
    <3>1. /\ pc'[r] = IF req[r].op = "create" THEN "read" ELSE "find"
          /\ UNCHANGED <<req, todo, delta, draft>>
      BY <2>3 DEF StockInv, Inv, TypeOK
    <3>2. req[r].op = "create" => Building(r)'
      BY <1>2, <2>1, <3>1 DEF Work, Building
    <3> QED
      BY <1>2, <2>1, <3>1, <3>2 DEF Work, Stage
  <2> QED
    BY <2>2, <2>3
<1> QED
  BY <1>1, <1>2, <1>3, OneRequestSteps

-----------------------------------------------------------------------------
(* createOrder *)

LEMMA GetProductWork ==
    ASSUME StockInv, NEW r \in Requests, GetProduct(r) PROVE WorkInv' /\ RowInv'
<1>1. CASE Abort(r, "PRODUCT_NOT_FOUND") /\ UNCHANGED locks
  BY <1>1, AbortWork DEF GetProduct, locks
<1>2. CASE \E p \in Products : /\ draft' = [draft EXCEPT ![r].unitPrice[p] = price[p]]
                              /\ Goto(r, "decrement")
                              /\ UNCHANGED <<db, orderLock, pool, req, todo, delta, reply>>
  <2>1. \A s \in Requests : s # r => SameWork(s)
    BY <1>2 DEF Goto, SameWork, StockInv, Inv, TypeOK
  <2>2. /\ pc[r] = "read" /\ pc'[r] = "decrement" /\ orders' = orders
        /\ UNCHANGED <<orderLock, req, todo, delta>>
    BY <1>2 DEF GetProduct, Goto, db, StockInv, Inv, TypeOK
  <2>3. draft'[r].quantity = draft[r].quantity
    BY <1>2 DEF StockInv, Inv, TypeOK, Order
  <2>4. Work(r)
    BY DEF StockInv, WorkInv
  <2>5. Building(r)'
    BY <2>2, <2>3, <2>4 DEF Work, Stage, Building
  <2>6. Work(r)'
    BY <2>2, <2>4, <2>5 DEF Work, Stage
  <2> QED
    BY <2>1, <2>2, <2>6, OneRequestSteps
<1>3. \A ref \in todo[r] : ProductOf[ref] # None => ProductOf[ref] \in Products
  BY ConstantsAssumption DEF StockInv, Inv, TypeOK
<1> QED
  BY <1>1, <1>2, <1>3 DEF GetProduct, UnitPrice

LEMMA DecrementStockWork ==
    ASSUME StockInv, NEW r \in Requests, DecrementStock(r) PROVE WorkInv' /\ RowInv'
<1>0. /\ pc[r] = "decrement" /\ orderLock' = orderLock
  BY DEF DecrementStock
<1>1. CASE Abort(r, "INSUFFICIENT_STOCK") \/ Abort(r, "INTERNAL_ERROR")
  BY <1>0, <1>1, AbortWork
<1>2. ASSUME NEW ref \in todo[r], First(ref, todo[r]),
             MergedQuantity(req[r].lines, ref) \in Int4,
             delta' = [delta EXCEPT ![r][ProductOf[ref]] =
                          @ - MergedQuantity(req[r].lines, ref)],
             draft' = [draft EXCEPT ![r].quantity[ProductOf[ref]] =
                          MergedQuantity(req[r].lines, ref)],
             todo' = [todo EXCEPT ![r] = @ \ {ref}],
             Goto(r, IF todo[r] = {ref} THEN "insert" ELSE "read"),
             UNCHANGED <<db, pool, req, reply>>
      PROVE  WorkInv' /\ RowInv'
  <2> DEFINE p == ProductOf[ref]
             q == MergedQuantity(req[r].lines, ref)
  <2>1. p \in Products
    BY <1>0, <1>2 DEF StockInv, Inv, RequestInv
  <2>2. q \in Int4 /\ q \in Int
    BY <1>2, ConstantFacts DEF Int4
  <2> HIDE DEF p
  <2>3. \A s \in Requests : s # r => SameWork(s)
    BY <1>2 DEF Goto, SameWork, StockInv, Inv, TypeOK
  <2>4. Work(r) /\ Building(r) /\ req[r].op = "create"
    BY <1>0 DEF StockInv, WorkInv, Work, Stage
  <2>5. /\ orders' = orders /\ req' = req
        /\ todo'[r] = todo[r] \ {ref}
        /\ pc'[r] = IF todo'[r] = {} THEN "insert" ELSE "read"
    BY <1>2 DEF Goto, db, StockInv, Inv, TypeOK
  <2>6. /\ draft'[r].quantity[p] = q
        /\ delta'[r][p] = delta[r][p] - q
        /\ \A x \in Products : x # p =>
              draft'[r].quantity[x] = draft[r].quantity[x] /\ delta'[r][x] = delta[r][x]
    <3>1. draft[r] \in Order /\ delta[r] \in [Products -> Int]
      BY DEF StockInv, Inv, TypeOK
    <3>2. draft'[r] = [draft[r] EXCEPT !.quantity[p] = q]
      BY <1>2 DEF p, StockInv, Inv, TypeOK
    <3>3. delta'[r] = [delta[r] EXCEPT ![p] = @ - q]
      BY <1>2 DEF p, StockInv, Inv, TypeOK
    <3> HIDE DEF q
    <3> QED
      BY <2>1, <3>1, <3>2, <3>3 DEF Order
  <2>7. Building(r)'
    <3>1. todo'[r] \subseteq Refs(req'[r].lines)
      BY <2>4, <2>5 DEF Building
    <3>2. ASSUME NEW x \in Products
          PROVE  /\ draft'[r].quantity[x] \in Int4
                 /\ draft'[r].quantity[x] # 0 =>
                       \E a \in Refs(req'[r].lines) :
                           draft'[r].quantity[x] = MergedQuantity(req'[r].lines, a)
      <4>1. CASE x = p
        BY <4>1, <2>2, <2>4, <2>5, <2>6 DEF Building
      <4>2. CASE x # p
        BY <4>2, <2>4, <2>5, <2>6 DEF Building
      <4> QED
        BY <4>1, <4>2
    <3>3. ASSUME NEW x \in Products, ~SameProductTwice(req[r].lines)
          PROVE  /\ delta'[r][x] = -draft'[r].quantity[x]
                 /\ (\E a \in todo'[r] : ProductOf[a] = x) => draft'[r].quantity[x] = 0
      <4>1. /\ delta[r][x] = -draft[r].quantity[x]
            /\ (\E a \in todo[r] : ProductOf[a] = x) => draft[r].quantity[x] = 0
        BY <2>4, <3>3 DEF Building
      <4>2. CASE x = p
        <5>1. delta[r][p] = 0
          BY <1>2, <4>1, <4>2 DEF p
        <5>2. ~ \E a \in todo'[r] : ProductOf[a] = p
          BY <2>4, <2>5, <3>3, <1>2 DEF Building, SameProductTwice, p
        <5> HIDE DEF q
        <5> QED
          BY <2>2, <2>6, <4>2, <5>1, <5>2
      <4>3. CASE x # p
        BY <2>5, <2>6, <4>1, <4>3
      <4> QED
        BY <4>2, <4>3
    <3> QED
      BY <2>5, <3>1, <3>2, <3>3 DEF Building
  <2>8. Work(r)'
    BY <1>0, <2>4, <2>5, <2>7 DEF Work, Stage
  <2> QED
    BY <1>0, <2>3, <2>5, <2>8, OneRequestSteps
<1> QED
  BY <1>1, <1>2 DEF DecrementStock

LEMMA InsertOrderWork ==
    ASSUME StockInv, NEW r \in Requests, InsertOrder(r) PROVE WorkInv' /\ RowInv'
<1>0. pc[r] = "insert" /\ UNCHANGED locks
  BY DEF InsertOrder
<1>1. CASE Abort(r, "INVALID_QUANTITY") \/ Abort(r, "INTERNAL_ERROR")
  BY <1>0, <1>1, AbortWork DEF locks
<1>2. CASE /\ PositiveQuantities(req[r].lines)
           /\ ~SameProductTwice(req[r].lines)
           /\ draft' = [draft EXCEPT ![r].status = "PENDING", ![r].user = req[r].user]
           /\ Goto(r, "commit")
           /\ UNCHANGED <<db, pool, req, todo, delta, reply>>
  <2>1. \A s \in Requests : s # r => SameWork(s)
    BY <1>2 DEF Goto, SameWork, StockInv, Inv, TypeOK
  <2>2. /\ pc'[r] = "commit" /\ orders' = orders /\ orderLock' = orderLock
        /\ UNCHANGED <<req, todo, delta>>
    BY <1>0, <1>2 DEF Goto, db, locks, StockInv, Inv, TypeOK
  <2>3. draft'[r].quantity = draft[r].quantity /\ draft'[r].status = "PENDING"
    BY <1>2 DEF StockInv, Inv, TypeOK, Order
  <2>4. Work(r)
    BY DEF StockInv, WorkInv
  <2>5. Building(r)' /\ Built(r)'
    BY <1>0, <1>2, <2>2, <2>3, <2>4 DEF Work, Stage, Building, Built
  <2>6. Work(r)'
    BY <1>0, <2>2, <2>4, <2>5 DEF Work, Stage
  <2> QED
    BY <1>0, <2>1, <2>2, <2>6, OneRequestSteps
<1> QED
  BY <1>1, <1>2 DEF InsertOrder, Storable

-----------------------------------------------------------------------------
(* confirmOrder and cancelOrder *)

LEMMA GetOrderWork ==
    ASSUME StockInv, NEW r \in Requests, GetOrder(r) PROVE WorkInv' /\ RowInv'
<1> DEFINE o == req[r].order
           found == [orders[o] EXCEPT !.quantity = ItemsRead(@, req[r].spelling),
                                      !.unitPrice = ItemsRead(@, req[r].spelling)]
           lines == IF req[r].op = "cancel" THEN {p \in Products : found.quantity[p] > 0}
                    ELSE {}
<1>0. pc[r] = "find"
  BY DEF GetOrder
<1>1. req[r] \in Input /\ o \in Requests
  BY <1>0 DEF StockInv, Inv, RequestInv, Input
<1>2. CASE Abort(r, "ORDER_NOT_FOUND") /\ UNCHANGED locks
  BY <1>0, <1>2, AbortWork DEF locks
<1>3. CASE /\ TakeOrder(r, o)
           /\ Abort(r, "ORDER_NOT_OWNED") \/ Abort(r, "ORDER_NOT_PENDING")
  BY <1>0, <1>3, TakeOrderKeeps, AbortWork
<1>4. CASE /\ TakeOrder(r, o)
           /\ IsPending(found)
           /\ draft' = [draft EXCEPT ![r] = Settled(found, req[r].op)]
           /\ todo' = [todo EXCEPT ![r] = lines]
           /\ Goto(r, IF lines = {} THEN "update" ELSE "restore")
           /\ UNCHANGED <<db, pool, req, delta, reply>>
  <2>1. orders[o] \in Order /\ found \in Order
    BY <1>1, ItemsReadFacts DEF StockInv, Inv, TypeOK
  <2>2. /\ found.quantity = ItemsRead(orders[o].quantity, req[r].spelling)
        /\ found.status = orders[o].status
    BY <2>1 DEF Order
  <2>3. /\ draft'[r].quantity = found.quantity
        /\ draft'[r].status = IF req[r].op = "confirm" THEN "CONFIRMED" ELSE "CANCELLED"
    BY <1>4, <2>1 DEF Settled, Order, StockInv, Inv, TypeOK
  <2>4. \A p \in Products : p \in lines <=> req[r].op = "cancel" /\ found.quantity[p] > 0
    OBVIOUS
  <2>5. \A p \in Products : found.quantity[p] \in Nat
    <3>1. \A p \in Products : orders[o].quantity[p] \in Nat
      BY <1>1, ConstantFacts DEF StockInv, RowInv, Row
    <3> QED
      BY <2>2, <3>1, ConstantFacts DEF ItemsRead
  <2> HIDE DEF found, lines
  <2>6. \A s \in Requests : s # r => SameWork(s)
    BY <1>4 DEF Goto, SameWork, StockInv, Inv, TypeOK
  <2>7. /\ orders' = orders /\ req' = req /\ delta' = delta
        /\ orderLock'[o] = r /\ todo'[r] = lines
        /\ pc'[r] = IF lines = {} THEN "update" ELSE "restore"
    BY <1>1, <1>4 DEF Goto, TakeOrder, db, StockInv, Inv, TypeOK
  <2>8. Work(r) /\ req[r].op # "create" /\ delta[r] = NoItems
    BY <1>0 DEF StockInv, WorkInv, Work, Stage
  <2>9. Settling(r)'
    <3>1. \A p \in Products :
            delta'[r][p] = IF req[r].op = "cancel" /\ p \notin lines
                           THEN draft'[r].quantity[p] ELSE 0
      BY <2>3, <2>4, <2>5, <2>7, <2>8, ConstantFacts
    <3>2. orders[o].status = "PENDING"
      BY <1>4, <2>2 DEF IsPending
    <3> QED
      BY <2>2, <2>3, <2>7, <3>1, <3>2 DEF Settling
  <2>10. Work(r)'
    <3>1. lines # {} => req[r].op = "cancel"
      BY DEF lines
    <3> QED
      BY <2>7, <2>8, <2>9, <3>1 DEF Work, Stage
  <2> QED
    BY <1>0, <1>4, <2>6, <2>7, <2>10, TakeOrderKeeps, OneRequestSteps
<1> HIDE DEF found, lines
<1> QED
  BY <1>2, <1>3, <1>4 DEF GetOrder, ForUpdateOrder, found, lines

LEMMA IncrementStockWork ==
    ASSUME StockInv, NEW r \in Requests, IncrementStock(r) PROVE WorkInv' /\ RowInv'
<1>0. pc[r] = "restore" /\ orderLock' = orderLock
  BY DEF IncrementStock
<1>1. CASE Abort(r, "INTERNAL_ERROR")
  BY <1>0, <1>1, AbortWork
<1>2. ASSUME NEW p \in todo[r],
             delta' = [delta EXCEPT ![r][p] = @ + draft[r].quantity[p]],
             todo' = [todo EXCEPT ![r] = @ \ {p}],
             Goto(r, IF todo[r] = {p} THEN "update" ELSE "restore"),
             UNCHANGED <<db, pool, req, draft, reply>>
      PROVE  WorkInv' /\ RowInv'
  <2>1. p \in Products
    BY <1>0 DEF StockInv, Inv, RequestInv
  <2>2. \A s \in Requests : s # r => SameWork(s)
    BY <1>2 DEF Goto, SameWork, StockInv, Inv, TypeOK
  <2>3. /\ orders' = orders /\ req' = req /\ draft' = draft
        /\ todo'[r] = todo[r] \ {p}
        /\ pc'[r] = IF todo'[r] = {} THEN "update" ELSE "restore"
    BY <1>2 DEF Goto, db, StockInv, Inv, TypeOK
  <2>4. Work(r) /\ Settling(r) /\ req[r].op # "create"
    BY <1>0 DEF StockInv, WorkInv, Work, Stage
  <2>5. /\ delta'[r][p] = delta[r][p] + draft[r].quantity[p]
        /\ \A x \in Products : x # p => delta'[r][x] = delta[r][x]
        /\ draft[r].quantity[p] \in Int
    <3>1. draft[r].quantity[p] \in Int
      BY <2>1, OrderNumbers DEF StockInv, Inv, TypeOK
    <3> QED
      BY <1>2, <2>1, <3>1 DEF StockInv, Inv, TypeOK
  <2>6. req[r].op = "cancel"
    BY <1>0 DEF StockInv, WorkInv, Work, Stage
  <2>7. Settling(r)'
    <3>1. ASSUME NEW x \in Products
          PROVE  delta'[r][x] = IF x \notin todo'[r] THEN draft[r].quantity[x] ELSE 0
      <4>1. CASE x = p
        BY <4>1, <2>1, <2>3, <2>4, <2>5, <2>6 DEF Settling
      <4>2. CASE x # p
        BY <4>2, <2>3, <2>4, <2>5, <2>6 DEF Settling
      <4> QED
        BY <4>1, <4>2
    <3> QED
      BY <1>0, <2>3, <2>4, <2>6, <3>1 DEF Settling
  <2>8. Work(r)'
    BY <1>0, <2>3, <2>4, <2>7 DEF Work, Stage
  <2> QED
    BY <1>0, <2>2, <2>3, <2>8, OneRequestSteps
<1> QED
  BY <1>1, <1>2 DEF IncrementStock

LEMMA UpdateStatusWork ==
    ASSUME StockInv, NEW r \in Requests, UpdateStatus(r) PROVE WorkInv' /\ RowInv'
<1> USE DEF UpdateStatus, Goto, db, work
<1>1. \A s \in Requests : s # r => SameWork(s)
  BY DEF SameWork, StockInv, Inv, TypeOK
<1>2. /\ orders' = orders /\ pc[r] = "update" /\ pc'[r] = "commit"
      /\ UNCHANGED <<req, todo, delta, draft>>
  BY DEF StockInv, Inv, TypeOK
<1>3. Work(r)'
  <2>1. Work(r) /\ Settling(r) /\ req[r].op # "create"
    BY <1>2 DEF StockInv, WorkInv, Work, Stage
  <2>2. req[r].order \in Requests
    BY <1>2 DEF StockInv, Inv, RequestInv, Input
  <2>3. orderLock'[req[r].order] = r
    BY <2>2 DEF TakeOrder, StockInv, Inv, TypeOK
  <2>4. Settling(r)'
    BY <1>2, <2>1, <2>3 DEF Settling
  <2> QED
    BY <1>2, <2>1, <2>4 DEF Work, Stage
<1> QED
  BY <1>1, <1>2, <1>3, TakeOrderKeeps, OneRequestSteps

-----------------------------------------------------------------------------
(* The units an order holds *)

LEMMA UnitSpace == IsFiniteSet(Requests \X (1..Int4Max))
<1>1. IsFiniteSet(Requests)
  BY ConstantsAssumption
<1>2. 1 \in Int /\ Int4Max \in Int
  BY ConstantFacts
<1>3. IsFiniteSet(1..Int4Max)
  BY <1>2, FS_Interval, Zenon
<1> QED
  BY <1>1, <1>3, FS_Product, Zenon

LEMMA HeldFacts ==
    ASSUME NEW p \in Products
    PROVE  IsFiniteSet(HeldUnits(p)) /\ Held(p) \in Nat
<1>1. HeldUnits(p) \subseteq Requests \X (1..Int4Max)
  BY DEF HeldUnits
<1> QED
  BY <1>1, UnitSpace, FS_Subset, FS_CardinalityType DEF Held

(* The same of the state after a step. *)
LEMMA HeldFactsNext ==
    ASSUME NEW p \in Products
    PROVE  IsFiniteSet(HeldUnits(p)') /\ Held(p)' \in Nat
<1>1. HeldUnits(p)' \subseteq Requests \X (1..Int4Max)
  BY DEF HeldUnits
<1>2. Held(p)' = Cardinality(HeldUnits(p)')
  BY DEF Held
<1> QED
  BY <1>1, <1>2, UnitSpace, FS_Subset, FS_CardinalityType

(* The units numbered 1 to q of an order o. *)
Units(o, q) == {o} \X (1..q)

LEMMA UnitsFacts ==
    ASSUME NEW o, NEW q \in Nat
    PROVE  IsFiniteSet(Units(o, q)) /\ Cardinality(Units(o, q)) = q
<1>1. IsFiniteSet({o}) /\ Cardinality({o}) = 1
  BY FS_Singleton
<1>2. IsFiniteSet(1..q) /\ Cardinality(1..q) = q
  <2>1. 1 \in Int /\ q \in Int
    OBVIOUS
  <2>2. IsFiniteSet(1..q) /\ Cardinality(1..q) = IF 1 > q THEN 0 ELSE q - 1 + 1
    BY <2>1, FS_Interval, Zenon
  <2>3. (IF 1 > q THEN 0 ELSE q - 1 + 1) = q
    OBVIOUS
  <2> QED
    BY <2>2, <2>3
<1>3. /\ IsFiniteSet({o} \X (1..q))
      /\ Cardinality({o} \X (1..q)) = Cardinality({o}) * Cardinality(1..q)
  BY <1>1, <1>2, FS_Product, Zenon
<1> QED
  BY <1>1, <1>2, <1>3 DEF Units

(* Two disjoint sets together. *)
LEMMA DisjointCardinality ==
    ASSUME NEW S, NEW T, IsFiniteSet(S), IsFiniteSet(T), S \cap T = {}
    PROVE  Cardinality(S \cup T) = Cardinality(S) + Cardinality(T)
<1>1. Cardinality(S) \in Nat /\ Cardinality(T) \in Nat
  BY FS_CardinalityType
<1>2. Cardinality(S \cap T) = 0
  BY FS_EmptySet
<1>3. Cardinality(S \cup T) = Cardinality(S) + Cardinality(T) - Cardinality(S \cap T)
  BY FS_Union, Zenon
<1> QED
  BY <1>1, <1>2, <1>3

-----------------------------------------------------------------------------
(* The end of a transaction *)

LEMMA EndTxWork ==
    ASSUME StockInv, NEW r \in Requests, pc[r] \in {"commit", "rollback"}, EndTx(r)
    PROVE  /\ \A s \in Requests : s # r => SameWork(s)
           /\ \A o \in Requests, s \in Requests :
                 s # r /\ orderLock[o] = s => orderLock'[o] = s
           /\ Work(r)'
<1>1. \A s \in Requests : s # r => SameWork(s)
  BY DEF EndTx, Goto, SameWork, StockInv, Inv, TypeOK
<1>2. \A o \in Requests, s \in Requests :
          s # r /\ orderLock[o] = s => orderLock'[o] = s
  BY DEF EndTx, ReleaseLocks
<1>3. Work(r)'
  <2>1. /\ pc'[r] = "done" /\ req' = req
        /\ delta'[r] = NoItems /\ draft'[r] = NoOrder
    BY DEF EndTx, Goto, StockInv, Inv, TypeOK
  <2>2. Work(r)
    BY DEF StockInv, WorkInv
  <2> QED
    BY <2>1, <2>2 DEF Work, Stage
<1> QED
  BY <1>1, <1>2, <1>3

LEMMA RollbackWork ==
    ASSUME StockInv, NEW r \in Requests, Rollback(r) PROVE WorkInv' /\ RowInv'
<1>1. pc[r] = "rollback" /\ EndTx(r) /\ orders' = orders
  BY DEF Rollback, db
<1> QED
  BY <1>1, EndTxWork, OneRequestSteps

(* What a commit finds: the order of a create does not exist yet, the order of a transition is
   pending and locked; what it adds to the stock is what the row it writes says. *)
LEMMA AtCommit ==
    ASSUME StockInv, NEW r \in Requests, pc[r] = "commit"
    PROVE  /\ req[r] \in Input /\ req[r].order \in Requests
           /\ WrittenOrder(r) \in Order
           /\ req[r].op = "create" =>
                 /\ req[r].order = r
                 /\ orders[r].status = "NONE"
                 /\ WrittenOrder(r).status = "PENDING"
                 /\ \A p \in Products : /\ WrittenOrder(r).quantity[p] \in 0..Int4Max
                                       /\ delta[r][p] = -WrittenOrder(r).quantity[p]
           /\ req[r].op # "create" =>
                 /\ orderLock[req[r].order] = r
                 /\ orders[req[r].order].status = "PENDING"
                 /\ WrittenOrder(r).quantity = orders[req[r].order].quantity
                 /\ WrittenOrder(r).status =
                       IF req[r].op = "confirm" THEN "CONFIRMED" ELSE "CANCELLED"
                 /\ req[r].op = "confirm" => \A p \in Products : delta[r][p] = 0
                 /\ req[r].op = "cancel" => \A p \in Products :
                       delta[r][p] = ItemsRead(orders[req[r].order].quantity,
                                               req[r].spelling)[p]
<1>1. req[r] \in Input /\ req[r].order \in Requests
  BY DEF StockInv, Inv, RequestInv, Input
<1>2. orders[req[r].order] \in Order /\ draft[r] \in Order
  BY <1>1 DEF StockInv, Inv, TypeOK
<1>3. Work(r) /\ todo[r] = {}
  BY DEF StockInv, WorkInv, Work, Stage
<1>4. CASE req[r].op = "create"
  <2>1. Building(r) /\ Built(r) /\ req[r].order = r
    BY <1>3, <1>4 DEF Work, Stage
  <2>2. orders[r].status = "NONE"
    BY DEF StockInv, RowInv, Row
  <2>3. \A p \in Products : draft[r].quantity[p] \in 0..Int4Max
    <3> SUFFICES ASSUME NEW p \in Products PROVE draft[r].quantity[p] \in 0..Int4Max
      OBVIOUS
    <3>1. CASE draft[r].quantity[p] = 0
      BY <3>1, ConstantFacts
    <3>2. CASE draft[r].quantity[p] # 0
      <4>1. draft[r].quantity[p] > 0
        BY <2>1, <3>2 DEF Building, Built, PositiveQuantities
      <4>2. draft[r].quantity[p] \in Int4
        BY <2>1 DEF Building
      <4> QED
        BY <4>1, <4>2, ConstantFacts DEF Int4
    <3> QED
      BY <3>1, <3>2
  <2>4. \A p \in Products : delta[r][p] = -draft[r].quantity[p]
    BY <2>1 DEF Building, Built
  <2> QED
    BY <1>1, <1>2, <1>4, <2>1, <2>2, <2>3, <2>4 DEF WrittenOrder, Built
<1>5. CASE req[r].op # "create"
  <2>1. Settling(r)
    BY <1>3, <1>5 DEF Work
  <2>2. draft[r].status \in Statuses /\ draft[r].cancelledAt \in BOOLEAN
    BY <1>2 DEF Order
  <2>3. /\ WrittenOrder(r) \in Order
        /\ WrittenOrder(r).quantity = orders[req[r].order].quantity
        /\ WrittenOrder(r).status = draft[r].status
    BY <1>2, <1>5, <2>2 DEF WrittenOrder, Order
  <2> QED
    BY <1>1, <1>3, <1>5, <2>1, <2>3 DEF Settling
<1> QED
  BY <1>4, <1>5

LEMMA CommitWork ==
    ASSUME StockInv, NEW r \in Requests, NEW code, Commit(r, code)
    PROVE  WorkInv' /\ RowInv'
<1>0. /\ pc[r] = "commit" /\ EndTx(r)
      /\ orders' = [orders EXCEPT ![req[r].order] = WrittenOrder(r)]
  BY DEF Commit
<1>1. req[r].order \in Requests
  BY <1>0, AtCommit
<1>2. /\ orders'[req[r].order] = WrittenOrder(r)
      /\ \A o \in Requests : o # req[r].order => orders'[o] = orders[o]
  BY <1>0, <1>1 DEF StockInv, Inv, TypeOK
<1>3. ASSUME NEW s \in Requests, s # r PROVE Work(s)'
  <2>1. ASSUME NEW o \in Requests, orderLock[o] = s, orders[o].status = "PENDING"
        PROVE  orderLock'[o] = s /\ orders'[o] = orders[o]
    <3>1. o # req[r].order
      BY <1>0, <1>3, <2>1, AtCommit
    <3> QED
      BY <1>0, <1>2, <1>3, <2>1, <3>1, EndTxWork
  <2> QED
    BY <1>0, <1>3, <2>1, EndTxWork, WorkKept
<1>4. ASSUME NEW o \in Requests PROVE Row(o)'
  <2>1. Row(o)
    BY DEF StockInv, RowInv
  <2>2. pc'[r] = "done" /\ \A s \in Requests : s # r => pc'[s] = pc[s]
    BY <1>0 DEF EndTx, Goto, StockInv, Inv, TypeOK
  <2>3. CASE o = req[r].order
    <3>1. req[r].op = "create" => o = r
      BY <1>0, <2>3, AtCommit
    <3>2. req[r].op # "create" => pc[o] = "done"
      BY <1>0, <2>1, <2>3, AtCommit DEF Row
    <3>3. \A p \in Products : WrittenOrder(r).quantity[p] \in 0..Int4Max
      BY <1>0, <2>1, <2>3, AtCommit DEF Row
    <3> QED
      BY <1>2, <2>2, <2>3, <3>1, <3>2, <3>3 DEF Row
  <2>4. CASE o # req[r].order
    BY <1>0, <1>2, <2>1, <2>2, <2>4 DEF Row
  <2> QED
    BY <2>3, <2>4
<1>5. Work(r)'
  BY <1>0, EndTxWork
<1> QED
  BY <1>3, <1>4, <1>5 DEF WorkInv, RowInv

-----------------------------------------------------------------------------
(* A commit moves units between the shelf and the order; only a cancellation that read no items
   loses them. *)

LEMMA CommitBalance ==
    ASSUME StockInv, NEW r \in Requests, NEW code, Commit(r, code), NEW p \in Products
    PROVE  /\ stock'[p] + Held(p)' <= stock[p] + Held(p)
           /\ req[r].spelling = "canonical" =>
                 stock'[p] + Held(p)' = stock[p] + Held(p)
<1> DEFINE o == req[r].order
           new == WrittenOrder(r)
<1>0. /\ pc[r] = "commit"
      /\ stock'[p] = stock[p] + delta[r][p]
      /\ orders' = [orders EXCEPT ![o] = new]
  BY DEF Commit, Visible
<1>1. o \in Requests /\ new \in Order /\ req[r] \in Input
  BY <1>0, AtCommit
<1>2. /\ orders'[o] = new
      /\ \A x \in Requests : x # o => orders'[x] = orders[x]
  BY <1>0, <1>1 DEF StockInv, Inv, TypeOK
<1>3. /\ IsFiniteSet(HeldUnits(p)) /\ Held(p) \in Nat
      /\ IsFiniteSet(HeldUnits(p)') /\ Held(p)' \in Nat
  BY HeldFacts, HeldFactsNext
<1>4. stock[p] \in Int /\ delta[r][p] \in Int
  BY ConstantFacts DEF StockInv, Inv, TypeOK
<1>5. \A x \in Requests : orders[x].quantity[p] \in 0..Int4Max
  BY DEF StockInv, RowInv, Row
<1> HIDE DEF o, new
<1>6. CASE req[r].op = "create"
  <2> DEFINE q == new.quantity[p]
  <2>1. /\ q \in 0..Int4Max /\ delta[r][p] = -q
        /\ new.status = "PENDING" /\ orders[o].status = "NONE"
    BY <1>0, <1>6, AtCommit DEF o, new
  <2>2. q \in Nat /\ q <= Int4Max
    BY <2>1, ConstantFacts
  <2>3. HeldUnits(p)' = HeldUnits(p) \cup Units(o, q)
    BY <1>1, <1>2, <2>1, <2>2, ConstantFacts DEF HeldUnits, Units
  <2>4. HeldUnits(p) \cap Units(o, q) = {}
    BY <2>1 DEF HeldUnits, Units
  <2> HIDE DEF q
  <2>5. Held(p)' = Held(p) + q
    BY <1>3, <2>2, <2>3, <2>4, UnitsFacts, DisjointCardinality DEF Held
  <2> QED
    BY <1>0, <1>3, <1>4, <2>1, <2>2, <2>5
<1>7. CASE req[r].op = "confirm"
  <2>1. /\ new.status = "CONFIRMED" /\ orders[o].status = "PENDING"
        /\ new.quantity = orders[o].quantity /\ delta[r][p] = 0
    BY <1>0, <1>7, AtCommit DEF o, new
  <2>2. HeldUnits(p)' = HeldUnits(p)
    BY <1>1, <1>2, <2>1 DEF HeldUnits
  <2> QED
    BY <1>0, <1>3, <1>4, <2>1, <2>2 DEF Held
<1>8. CASE req[r].op = "cancel"
  <2> DEFINE q == orders[o].quantity[p]
  <2>1. /\ new.status = "CANCELLED" /\ orders[o].status = "PENDING"
        /\ delta[r][p] = ItemsRead(orders[o].quantity, req[r].spelling)[p]
    BY <1>0, <1>8, AtCommit DEF o, new
  <2>2. q \in 0..Int4Max /\ q \in Nat /\ q <= Int4Max
    BY <1>1, <1>5, ConstantFacts
  <2>3. delta[r][p] = IF req[r].spelling = "canonical" THEN q ELSE 0
    BY <2>1, ConstantFacts DEF ItemsRead
  <2>4. HeldUnits(p) = HeldUnits(p)' \cup Units(o, q)
    BY <1>1, <1>2, <2>1, <2>2, ConstantFacts DEF HeldUnits, Units
  <2>5. HeldUnits(p)' \cap Units(o, q) = {}
    BY <1>2, <2>1 DEF HeldUnits, Units
  <2> HIDE DEF q
  <2>6. Held(p) = Held(p)' + q
    BY <1>3, <2>2, <2>4, <2>5, UnitsFacts, DisjointCardinality DEF Held
  <2> QED
    BY <1>0, <1>3, <1>4, <2>2, <2>3, <2>6
<1> QED
  BY <1>1, <1>6, <1>7, <1>8 DEF Input, Operations

-----------------------------------------------------------------------------
(* The invariant *)

LEMMA StockInvInit == Init => StockInv
<1> SUFFICES ASSUME Init PROVE StockInv
  OBVIOUS
<1>1. WorkInv
  <2> SUFFICES ASSUME NEW r \in Requests PROVE Work(r)
    BY DEF WorkInv
  <2>1. /\ pc[r] = "idle" /\ req[r].op = "none"
        /\ delta[r] = NoItems /\ draft[r] = NoOrder
    BY DEF Init, NoInput
  <2> QED
    BY <2>1 DEF Work, Stage
<1>2. RowInv
  <2>1. \A o \in Requests : orders[o].status = "NONE" /\ orders[o].quantity = NoItems
    BY DEF Init, NoOrder
  <2> QED
    BY <2>1, ConstantFacts DEF RowInv, Row
<1> QED
  BY <1>1, <1>2, InvInit DEF StockInv

LEMMA StockInvStep == StockInv /\ [Next]_vars => StockInv'
<1> SUFFICES ASSUME StockInv, [Next]_vars PROVE WorkInv' /\ RowInv'
  BY InvStep DEF StockInv
<1>1. ASSUME NEW r \in Requests, ReceiveCreate(r) PROVE WorkInv' /\ RowInv'
  BY <1>1, ReceiveCreateWork
<1>2. ASSUME NEW r \in Requests, ReceiveTransition(r) PROVE WorkInv' /\ RowInv'
  BY <1>2, ReceiveTransitionWork
<1>3. ASSUME NEW r \in Requests, Begin(r) \/ BeginFails(r) PROVE WorkInv' /\ RowInv'
  BY <1>3, BeginWork
<1>4. ASSUME NEW r \in Requests, GetProduct(r) PROVE WorkInv' /\ RowInv'
  BY <1>4, GetProductWork
<1>5. ASSUME NEW r \in Requests, DecrementStock(r) PROVE WorkInv' /\ RowInv'
  BY <1>5, DecrementStockWork
<1>6. ASSUME NEW r \in Requests, InsertOrder(r) PROVE WorkInv' /\ RowInv'
  BY <1>6, InsertOrderWork
<1>7. ASSUME NEW r \in Requests, GetOrder(r) PROVE WorkInv' /\ RowInv'
  BY <1>7, GetOrderWork
<1>8. ASSUME NEW r \in Requests, IncrementStock(r) PROVE WorkInv' /\ RowInv'
  BY <1>8, IncrementStockWork
<1>9. ASSUME NEW r \in Requests, UpdateStatus(r) PROVE WorkInv' /\ RowInv'
  BY <1>9, UpdateStatusWork
<1>10. ASSUME NEW r \in Requests, CommitAcknowledged(r) \/ CommitUnacknowledged(r)
       PROVE  WorkInv' /\ RowInv'
  BY <1>10, CommitWork DEF CommitAcknowledged, CommitUnacknowledged
<1>11. ASSUME NEW r \in Requests, Rollback(r) PROVE WorkInv' /\ RowInv'
  BY <1>11, RollbackWork
<1>12. ASSUME NEW r \in Requests, Fail(r) \/ DeadlockVictim(r) PROVE WorkInv' /\ RowInv'
  <2>1. Abort(r, "INTERNAL_ERROR") /\ UNCHANGED locks
    BY <1>12 DEF Fail, DeadlockVictim
  <2>2. pc[r] \in InTx
    BY <1>12 DEF Fail, DeadlockVictim, Deadlock, Awaits
  <2> QED
    BY <2>1, <2>2, AbortWork DEF locks
<1>13. CASE (\E p \in Products : Reprice(p)) \/ UNCHANGED vars
  <2>1. /\ UNCHANGED <<orders, orderLock, pc, req, todo, delta, draft>>
    BY <1>13 DEF Reprice, vars, db, locks, work
  <2>2. \A s \in Requests : Work(s)'
    BY <2>1, WorkKept DEF SameWork
  <2>3. RowInv'
    BY <2>1 DEF StockInv, RowInv, Row
  <2> QED
    BY <2>2, <2>3 DEF WorkInv
<1> QED
  BY <1>1, <1>2, <1>3, <1>4, <1>5, <1>6, <1>7, <1>8, <1>9, <1>10, <1>11, <1>12, <1>13
  DEF Next, Serve

LEMMA StockInvAlways == Safety => []StockInv
BY StockInvInit, StockInvStep, PTL DEF Safety

(* Steps other than commits move nothing. *)
LEMMA OnlyCommitsMove ==
    ASSUME StockInv, [Next]_vars,
           ~ \E r \in Requests : CommitAcknowledged(r) \/ CommitUnacknowledged(r)
    PROVE  stock' = stock /\ orders' = orders
<1> USE DEF Abort, db
<1>1. CASE UNCHANGED vars
  BY <1>1 DEF vars
<1>2. ASSUME NEW r \in Requests, ReceiveCreate(r) \/ ReceiveTransition(r) PROVE UNCHANGED db
  BY <1>2 DEF ReceiveCreate, ReceiveTransition
<1>3. ASSUME NEW r \in Requests, Begin(r) \/ BeginFails(r) PROVE UNCHANGED db
  BY <1>3 DEF Begin, BeginFails
<1>4. ASSUME NEW r \in Requests, GetProduct(r) PROVE UNCHANGED db
  BY <1>4 DEF GetProduct
<1>5. ASSUME NEW r \in Requests, DecrementStock(r) PROVE UNCHANGED db
  BY <1>5 DEF DecrementStock
<1>6. ASSUME NEW r \in Requests, InsertOrder(r) PROVE UNCHANGED db
  BY <1>6 DEF InsertOrder
<1>7. ASSUME NEW r \in Requests, GetOrder(r) PROVE UNCHANGED db
  BY <1>7 DEF GetOrder
<1>8. ASSUME NEW r \in Requests, IncrementStock(r) PROVE UNCHANGED db
  BY <1>8 DEF IncrementStock
<1>9. ASSUME NEW r \in Requests, UpdateStatus(r) \/ Rollback(r) PROVE UNCHANGED db
  BY <1>9 DEF UpdateStatus, Rollback
<1>10. ASSUME NEW r \in Requests, Fail(r) \/ DeadlockVictim(r) PROVE UNCHANGED db
  BY <1>10 DEF Fail, DeadlockVictim
<1>11. ASSUME NEW p \in Products, Reprice(p) PROVE stock' = stock /\ orders' = orders
  BY <1>11 DEF Reprice
<1> QED
  BY <1>1, <1>2, <1>3, <1>4, <1>5, <1>6, <1>7, <1>8, <1>9, <1>10, <1>11 DEF Next, Serve

LEMMA Balance ==
    ASSUME StockInv, [Next]_vars, NEW p \in Products
    PROVE  /\ stock'[p] + Held(p)' <= stock[p] + Held(p)
           /\ Spellings \subseteq {"canonical"} =>
                 stock'[p] + Held(p)' = stock[p] + Held(p)
<1>1. ASSUME NEW r \in Requests, CommitAcknowledged(r) \/ CommitUnacknowledged(r)
      PROVE  /\ stock'[p] + Held(p)' <= stock[p] + Held(p)
             /\ Spellings \subseteq {"canonical"} =>
                   stock'[p] + Held(p)' = stock[p] + Held(p)
  <2>1. PICK code : Commit(r, code)
    BY <1>1 DEF CommitAcknowledged, CommitUnacknowledged
  <2>2. Spellings \subseteq {"canonical"} => req[r].spelling = "canonical"
    <3>1. pc[r] = "commit"
      BY <2>1 DEF Commit
    <3>2. req[r] \in Input
      BY <3>1, AtCommit
    <3> QED
      BY <3>2 DEF Input
  <2> QED
    BY <2>1, <2>2, CommitBalance
<1>2. CASE ~ \E r \in Requests : CommitAcknowledged(r) \/ CommitUnacknowledged(r)
  <2>1. stock' = stock /\ orders' = orders
    BY <1>2, OnlyCommitsMove
  <2>2. Held(p)' = Held(p)
    BY <2>1 DEF Held, HeldUnits
  <2>3. stock[p] \in Int /\ Held(p) \in Int
    BY HeldFacts, ConstantFacts DEF StockInv, Inv, TypeOK
  <2> QED
    BY <2>1, <2>2, <2>3
<1> QED
  BY <1>1, <1>2

LEMMA BalanceInit ==
    ASSUME Init, NEW p \in Products
    PROVE  stock[p] + Held(p) = InitStock[p]
<1>1. HeldUnits(p) = {}
  <2>1. \A o \in Requests : orders[o].status = "NONE"
    BY DEF Init, NoOrder
  <2> QED
    BY <2>1 DEF HeldUnits
<1>2. Held(p) = 0
  BY <1>1, FS_EmptySet DEF Held
<1> QED
  BY <1>2, ConstantsAssumption, ConstantFacts DEF Init

(* However many creates, confirmations and cancellations run, in whatever order their statements
   interleave and fail, and however clients spell ids or choose quantities, the units on the shelf
   and in live orders never exceed the initial stock. *)
THEOREM NoOversellTheorem == Safety => []NoOversell
<1>1. Init => NoOversell
  <2> SUFFICES ASSUME Init PROVE NoOversell
    OBVIOUS
  <2>1. \A p \in Products : stock[p] + Held(p) = InitStock[p] /\ InitStock[p] \in Int
    BY BalanceInit, ConstantsAssumption, ConstantFacts
  <2> QED
    BY <2>1 DEF NoOversell
<1>2. StockInv /\ NoOversell /\ [Next]_vars => NoOversell'
  <2> SUFFICES ASSUME StockInv, NoOversell, [Next]_vars, NEW p \in Products
               PROVE  stock'[p] + Held(p)' <= InitStock[p]
    BY DEF NoOversell
  <2>1. stock[p] + Held(p) <= InitStock[p]
    BY DEF NoOversell
  <2>2. stock'[p] + Held(p)' <= stock[p] + Held(p)
    BY Balance
  <2>3. stock[p] \in Int /\ Held(p) \in Int /\ InitStock[p] \in Int
    BY HeldFacts, ConstantFacts, ConstantsAssumption DEF StockInv, Inv, TypeOK
  <2>4. stock'[p] \in Int /\ Held(p)' \in Int
    BY InvStep, HeldFactsNext, ConstantFacts DEF StockInv, Inv, TypeOK
  <2> QED
    BY <2>1, <2>2, <2>3, <2>4
<1> QED
  BY <1>1, <1>2, StockInvAlways, PTL DEF Safety

(* When clients name orders by the text the server sent, no unit is lost either: Create and Cancel
   are all or nothing under every interleaving and every failure. *)
THEOREM StockConservedTheorem ==
    ASSUME Spellings \subseteq {"canonical"}
    PROVE  Safety => []StockConserved
<1>1. Init => StockConserved
  BY BalanceInit DEF StockConserved
<1>2. StockInv /\ StockConserved /\ [Next]_vars => StockConserved'
  <2> SUFFICES ASSUME StockInv, StockConserved, [Next]_vars, NEW p \in Products
               PROVE  stock'[p] + Held(p)' = InitStock[p]
    BY DEF StockConserved
  <2>1. stock'[p] + Held(p)' = stock[p] + Held(p)
    BY Balance
  <2> QED
    BY <2>1 DEF StockConserved
<1> QED
  BY <1>1, <1>2, StockInvAlways, PTL DEF Safety

=============================================================================
