----------------------------- MODULE OrderService -----------------------------
(***************************************************************************)
(* The order use case (internal/usecase/order_usecase.go) running on the   *)
(* postgres repositories (internal/repository/postgres).  Each request is  *)
(* one createOrder, confirmOrder or cancelOrder mutation served by its own *)
(* goroutine; the goroutines share nothing but the database, so a step of  *)
(* this specification is one SQL statement together with the Go code that  *)
(* runs on its result.  Between two statements of one request any          *)
(* statement of any other may run.                                         *)
(*                                                                         *)
(* Of PostgreSQL the model keeps what the code relies on: READ COMMITTED   *)
(* visibility (a transaction sees committed rows and its own writes), row  *)
(* locks taken by SELECT ... FOR UPDATE and by UPDATE and held until the   *)
(* transaction ends, the primary key of order_items, the CHECKs and the    *)
(* range of INTEGER columns, and the deadlock detector, which aborts a     *)
(* transaction of a cycle of waiters.                                      *)
(***************************************************************************)
EXTENDS Integers, Sequences, FiniteSets

CONSTANTS
    Requests,     \* the mutations that may be in flight; newID() of request r is r itself
    Users,        \* the authenticated callers
    Products,     \* ids of the rows of products, integers in the order of their UUIDs
    ProductRefs,  \* strings a client may send as a productId, integers in string order
    ProductOf,    \* the product row each of those strings names as a UUID, None if no row
    Baskets,      \* the sequences of lines a client may send
    Spellings,    \* how a client may spell an order id: the text the server sent, or another
    InitStock,    \* the stock of each product when the service starts
    Prices,       \* the prices a product may have
    IntMax,       \* the largest value of a Go int
    Int4Max,      \* the largest value of an INTEGER column
    MaxConns,     \* the size of the connection pool
    None          \* no row, no request, no user

Line == [ref : ProductRefs, quantity : Int]

(* A line is what the GraphQL input type lets through: any string, any Go int.  The text the
   server sends for a product is one of the strings clients send. *)
ASSUME ConstantsAssumption ==
    /\ IsFiniteSet(Requests) /\ None \notin Requests
    /\ None \notin Users
    /\ Products \subseteq Int /\ None \notin Products
    /\ Products \subseteq ProductRefs /\ ProductRefs \subseteq Int
    /\ ProductOf \in [ProductRefs -> Products \cup {None}]
    /\ \A p \in Products : ProductOf[p] = p
    /\ Baskets \subseteq Seq(Line)
    /\ Spellings \subseteq {"canonical", "other"}
    /\ Int4Max \in Nat /\ IntMax \in Nat /\ Int4Max <= IntMax
    /\ InitStock \in [Products -> 0..Int4Max]
    /\ Prices \subseteq Nat \ {0}
    /\ MaxConns \in Nat \ {0}

VARIABLES
    stock,      \* products.stock, committed
    price,      \* products.price, committed
    orders,     \* orders joined with order_items, committed
    rowLock,    \* which transaction holds the row lock of a product
    orderLock,  \* which transaction holds the row lock of an order
    pool,       \* the requests that hold a connection of the pool
    pc,         \* where each request is
    req,        \* what each request asks for
    todo,       \* the product references whose statements are still to run, in ascending order
    delta,      \* what each open transaction has added to each stock, uncommitted
    draft,      \* the domain.Order a request is building or has read
    reply       \* what each request answers: OK or the code of its error

db == <<stock, price, orders>>
locks == <<rowLock, orderLock>>
work == <<todo, delta, draft>>
vars == <<db, locks, pool, pc, req, work, reply>>

-----------------------------------------------------------------------------
(* Data *)

Statuses == {"NONE", "PENDING", "CONFIRMED", "CANCELLED"}

NoItems == [p \in Products |-> 0]

Int4 == (-Int4Max - 1)..Int4Max

(* An order and its items: quantity[p] = 0 says that the order has no line for p. *)
Order == [status : Statuses, user : Users \cup {None},
          quantity : [Products -> Int4], unitPrice : [Products -> Prices \cup {0}],
          cancelledAt : BOOLEAN]

NoOrder == [status |-> "NONE", user |-> None, quantity |-> NoItems,
            unitPrice |-> NoItems, cancelledAt |-> FALSE]

Operations == {"create", "confirm", "cancel"}

Input == [op : Operations, user : Users, lines : Baskets \cup {<< >>},
          order : Requests, spelling : Spellings \cup {"canonical"}]

NoInput == [op |-> "none", user |-> None, lines |-> << >>, order |-> None,
            spelling |-> "canonical"]

DomainErrors == {"EMPTY_ORDER", "INVALID_QUANTITY", "PRODUCT_NOT_FOUND",
                 "INSUFFICIENT_STOCK", "ORDER_NOT_FOUND", "ORDER_NOT_OWNED",
                 "ORDER_NOT_PENDING"}

Replies == {"OK", "INTERNAL_ERROR"} \cup DomainErrors

(* Two's complement addition of Go ints. *)
WrapInt(n) == ((n + IntMax + 1) % (2 * (IntMax + 1))) - (IntMax + 1)

Refs(lines) == {lines[i].ref : i \in DOMAIN lines}

(* The units asked for under one spelling of a product, counted one by one. *)
RequestedUnits(lines, ref) ==
    {u \in (DOMAIN lines) \X (1..IntMax) :
        lines[u[1]].ref = ref /\ u[2] <= lines[u[1]].quantity}

(* Variant: one of the repeated lines stands for all of them. *)
UnmergedQuantity(lines, ref) ==
    LET i == CHOOSE i \in DOMAIN lines : lines[i].ref = ref IN lines[i].quantity

MergedQuantity(lines, ref) == WrapInt(Cardinality(RequestedUnits(lines, ref)))

-----------------------------------------------------------------------------
(* The transaction manager and the row locks *)

(* Steps at which the request runs inside WithinTx and the callback has not returned an error. *)
InCallback == {"read", "decrement", "insert", "find", "restore", "update"}
InTx == InCallback \cup {"commit", "rollback"}

Free(lock, x, r) == lock[x] \in {None, r}

(* What r's own statements see of a stock. *)
Visible(r, p) == stock[p] + delta[r][p]

(* Variant: the lines are not sorted. *)
AnyOf(ref, refs) == ref \in refs

(* The order in which the statements over several products are sent: sort.Slice in
   mergeLines, ORDER BY product_id in itemsByOrderIDs. *)
First(ref, refs) == ref \in refs /\ \A other \in refs : ref <= other

(* r waits for a row that s has locked. *)
Awaits(r, s) ==
    /\ s # r
    /\ \/ /\ pc[r] \in {"read", "decrement", "restore"}
          /\ \E ref \in todo[r] :
                /\ First(ref, todo[r])
                /\ ProductOf[ref] # None
                /\ rowLock[ProductOf[ref]] = s
       \/ /\ pc[r] \in {"find", "update"}
          /\ orderLock[req[r].order] = s

Deadlock(S) == S # {} /\ \A r \in S : \E s \in S : Awaits(r, s)

Goto(r, label) == pc' = [pc EXCEPT ![r] = label]

(* The callback returns an error: WithinTx goes on to roll back. *)
Abort(r, code) ==
    /\ Goto(r, "rollback")
    /\ reply' = [reply EXCEPT ![r] = code]
    /\ UNCHANGED <<db, pool, req, work>>

(* Row locks: SELECT ... FOR UPDATE waits for the row as UPDATE does. *)
TakeRow(r, p) == Free(rowLock, p, r) /\ rowLock' = [rowLock EXCEPT ![p] = r]
TakeOrder(r, o) == Free(orderLock, o, r) /\ orderLock' = [orderLock EXCEPT ![o] = r]

(* Variants: the reads of a transaction lose their FOR UPDATE. *)
PlainSelect(r, p) == UNCHANGED rowLock
PlainSelectOrder(r, o) == UNCHANGED orderLock

ForUpdate(r, p) == TakeRow(r, p)
ForUpdateOrder(r, o) == TakeOrder(r, o)

(* Variant: a transaction ends without giving back its connection. *)
KeepConnection(r) == UNCHANGED pool

ReleaseLocks(r) ==
    /\ rowLock' = [p \in Products |-> IF rowLock[p] = r THEN None ELSE rowLock[p]]
    /\ orderLock' = [o \in Requests |-> IF orderLock[o] = r THEN None ELSE orderLock[o]]
ReleaseConnection(r) == pool' = pool \ {r}

(* Locks, connection and uncommitted work go with the transaction. *)
EndTx(r) ==
    /\ ReleaseLocks(r)
    /\ ReleaseConnection(r)
    /\ todo' = [todo EXCEPT ![r] = {}]
    /\ delta' = [delta EXCEPT ![r] = NoItems]
    /\ draft' = [draft EXCEPT ![r] = NoOrder]
    /\ Goto(r, "done")
    /\ UNCHANGED req

-----------------------------------------------------------------------------
(* Initial states *)

Init ==
    /\ stock = InitStock
    /\ price \in [Products -> Prices]
    /\ orders = [o \in Requests |-> NoOrder]
    /\ rowLock = [p \in Products |-> None]
    /\ orderLock = [o \in Requests |-> None]
    /\ pool = {}
    /\ pc = [r \in Requests |-> "idle"]
    /\ req = [r \in Requests |-> NoInput]
    /\ todo = [r \in Requests |-> {}]
    /\ delta = [r \in Requests |-> NoItems]
    /\ draft = [r \in Requests |-> NoOrder]
    /\ reply = [r \in Requests |-> "NONE"]

-----------------------------------------------------------------------------
(* Before the transaction *)

(* The lines of a createOrder that Create sends back without opening a transaction. *)
Rejection(lines) ==
    IF \E i \in DOMAIN lines : lines[i].quantity <= 0 THEN "INVALID_QUANTITY"
    ELSE IF lines = << >> THEN "EMPTY_ORDER"
    ELSE "NONE"

ReceiveCreate(r) ==
    /\ pc[r] = "idle"
    /\ \E user \in Users, lines \in Baskets :
          /\ req' = [req EXCEPT ![r] = [op |-> "create", user |-> user, lines |-> lines,
                                        order |-> r, spelling |-> "canonical"]]
          /\ \/ /\ Rejection(lines) # "NONE"
                /\ reply' = [reply EXCEPT ![r] = Rejection(lines)]
                /\ Goto(r, "done")
                /\ UNCHANGED todo
             \/ /\ Rejection(lines) = "NONE"
                /\ todo' = [todo EXCEPT ![r] = Refs(lines)]
                /\ Goto(r, "begin")
                /\ UNCHANGED reply
    /\ UNCHANGED <<db, locks, pool, delta, draft>>

ReceiveTransition(r) ==
    /\ pc[r] = "idle"
    /\ \E op \in {"confirm", "cancel"}, user \in Users, o \in Requests, s \in Spellings :
          req' = [req EXCEPT ![r] = [op |-> op, user |-> user, lines |-> << >>,
                                     order |-> o, spelling |-> s]]
    /\ Goto(r, "begin")
    /\ UNCHANGED <<db, locks, pool, work, reply>>

(* pool.Begin: waits for a free connection of the pool. *)
Begin(r) ==
    /\ pc[r] = "begin"
    /\ Cardinality(pool) < MaxConns
    /\ pool' = pool \cup {r}
    /\ Goto(r, IF req[r].op = "create" THEN "read" ELSE "find")
    /\ UNCHANGED <<db, locks, req, work, reply>>

(* pool.Begin fails: the request was cancelled while it waited, or there is no database. *)
BeginFails(r) ==
    /\ pc[r] = "begin"
    /\ reply' = [reply EXCEPT ![r] = "INTERNAL_ERROR"]
    /\ todo' = [todo EXCEPT ![r] = {}]
    /\ Goto(r, "done")
    /\ UNCHANGED <<db, locks, pool, req, delta, draft>>

-----------------------------------------------------------------------------
(* createOrder, inside the transaction *)

(* Variant: the line is stored with its total. *)
LineTotal(r, ref) == price[ProductOf[ref]] * MergedQuantity(req[r].lines, ref)

UnitPrice(r, ref) == price[ProductOf[ref]]

(* ProductRepository.GetByID with FOR UPDATE; the price read goes into the order. *)
GetProduct(r) ==
    /\ pc[r] = "read"
    /\ \E ref \in todo[r] :
          LET p == ProductOf[ref] IN
          /\ First(ref, todo[r])
          /\ \/ /\ p = None
                /\ Abort(r, "PRODUCT_NOT_FOUND")
                /\ UNCHANGED locks
             \/ /\ p # None
                /\ ForUpdate(r, p)
                /\ draft' = [draft EXCEPT ![r].unitPrice[p] = UnitPrice(r, ref)]
                /\ Goto(r, "decrement")
                /\ UNCHANGED <<db, orderLock, pool, req, todo, delta, reply>>

(* products.stock is an INTEGER with CHECK (stock >= 0). *)
StockColumn == 0..Int4Max

Enough(available, q) == available >= q

(* UPDATE products SET stock = stock - $2 WHERE id = $1 AND stock >= $2.  A quantity that no
   INTEGER holds, or a result that the column does not hold, is an error of the statement.  If no
   row is updated, exists finds the row, which this transaction has locked. *)
DecrementStock(r) ==
    /\ pc[r] = "decrement"
    /\ \E ref \in todo[r] :
          LET p == ProductOf[ref]
              q == MergedQuantity(req[r].lines, ref)
              left == Visible(r, p) - q
          IN
          /\ First(ref, todo[r])
          /\ TakeRow(r, p)
          /\ \/ /\ q \in Int4
                /\ Enough(Visible(r, p), q)
                /\ left \in StockColumn
                /\ delta' = [delta EXCEPT ![r][p] = @ - q]
                /\ draft' = [draft EXCEPT ![r].quantity[p] = q]
                /\ todo' = [todo EXCEPT ![r] = @ \ {ref}]
                /\ Goto(r, IF todo[r] = {ref} THEN "insert" ELSE "read")
                /\ UNCHANGED <<db, pool, req, reply>>
             \/ /\ q \in Int4
                /\ ~Enough(Visible(r, p), q)
                /\ Abort(r, "INSUFFICIENT_STOCK")
             \/ /\ q \notin Int4 \/ (Enough(Visible(r, p), q) /\ left \notin StockColumn)
                /\ Abort(r, "INTERNAL_ERROR")
    /\ UNCHANGED orderLock

(* Two lines of the order name one row of products. *)
SameProductTwice(lines) ==
    \E a, b \in Refs(lines) : a # b /\ ProductOf[a] = ProductOf[b]

PositiveQuantities(lines) == \A ref \in Refs(lines) : MergedQuantity(lines, ref) > 0

(* The constraints of order_items: its primary key and CHECK (quantity > 0). *)
Storable(lines) ==
    /\ ~SameProductTwice(lines)
    /\ \A ref \in Refs(lines) : MergedQuantity(lines, ref) > 0

(* NewOrder and OrderRepository.Insert.  The rows inserted are new, so their INSERTs wait for
   nobody, and nobody sees them before the commit: one step stands for all of them. *)
InsertOrder(r) ==
    /\ pc[r] = "insert"
    /\ \/ /\ ~PositiveQuantities(req[r].lines)
          /\ Abort(r, "INVALID_QUANTITY")
       \/ /\ PositiveQuantities(req[r].lines)
          /\ \/ /\ ~Storable(req[r].lines)
                /\ Abort(r, "INTERNAL_ERROR")
             \/ /\ Storable(req[r].lines)
                /\ draft' = [draft EXCEPT ![r].status = "PENDING", ![r].user = req[r].user]
                /\ Goto(r, "commit")
                /\ UNCHANGED <<db, pool, req, todo, delta, reply>>
    /\ UNCHANGED locks

-----------------------------------------------------------------------------
(* confirmOrder and cancelOrder, inside the transaction *)

(* Variant: the order is cancelled without the items it was read with. *)
NoItemsRead(items, spelling) == NoItems

(* order.Items = items[id]: the map has the server's spelling of the id as its key. *)
ItemsRead(items, spelling) == IF spelling = "canonical" THEN items ELSE NoItems

IsPending(order) == order.status = "PENDING"

Settled(order, op) ==
    [order EXCEPT !.status = IF op = "confirm" THEN "CONFIRMED" ELSE "CANCELLED",
                  !.cancelledAt = (op = "cancel")]

(* OrderRepository.GetByID with FOR UPDATE, assertOwner, and Order.Confirm or Order.Cancel on
   what was read.  The items of an order never change, so its two SELECTs are one step. *)
GetOrder(r) ==
    LET o == req[r].order
        found == [orders[o] EXCEPT !.quantity = ItemsRead(@, req[r].spelling),
                                   !.unitPrice = ItemsRead(@, req[r].spelling)]
        lines == IF req[r].op = "cancel" THEN {p \in Products : found.quantity[p] > 0} ELSE {}
    IN
    /\ pc[r] = "find"
    /\ \/ /\ orders[o].status = "NONE"
          /\ Abort(r, "ORDER_NOT_FOUND")
          /\ UNCHANGED locks
       \/ /\ orders[o].status # "NONE"
          /\ ForUpdateOrder(r, o)
          /\ UNCHANGED rowLock
          /\ \/ /\ found.user # req[r].user
                /\ Abort(r, "ORDER_NOT_OWNED")
             \/ /\ found.user = req[r].user
                /\ ~IsPending(found)
                /\ Abort(r, "ORDER_NOT_PENDING")
             \/ /\ found.user = req[r].user
                /\ IsPending(found)
                /\ draft' = [draft EXCEPT ![r] = Settled(found, req[r].op)]
                /\ todo' = [todo EXCEPT ![r] = lines]
                /\ Goto(r, IF lines = {} THEN "update" ELSE "restore")
                /\ UNCHANGED <<db, pool, req, delta, reply>>

(* UPDATE products SET stock = stock + $2 WHERE id = $1, for one item of the order. *)
IncrementStock(r) ==
    /\ pc[r] = "restore"
    /\ \E p \in todo[r] :
          LET q == draft[r].quantity[p] IN
          /\ First(p, todo[r])
          /\ TakeRow(r, p)
          /\ \/ /\ Visible(r, p) + q \in StockColumn
                /\ delta' = [delta EXCEPT ![r][p] = @ + q]
                /\ todo' = [todo EXCEPT ![r] = @ \ {p}]
                /\ Goto(r, IF todo[r] = {p} THEN "update" ELSE "restore")
                /\ UNCHANGED <<db, pool, req, draft, reply>>
             \/ /\ Visible(r, p) + q \notin StockColumn
                /\ Abort(r, "INTERNAL_ERROR")
    /\ UNCHANGED orderLock

UpdateStatus(r) ==
    /\ pc[r] = "update"
    /\ TakeOrder(r, req[r].order)
    /\ Goto(r, "commit")
    /\ UNCHANGED <<db, rowLock, pool, req, work, reply>>

-----------------------------------------------------------------------------
(* The end of a transaction *)

(* Variant: the transition saves the whole order as it was read. *)
WholeAggregate(r) == draft[r]

(* The row the transaction leaves: Insert wrote all of it, UpdateStatus two columns. *)
WrittenOrder(r) ==
    IF req[r].op = "create" THEN draft[r]
    ELSE [orders[req[r].order] EXCEPT !.status = draft[r].status,
                                      !.cancelledAt = draft[r].cancelledAt]

Commit(r, code) ==
    /\ pc[r] = "commit"
    /\ stock' = [p \in Products |-> Visible(r, p)]
    /\ orders' = [orders EXCEPT ![req[r].order] = WrittenOrder(r)]
    /\ reply' = [reply EXCEPT ![r] = code]
    /\ EndTx(r)
    /\ UNCHANGED price

CommitAcknowledged(r) == Commit(r, "OK")

(* The server commits and the connection breaks before the client library hears of it. *)
CommitUnacknowledged(r) == Commit(r, "INTERNAL_ERROR")

(* Variant: what the callback had done when it failed is committed. *)
CommitPartial(r) ==
    /\ pc[r] = "rollback"
    /\ stock' = [p \in Products |-> Visible(r, p)]
    /\ EndTx(r)
    /\ UNCHANGED <<price, orders, reply>>

Rollback(r) ==
    /\ pc[r] = "rollback"
    /\ EndTx(r)
    /\ UNCHANGED <<db, reply>>

(* Variant: the error of the commit is ignored. *)
FailIgnoringCommit(r) ==
    /\ pc[r] \in InCallback \cup {"commit"}
    /\ Abort(r, IF pc[r] = "commit" THEN "OK" ELSE "INTERNAL_ERROR")
    /\ UNCHANGED locks

(* Variant: a panic of the callback is not recovered by WithinTx, so nothing is rolled back. *)
FailWithoutRollback(r) ==
    /\ pc[r] \in InCallback \cup {"commit"}
    /\ Goto(r, "done")
    /\ reply' = [reply EXCEPT ![r] = "INTERNAL_ERROR"]
    /\ UNCHANGED <<db, locks, pool, req, work>>

(* A statement or the commit fails, the request's context is cancelled, the callback panics, or
   the process dies (then every open transaction fails).  The answer is an internal error. *)
Fail(r) ==
    /\ pc[r] \in InCallback \cup {"commit"}
    /\ Abort(r, "INTERNAL_ERROR")
    /\ UNCHANGED locks

(* The deadlock detector of the server breaks a cycle of waiters. *)
DeadlockVictim(r) ==
    /\ \E S \in SUBSET Requests : r \in S /\ Deadlock(S)
    /\ Abort(r, "INTERNAL_ERROR")
    /\ UNCHANGED locks

(* Nothing in the service writes prices; an operator may, in a transaction of one UPDATE. *)
Reprice(p) ==
    /\ rowLock[p] = None
    /\ \E x \in Prices \ {price[p]} : price' = [price EXCEPT ![p] = x]
    /\ UNCHANGED <<stock, orders, locks, pool, pc, req, work, reply>>

-----------------------------------------------------------------------------
(* Specification *)

(* What the server and the database do of their own accord once a request has arrived. *)
Serve(r) ==
    \/ Begin(r)
    \/ GetProduct(r)
    \/ DecrementStock(r)
    \/ InsertOrder(r)
    \/ GetOrder(r)
    \/ IncrementStock(r)
    \/ UpdateStatus(r)
    \/ CommitAcknowledged(r)
    \/ Rollback(r)
    \/ DeadlockVictim(r)

Next ==
    \/ \E r \in Requests :
          \/ ReceiveCreate(r)
          \/ ReceiveTransition(r)
          \/ BeginFails(r)
          \/ Serve(r)
          \/ CommitUnacknowledged(r)
          \/ Fail(r)
    \/ \E p \in Products : Reprice(p)

(* A goroutine that can run is run, a free connection goes to a waiter (pgxpool serves its
   waiters in turn) and a free row lock too (PostgreSQL queues them), so no step of Serve stays
   possible for ever without being taken. *)
Fairness == \A r \in Requests : WF_vars(Serve(r))

Safety == Init /\ [][Next]_vars
Spec == Safety /\ Fairness

-----------------------------------------------------------------------------
(* Properties *)

(* The type of every variable; in particular a committed stock and the quantities and prices of an
   order are what their columns hold, and the price of a line is one that a product had. *)
TypeOK ==
    /\ stock \in [Products -> 0..Int4Max]
    /\ price \in [Products -> Prices]
    /\ orders \in [Requests -> Order]
    /\ rowLock \in [Products -> Requests \cup {None}]
    /\ orderLock \in [Requests -> Requests \cup {None}]
    /\ pool \subseteq Requests
    /\ pc \in [Requests -> {"idle", "begin", "done"} \cup InTx]
    /\ req \in [Requests -> Input \cup {NoInput}]
    /\ todo \in [Requests -> SUBSET ProductRefs]
    /\ delta \in [Requests -> [Products -> Int]]
    /\ draft \in [Requests -> Order]
    /\ reply \in [Requests -> Replies \cup {"NONE"}]

(* The units of p that orders not cancelled hold. *)
HeldUnits(p) ==
    {u \in Requests \X (1..Int4Max) :
        /\ orders[u[1]].status \in {"PENDING", "CONFIRMED"}
        /\ u[2] <= orders[u[1]].quantity[p]}

Held(p) == Cardinality(HeldUnits(p))

(* No sequence of concurrent creates and cancels, failed or not, promises more units than there
   were: what Create takes under concurrency (order_usecase.go:58-73) and what Cancel gives back
   (126-130) never add up to more than the initial stock, however the client spells its ids. *)
NoOversell == \A p \in Products : stock[p] + Held(p) <= InitStock[p]

(* Units are neither lost nor invented: each is on the shelf or in one order that is not
   cancelled.  Create and Cancel are all or nothing (order_usecase.go:41-43, 112), whatever
   statement fails in between. *)
StockConserved == \A p \in Products : stock[p] + Held(p) = InitStock[p]

(* The canonical order of mergeLines (order_usecase.go:191-194) and of ORDER BY product_id
   (order_repo.go:133) keeps concurrent transactions from waiting for one another in a cycle. *)
NoWaitCycle == ~ \E S \in SUBSET Requests : Deadlock(S)

(* The unit price an order is created with is the product's price at the instant the order
   becomes visible: the lock of the row (product_repo.go:89-100) bridges the read of the
   price and the commit several statements later. *)
SoldAtCurrentPrice ==
    [][\A o \in Requests :
          orders[o].status = "NONE" /\ orders'[o].status # "NONE" =>
              \A p \in Products :
                  orders'[o].quantity[p] > 0 => orders'[o].unitPrice[p] = price'[p]]_vars

(* Of all the confirmations and cancellations of one order, however they interleave, at most one
   is told that it succeeded: the row lock of GetByID (order_repo.go:47-51) serialises them. *)
OneTransitionWins ==
    \A r, s \in Requests :
        /\ r # s
        /\ req[r].op \in {"confirm", "cancel"} /\ req[s].op \in {"confirm", "cancel"}
        /\ reply[r] = "OK" /\ reply[s] = "OK"
        => req[r].order # req[s].order

(* What the order of request r should hold of p: all lines of the basket that name p. *)
Requested(r, p) ==
    Cardinality({u \in (DOMAIN req[r].lines) \X (1..IntMax) :
        /\ ProductOf[req[r].lines[u[1]].ref] = p
        /\ u[2] <= req[r].lines[u[1]].quantity})

(* An order that exists holds, for each product, exactly the units its request asked for, with
   repeated lines added up (order_usecase.go:45-52, 176-177), and belongs to the caller. *)
OrderAsRequested ==
    \A o \in Requests :
        orders[o].status # "NONE" =>
            /\ req[o].op = "create"
            /\ orders[o].user = req[o].user
            /\ \A p \in Products : orders[o].quantity[p] = Requested(o, p)

(* The answer can be believed: success means that the effect is in the database, made for the
   owner of the order; a domain error or a rejected transition means that a create left no order.
   Only an internal error leaves the client in doubt (WithinTx, tx.go:55-62). *)
AnswerIsTrue ==
    \A r \in Requests : pc[r] = "done" =>
        /\ reply[r] = "OK" =>
              /\ orders[req[r].order].user = req[r].user
              /\ req[r].op = "create"  => orders[r].status # "NONE"
              /\ req[r].op = "confirm" => orders[req[r].order].status = "CONFIRMED"
              /\ req[r].op = "cancel"  => orders[req[r].order].status = "CANCELLED"
        /\ reply[r] \in DomainErrors => orders[r].status = "NONE"

(* A request that has been answered holds no row lock and no connection, on every path out of
   WithinTx (tx.go:39-62), panics and failed commits included; and the pool is never overdrawn. *)
NothingLeaks ==
    /\ \A r \in Requests : pc[r] \in {"idle", "begin", "done"} =>
          /\ r \notin pool
          /\ \A p \in Products : rowLock[p] # r
          /\ \A o \in Requests : orderLock[o] # r
    /\ Cardinality(pool) <= MaxConns

(* The history of an order is written once: it never disappears, its items, prices and owner
   never change, CONFIRMED and CANCELLED are final, and cancelled_at says which it was
   (order.go:60-78; README "Soft delete"). *)
HistoryIsKept ==
    [][\A o \in Requests :
          orders[o].status # "NONE" =>
              /\ orders'[o].quantity = orders[o].quantity
              /\ orders'[o].unitPrice = orders[o].unitPrice
              /\ orders'[o].user = orders[o].user
              /\ orders[o].status # "PENDING" => orders'[o] = orders[o]
              /\ orders'[o].cancelledAt <=> orders'[o].status = "CANCELLED"]_vars

(* Every request is answered: nobody waits for ever for a connection or for a row lock. *)
EveryRequestAnswered == \A r \in Requests : pc[r] = "begin" ~> pc[r] = "done"

(* The service implements the sequential order book: each transaction takes effect at one
   instant, its commit, on the state of that instant. *)
Book == INSTANCE OrderBook WITH OrderIds <- Requests
ImplementsOrderBook == Book!Spec

=============================================================================
