-------------------------- MODULE OrderServiceProofs --------------------------
(***************************************************************************)
(* Theorems about OrderService for every set of requests, products,        *)
(* baskets, spellings and prices, with proofs checked by TLAPS.            *)
(***************************************************************************)
EXTENDS OrderService, FiniteSetTheorems, TLAPS

USE DEF InTx, InCallback

(* What a request asks for is fixed once it has arrived, and the references its next statement
   uses name rows of products. *)
RequestInv ==
    \A r \in Requests :
        /\ pc[r] # "idle" => req[r] \in Input
        /\ pc[r] = "restore" =>
              \A p \in todo[r] : p \in Products /\ draft[r].quantity[p] > 0
        /\ pc[r] = "decrement" =>
              \A ref \in todo[r] : First(ref, todo[r]) => ProductOf[ref] \in Products

(* A transaction changes a stock only under the lock of its row. *)
LockInv ==
    \A r \in Requests, p \in Products : delta[r][p] # 0 => rowLock[p] = r

(* What a transaction would leave in a stock column fits in it. *)
VisibleInv ==
    \A r \in Requests, p \in Products : Visible(r, p) \in 0..Int4Max

Inv == TypeOK /\ RequestInv /\ LockInv /\ VisibleInv

-----------------------------------------------------------------------------

LEMMA ConstantFacts ==
    /\ NoItems \in [Products -> Nat]
    /\ NoItems \in [Products -> Int]
    /\ \A p \in Products : NoItems[p] = 0
    /\ NoOrder \in Order
    /\ Int4Max \in Nat
    /\ NoItems \in [Products -> Int4] /\ NoItems \in [Products -> Prices \cup {0}]
    /\ Int4 \subseteq Int /\ Prices \cup {0} \subseteq Nat
    /\ None \notin Requests /\ None \notin Products
BY ConstantsAssumption DEF NoItems, NoOrder, Order, Statuses, Int4

(* Which assignments to the columns of an order make an order. *)
LEMMA OrderFields ==
    ASSUME NEW d \in Order, NEW p \in Products
    PROVE  /\ \A x \in Prices \cup {0} : [d EXCEPT !.unitPrice[p] = x] \in Order
           /\ \A q \in Int4 : [d EXCEPT !.quantity[p] = q] \in Order
           /\ \A s \in Statuses, u \in Users \cup {None} :
                 [d EXCEPT !.status = s, !.user = u] \in Order
BY DEF Order

(* Quantities and prices are numbers. *)
LEMMA OrderNumbers ==
    ASSUME NEW d \in Order, NEW p \in Products
    PROVE  d.quantity[p] \in Int /\ d.unitPrice[p] \in Nat
<1>1. d.quantity[p] \in Int4 /\ d.unitPrice[p] \in Prices \cup {0}
  BY DEF Order
<1> QED
  BY <1>1, ConstantFacts

LEMMA InvInit == Init => Inv
<1> SUFFICES ASSUME Init PROVE Inv
  OBVIOUS
<1>1. TypeOK
  BY ConstantsAssumption, ConstantFacts DEF Init, TypeOK
<1>2. RequestInv
  BY DEF Init, RequestInv
<1>3. LockInv
  BY ConstantFacts DEF Init, LockInv
<1>4. VisibleInv
  BY ConstantsAssumption, ConstantFacts DEF Init, VisibleInv, Visible
<1> QED
  BY <1>1, <1>2, <1>3, <1>4 DEF Inv

(* An error of the callback changes nothing but where the request is and what it answers. *)
LEMMA AbortStep ==
    ASSUME Inv, NEW r \in Requests, NEW code \in Replies, pc[r] # "idle",
           Abort(r, code),
           rowLock' \in [Products -> Requests \cup {None}],
           orderLock' \in [Requests -> Requests \cup {None}],
           \A p \in Products : rowLock[p] = r => rowLock'[p] = r,
           \A p \in Products : rowLock[p] # r => rowLock'[p] = rowLock[p] \/ rowLock[p] = None
    PROVE  Inv'
<1>1. TypeOK'
  BY DEF Inv, TypeOK, Abort, Goto, db, work
<1>2. RequestInv'
  BY DEF Inv, TypeOK, RequestInv, Abort, Goto, work
<1>3. LockInv'
  <2>1. delta' = delta
    BY DEF Abort, work
  <2> SUFFICES ASSUME NEW s \in Requests, NEW p \in Products, delta[s][p] # 0
               PROVE  rowLock'[p] = s
    BY <2>1 DEF LockInv
  <2>2. rowLock[p] = s
    BY DEF Inv, LockInv
  <2> QED
    BY <2>2, ConstantFacts
<1>4. VisibleInv'
  BY DEF Inv, VisibleInv, Visible, Abort, db, work
<1> QED
  BY <1>1, <1>2, <1>3, <1>4 DEF Inv

(* Steps that leave the transaction's work and the locks alone. *)
LEMMA ReceiveCreateStep ==
    ASSUME Inv, NEW r \in Requests, ReceiveCreate(r) PROVE Inv'
<1> USE DEF ReceiveCreate, Goto, db, locks
<1>0. PICK user \in Users, lines \in Baskets :
          /\ req' = [req EXCEPT ![r] = [op |-> "create", user |-> user, lines |-> lines,
                                        order |-> r, spelling |-> "canonical"]]
          /\ \/ /\ Rejection(lines) # "NONE"
                /\ reply' = [reply EXCEPT ![r] = Rejection(lines)]
                /\ pc' = [pc EXCEPT ![r] = "done"]
                /\ UNCHANGED todo
             \/ /\ Rejection(lines) = "NONE"
                /\ todo' = [todo EXCEPT ![r] = Refs(lines)]
                /\ pc' = [pc EXCEPT ![r] = "begin"]
                /\ UNCHANGED reply
  OBVIOUS
<1>1. [op |-> "create", user |-> user, lines |-> lines, order |-> r,
       spelling |-> "canonical"] \in Input
  BY DEF Input, Operations
<1>2. Refs(lines) \subseteq ProductRefs
  <2>1. lines \in Seq(Line)
    BY ConstantsAssumption
  <2>2. \A i \in DOMAIN lines : lines[i] \in Line
    BY <2>1
  <2> QED
    BY <2>2 DEF Refs, Line
<1>3. TypeOK'
  <2>1. req' \in [Requests -> Input \cup {NoInput}]
    BY <1>0, <1>1 DEF Inv, TypeOK
  <2>3. todo' \in [Requests -> SUBSET ProductRefs]
    BY <1>0, <1>2 DEF Inv, TypeOK
  <2>4. pc' \in [Requests -> {"idle", "begin", "done"} \cup InTx]
    BY <1>0 DEF Inv, TypeOK
  <2>2. reply' \in [Requests -> Replies \cup {"NONE"}]
    BY <1>0 DEF Inv, TypeOK, Rejection, Replies, DomainErrors
  <2> QED
    BY <2>1, <2>2, <2>3, <2>4 DEF Inv, TypeOK
<1>4. RequestInv'
  BY <1>0, <1>1 DEF Inv, TypeOK, RequestInv
<1>5. LockInv' /\ VisibleInv'
  BY DEF Inv, LockInv, VisibleInv, Visible
<1> QED
  BY <1>3, <1>4, <1>5 DEF Inv

LEMMA ReceiveTransitionStep ==
    ASSUME Inv, NEW r \in Requests, ReceiveTransition(r) PROVE Inv'
<1> USE DEF ReceiveTransition, Goto, db, locks, work
<1>0. PICK op \in {"confirm", "cancel"}, user \in Users, o \in Requests, s \in Spellings :
          req' = [req EXCEPT ![r] = [op |-> op, user |-> user, lines |-> << >>,
                                     order |-> o, spelling |-> s]]
  OBVIOUS
<1>1. [op |-> op, user |-> user, lines |-> << >>, order |-> o, spelling |-> s] \in Input
  BY DEF Input, Operations
<1>2. TypeOK'
  BY <1>0, <1>1 DEF Inv, TypeOK
<1>3. RequestInv'
  BY <1>0, <1>1 DEF Inv, TypeOK, RequestInv
<1>4. LockInv' /\ VisibleInv'
  BY DEF Inv, LockInv, VisibleInv, Visible
<1> QED
  BY <1>2, <1>3, <1>4 DEF Inv

LEMMA BeginStep ==
    ASSUME Inv, NEW r \in Requests, Begin(r) \/ BeginFails(r) PROVE Inv'
<1> USE DEF Begin, BeginFails, Goto, db, locks, work
<1>1. TypeOK'
  BY DEF Inv, TypeOK, Replies
<1>2. RequestInv'
  BY DEF Inv, TypeOK, RequestInv
<1>3. LockInv' /\ VisibleInv'
  BY DEF Inv, LockInv, VisibleInv, Visible
<1> QED
  BY <1>1, <1>2, <1>3 DEF Inv

-----------------------------------------------------------------------------
(* Row locks *)

LEMMA TakeRowFacts ==
    ASSUME Inv, NEW r \in Requests, NEW p, TakeRow(r, p)
    PROVE  /\ rowLock' \in [Products -> Requests \cup {None}]
           /\ \A x \in Products : rowLock[x] = r => rowLock'[x] = r
           /\ \A x \in Products :
                 rowLock[x] # r => rowLock'[x] = rowLock[x] \/ rowLock[x] = None
           /\ p \in Products => rowLock'[p] = r
BY DEF Inv, TypeOK, TakeRow, Free

LEMMA TakeOrderFacts ==
    ASSUME Inv, NEW r \in Requests, NEW o, TakeOrder(r, o)
    PROVE  orderLock' \in [Requests -> Requests \cup {None}]
BY DEF Inv, TypeOK, TakeOrder

(* Whoever holds the lock of a row, a transaction with changes on it included, still does. *)
LEMMA LockInvKept ==
    ASSUME Inv, NEW r \in Requests, NEW p, TakeRow(r, p),
           \A s \in Requests, x \in Products :
               s # r \/ x # p => delta'[s][x] = delta[s][x]
    PROVE  LockInv'
<1> SUFFICES ASSUME NEW s \in Requests, NEW x \in Products, delta'[s][x] # 0
             PROVE  rowLock'[x] = s
  BY DEF LockInv
<1>1. CASE s = r /\ x = p
  BY <1>1, TakeRowFacts
<1>2. CASE s # r \/ x # p
  <2>1. rowLock[x] = s
    BY <1>2 DEF Inv, LockInv
  <2> QED
    BY <2>1, TakeRowFacts, ConstantFacts
<1> QED
  BY <1>1, <1>2

-----------------------------------------------------------------------------
(* createOrder *)

LEMMA GetProductStep ==
    ASSUME Inv, NEW r \in Requests, GetProduct(r) PROVE Inv'
<1>0. PICK ref \in todo[r] :
          /\ pc[r] = "read"
          /\ First(ref, todo[r])
          /\ \/ /\ ProductOf[ref] = None
                /\ Abort(r, "PRODUCT_NOT_FOUND")
                /\ UNCHANGED locks
             \/ /\ ProductOf[ref] # None
                /\ TakeRow(r, ProductOf[ref])
                /\ draft' = [draft EXCEPT ![r].unitPrice[ProductOf[ref]] =
                                              price[ProductOf[ref]]]
                /\ pc' = [pc EXCEPT ![r] = "decrement"]
                /\ UNCHANGED <<db, orderLock, pool, req, todo, delta, reply>>
  BY DEF GetProduct, ForUpdate, Goto, UnitPrice
<1>1. CASE ProductOf[ref] = None
  <2>1. Abort(r, "PRODUCT_NOT_FOUND") /\ UNCHANGED locks
    BY <1>0, <1>1
  <2> QED
    BY <1>0, <2>1, AbortStep DEF Inv, TypeOK, locks, Replies, DomainErrors
<1>2. CASE ProductOf[ref] # None
  <2> DEFINE p == ProductOf[ref]
  <2>1. p \in Products
    BY <1>2, ConstantsAssumption DEF Inv, TypeOK
  <2>2. price[p] \in Prices
    BY <2>1 DEF Inv, TypeOK
  <2>3. /\ TakeRow(r, p)
        /\ draft' = [draft EXCEPT ![r].unitPrice[p] = price[p]]
        /\ pc' = [pc EXCEPT ![r] = "decrement"]
        /\ UNCHANGED <<db, orderLock, pool, req, todo, delta, reply>>
    BY <1>0, <1>2
  <2>4. draft' \in [Requests -> Order]
    <3>1. draft \in [Requests -> Order] /\ draft[r] \in Order
      BY DEF Inv, TypeOK
    <3>2. [draft[r] EXCEPT !.unitPrice[p] = price[p]] \in Order
      BY <2>1, <2>2, <3>1, OrderFields
    <3>3. draft' = [draft EXCEPT ![r] = [draft[r] EXCEPT !.unitPrice[p] = price[p]]]
      BY <2>3
    <3> QED
      BY <3>1, <3>2, <3>3
  <2>5. TypeOK'
    BY <2>3, <2>4, TakeRowFacts DEF Inv, TypeOK, db
  <2>6. RequestInv'
    <3>1. \A x \in todo[r] : First(x, todo[r]) => x = ref
      BY <1>0, ConstantsAssumption DEF Inv, TypeOK, First
    <3> QED
      BY <2>1, <2>3, <1>0, <3>1 DEF Inv, TypeOK, RequestInv
  <2>7. LockInv'
    BY <2>3, LockInvKept
  <2>8. VisibleInv'
    BY <2>3 DEF Inv, VisibleInv, Visible, db
  <2> QED
    BY <2>5, <2>6, <2>7, <2>8 DEF Inv
<1> QED
  BY <1>1, <1>2

LEMMA DecrementStockStep ==
    ASSUME Inv, NEW r \in Requests, DecrementStock(r) PROVE Inv'
<1>0. PICK ref \in todo[r] :
        LET p == ProductOf[ref]
            q == MergedQuantity(req[r].lines, ref)
            left == Visible(r, p) - q
        IN
          /\ pc[r] = "decrement"
          /\ orderLock' = orderLock
          /\ First(ref, todo[r])
          /\ TakeRow(r, p)
          /\ \/ /\ q \in Int4
                /\ Visible(r, p) >= q
                /\ left \in StockColumn
                /\ delta' = [delta EXCEPT ![r][p] = @ - q]
                /\ draft' = [draft EXCEPT ![r].quantity[p] = q]
                /\ todo' = [todo EXCEPT ![r] = @ \ {ref}]
                /\ pc' = [pc EXCEPT ![r] = IF todo[r] = {ref} THEN "insert" ELSE "read"]
                /\ UNCHANGED <<db, pool, req, reply>>
             \/ Abort(r, "INSUFFICIENT_STOCK")
             \/ Abort(r, "INTERNAL_ERROR")
  BY DEF DecrementStock, Goto, Enough
<1> DEFINE p == ProductOf[ref]
           q == MergedQuantity(req[r].lines, ref)
<1>1. CASE Abort(r, "INSUFFICIENT_STOCK") \/ Abort(r, "INTERNAL_ERROR")
  BY <1>0, <1>1, AbortStep, TakeRowFacts DEF Inv, TypeOK, Replies, DomainErrors
<1>2. CASE /\ q \in Int4
           /\ Visible(r, p) >= q
           /\ Visible(r, p) - q \in StockColumn
           /\ delta' = [delta EXCEPT ![r][p] = @ - q]
           /\ draft' = [draft EXCEPT ![r].quantity[p] = q]
           /\ todo' = [todo EXCEPT ![r] = @ \ {ref}]
           /\ pc' = [pc EXCEPT ![r] = IF todo[r] = {ref} THEN "insert" ELSE "read"]
           /\ UNCHANGED <<db, pool, req, reply>>
  <2>1. p \in Products
    BY <1>0 DEF Inv, RequestInv
  <2>2. q \in Int4 /\ q \in Int
    BY <1>2, ConstantFacts
  <2> HIDE DEF p, q
  <2>3. TakeRow(r, p)
    BY <1>0 DEF p
  <2>4. TypeOK'
    <3>1. draft' \in [Requests -> Order]
      <4>1. draft \in [Requests -> Order] /\ draft[r] \in Order
        BY DEF Inv, TypeOK
      <4>2. [draft[r] EXCEPT !.quantity[p] = q] \in Order
        BY <2>1, <2>2, <4>1, OrderFields
      <4>3. draft' = [draft EXCEPT ![r] = [draft[r] EXCEPT !.quantity[p] = q]]
        BY <1>2
      <4> QED
        BY <4>1, <4>2, <4>3
    <3>2. delta' \in [Requests -> [Products -> Int]]
      BY <1>2, <2>1, <2>2 DEF Inv, TypeOK
    <3>3. /\ todo' \in [Requests -> SUBSET ProductRefs]
          /\ pc' \in [Requests -> {"idle", "begin", "done"} \cup InTx]
      BY <1>2 DEF Inv, TypeOK
    <3> QED
      BY <1>0, <1>2, <2>3, <3>1, <3>2, <3>3, TakeRowFacts DEF Inv, TypeOK, db
  <2>5. RequestInv'
    BY <1>0, <1>2 DEF Inv, TypeOK, RequestInv
  <2>6. LockInv'
    <3>1. \A s \in Requests, x \in Products :
               s # r \/ x # p => delta'[s][x] = delta[s][x]
      BY <1>2 DEF Inv, TypeOK
    <3> QED
      BY <2>3, <3>1, LockInvKept
  <2>7. VisibleInv'
    <3> SUFFICES ASSUME NEW s \in Requests, NEW x \in Products
                 PROVE  Visible(s, x)' \in 0..Int4Max
      BY DEF VisibleInv
    <3>1. Visible(s, x) \in 0..Int4Max
      BY DEF Inv, VisibleInv
    <3>2. stock' = stock /\ stock[x] \in Int /\ delta[s][x] \in Int
      BY <1>2, ConstantFacts DEF db, Inv, TypeOK
    <3>3. CASE s = r /\ x = p
      <4>1. delta'[s][x] = delta[s][x] - q
        BY <1>2, <3>3, <2>1 DEF Inv, TypeOK
      <4> QED
        BY <4>1, <3>1, <3>2, <3>3, <1>2, <2>2, ConstantFacts DEF Visible, StockColumn
    <3>4. CASE s # r \/ x # p
      <4>1. delta'[s][x] = delta[s][x]
        BY <1>2, <3>4 DEF Inv, TypeOK
      <4> QED
        BY <4>1, <3>1, <3>2 DEF Visible
    <3> QED
      BY <3>3, <3>4
  <2> QED
    BY <2>4, <2>5, <2>6, <2>7 DEF Inv
<1> QED
  BY <1>0, <1>1, <1>2

LEMMA InsertOrderStep ==
    ASSUME Inv, NEW r \in Requests, InsertOrder(r) PROVE Inv'
<1>1. CASE Abort(r, "INVALID_QUANTITY") \/ Abort(r, "INTERNAL_ERROR")
  BY <1>1, AbortStep DEF InsertOrder, locks, Inv, TypeOK, Replies, DomainErrors
<1>2. CASE /\ draft' = [draft EXCEPT ![r].status = "PENDING", ![r].user = req[r].user]
           /\ Goto(r, "commit")
           /\ UNCHANGED <<db, pool, req, todo, delta, reply>>
  <2>1. pc[r] = "insert" /\ UNCHANGED locks
    BY DEF InsertOrder
  <2>2. draft' \in [Requests -> Order]
    <3>1. req[r] \in Input /\ req[r].user \in Users
      BY <2>1 DEF Inv, RequestInv, Input
    <3>2. draft \in [Requests -> Order] /\ draft[r] \in Order
      BY DEF Inv, TypeOK
    <3>3. [draft[r] EXCEPT !.status = "PENDING", !.user = req[r].user] \in Order
      BY <3>1, <3>2 DEF Order, Statuses
    <3>4. draft' = [draft EXCEPT ![r] =
                      [draft[r] EXCEPT !.status = "PENDING", !.user = req[r].user]]
      BY <1>2
    <3> QED
      BY <3>2, <3>3, <3>4
  <2>3. TypeOK'
    BY <1>2, <2>1, <2>2 DEF Inv, TypeOK, Goto, db, locks
  <2>4. RequestInv'
    BY <1>2, <2>1 DEF Inv, TypeOK, RequestInv, Goto
  <2>5. LockInv' /\ VisibleInv'
    BY <1>2, <2>1 DEF Inv, LockInv, VisibleInv, Visible, db, locks
  <2> QED
    BY <2>3, <2>4, <2>5 DEF Inv
<1> QED
  BY <1>1, <1>2 DEF InsertOrder

-----------------------------------------------------------------------------
(* confirmOrder and cancelOrder *)

LEMMA ItemsReadFacts ==
    ASSUME NEW d \in Order, NEW spelling
    PROVE  [d EXCEPT !.quantity = ItemsRead(@, spelling),
                     !.unitPrice = ItemsRead(@, spelling)] \in Order
<1>1. /\ ItemsRead(d.quantity, spelling) \in [Products -> Int4]
      /\ ItemsRead(d.unitPrice, spelling) \in [Products -> Prices \cup {0}]
  BY ConstantFacts DEF ItemsRead, Order
<1> QED
  BY <1>1 DEF Order

LEMMA GetOrderStep ==
    ASSUME Inv, NEW r \in Requests, GetOrder(r) PROVE Inv'
<1> DEFINE o == req[r].order
           found == [orders[o] EXCEPT !.quantity = ItemsRead(@, req[r].spelling),
                                      !.unitPrice = ItemsRead(@, req[r].spelling)]
           lines == IF req[r].op = "cancel" THEN {p \in Products : found.quantity[p] > 0}
                    ELSE {}
<1>0. pc[r] = "find"
  BY DEF GetOrder
<1>1. req[r] \in Input /\ o \in Requests
  BY <1>0 DEF Inv, RequestInv, Input
<1>2. CASE Abort(r, "ORDER_NOT_FOUND") /\ UNCHANGED locks
  BY <1>0, <1>2, AbortStep DEF locks, Inv, TypeOK, Replies, DomainErrors
<1>3. CASE /\ TakeOrder(r, o) /\ UNCHANGED rowLock
           /\ Abort(r, "ORDER_NOT_OWNED") \/ Abort(r, "ORDER_NOT_PENDING")
  <2>1. orderLock' \in [Requests -> Requests \cup {None}]
    BY <1>3, TakeOrderFacts
  <2> QED
    BY <1>0, <1>3, <2>1, AbortStep DEF Inv, TypeOK, Replies, DomainErrors
<1>4. CASE /\ TakeOrder(r, o) /\ UNCHANGED rowLock
           /\ draft' = [draft EXCEPT ![r] = Settled(found, req[r].op)]
           /\ todo' = [todo EXCEPT ![r] = lines]
           /\ Goto(r, IF lines = {} THEN "update" ELSE "restore")
           /\ UNCHANGED <<db, pool, req, delta, reply>>
  <2>1. found \in Order
    BY <1>1, ItemsReadFacts DEF Inv, TypeOK
  <2>2. lines \subseteq Products
    OBVIOUS
  <2> HIDE DEF found, lines
  <2>3. Settled(found, req[r].op) \in Order
    BY <2>1 DEF Settled, Order, Statuses
  <2>4. lines \subseteq ProductRefs
    BY <2>2, ConstantsAssumption
  <2>5. TypeOK'
    BY <1>4, <2>3, <2>4, TakeOrderFacts DEF Inv, TypeOK, Goto, db
  <2>6. RequestInv'
    <3>1. draft'[r].quantity = found.quantity
      BY <1>4, <2>1 DEF Settled, Order, Inv, TypeOK
    <3>2. \A p \in lines : p \in Products /\ found.quantity[p] > 0
      BY DEF lines
    <3> QED
      BY <1>0, <1>4, <3>1, <3>2 DEF Inv, TypeOK, RequestInv, Goto
  <2>7. LockInv' /\ VisibleInv'
    BY <1>4 DEF Inv, LockInv, VisibleInv, Visible, db
  <2> QED
    BY <2>5, <2>6, <2>7 DEF Inv
<1> HIDE DEF found, lines
<1> QED
  BY <1>2, <1>3, <1>4 DEF GetOrder, ForUpdateOrder, found, lines

LEMMA IncrementStockStep ==
    ASSUME Inv, NEW r \in Requests, IncrementStock(r) PROVE Inv'
<1>0. PICK p \in todo[r] :
          /\ pc[r] = "restore"
          /\ orderLock' = orderLock
          /\ TakeRow(r, p)
          /\ \/ /\ Visible(r, p) + draft[r].quantity[p] \in StockColumn
                /\ delta' = [delta EXCEPT ![r][p] = @ + draft[r].quantity[p]]
                /\ todo' = [todo EXCEPT ![r] = @ \ {p}]
                /\ pc' = [pc EXCEPT ![r] = IF todo[r] = {p} THEN "update" ELSE "restore"]
                /\ UNCHANGED <<db, pool, req, draft, reply>>
             \/ Abort(r, "INTERNAL_ERROR")
  BY DEF IncrementStock, Goto
<1>1. CASE Abort(r, "INTERNAL_ERROR")
  BY <1>0, <1>1, AbortStep, TakeRowFacts DEF Inv, TypeOK, Replies
<1> DEFINE q == draft[r].quantity[p]
<1>2. CASE /\ Visible(r, p) + q \in StockColumn
           /\ delta' = [delta EXCEPT ![r][p] = @ + q]
           /\ todo' = [todo EXCEPT ![r] = @ \ {p}]
           /\ pc' = [pc EXCEPT ![r] = IF todo[r] = {p} THEN "update" ELSE "restore"]
           /\ UNCHANGED <<db, pool, req, draft, reply>>
  <2>1. p \in Products /\ q > 0
    BY <1>0 DEF Inv, RequestInv
  <2>2. q \in Int
    BY <2>1, OrderNumbers DEF Inv, TypeOK
  <2> HIDE DEF q
  <2>3. TypeOK'
    <3>1. delta' \in [Requests -> [Products -> Int]]
      BY <1>2, <2>1, <2>2 DEF Inv, TypeOK
    <3>2. /\ todo' \in [Requests -> SUBSET ProductRefs]
          /\ pc' \in [Requests -> {"idle", "begin", "done"} \cup InTx]
      BY <1>2 DEF Inv, TypeOK
    <3> QED
      BY <1>0, <1>2, <3>1, <3>2, TakeRowFacts DEF Inv, TypeOK, db
  <2>4. RequestInv'
    BY <1>0, <1>2 DEF Inv, TypeOK, RequestInv
  <2>5. LockInv'
    <3>1. \A s \in Requests, x \in Products :
               s # r \/ x # p => delta'[s][x] = delta[s][x]
      BY <1>2 DEF Inv, TypeOK
    <3> QED
      BY <1>0, <3>1, LockInvKept
  <2>6. VisibleInv'
    <3> SUFFICES ASSUME NEW s \in Requests, NEW x \in Products
                 PROVE  Visible(s, x)' \in 0..Int4Max
      BY DEF VisibleInv
    <3>1. Visible(s, x) \in 0..Int4Max
      BY DEF Inv, VisibleInv
    <3>2. stock' = stock /\ stock[x] \in Int /\ delta[s][x] \in Int
      BY <1>2, ConstantFacts DEF db, Inv, TypeOK
    <3>3. CASE s = r /\ x = p
      <4>1. delta'[s][x] = delta[s][x] + q
        BY <1>2, <3>3, <2>1 DEF Inv, TypeOK
      <4> QED
        BY <4>1, <3>1, <3>2, <3>3, <1>2, <2>1, <2>2, ConstantFacts DEF Visible, StockColumn
    <3>4. CASE s # r \/ x # p
      <4>1. delta'[s][x] = delta[s][x]
        BY <1>2, <3>4 DEF Inv, TypeOK
      <4> QED
        BY <4>1, <3>1, <3>2 DEF Visible
    <3> QED
      BY <3>3, <3>4
  <2> QED
    BY <2>3, <2>4, <2>5, <2>6 DEF Inv
<1> QED
  BY <1>0, <1>1, <1>2

LEMMA UpdateStatusStep ==
    ASSUME Inv, NEW r \in Requests, UpdateStatus(r) PROVE Inv'
<1>1. TypeOK'
  BY TakeOrderFacts DEF UpdateStatus, Goto, Inv, TypeOK, db, work
<1>2. RequestInv'
  BY DEF UpdateStatus, Goto, Inv, TypeOK, RequestInv, work
<1>3. LockInv' /\ VisibleInv'
  BY DEF UpdateStatus, Inv, LockInv, VisibleInv, Visible, db, work
<1> QED
  BY <1>1, <1>2, <1>3 DEF Inv

-----------------------------------------------------------------------------
(* The end of a transaction *)

(* Rollback, and everything of a commit but the rows it leaves. *)
LEMMA EndTxFacts ==
    ASSUME Inv, NEW r \in Requests, pc[r] # "idle", EndTx(r)
    PROVE  /\ rowLock' \in [Products -> Requests \cup {None}]
           /\ orderLock' \in [Requests -> Requests \cup {None}]
           /\ pool' \subseteq Requests
           /\ pc' \in [Requests -> {"idle", "begin", "done"} \cup InTx]
           /\ todo' \in [Requests -> SUBSET ProductRefs]
           /\ delta' \in [Requests -> [Products -> Int]]
           /\ draft' \in [Requests -> Order]
           /\ RequestInv'
           /\ LockInv'
<1> USE DEF EndTx, ReleaseLocks, ReleaseConnection, Goto
<1>1. /\ rowLock' \in [Products -> Requests \cup {None}]
      /\ orderLock' \in [Requests -> Requests \cup {None}]
      /\ pool' \subseteq Requests
      /\ pc' \in [Requests -> {"idle", "begin", "done"} \cup InTx]
      /\ todo' \in [Requests -> SUBSET ProductRefs]
      /\ delta' \in [Requests -> [Products -> Int]]
      /\ draft' \in [Requests -> Order]
  BY ConstantFacts DEF Inv, TypeOK
<1>2. RequestInv'
  BY DEF Inv, TypeOK, RequestInv
<1>3. LockInv'
  BY ConstantFacts DEF Inv, TypeOK, LockInv
<1> QED
  BY <1>1, <1>2, <1>3

LEMMA CommitStep ==
    ASSUME Inv, NEW r \in Requests, NEW code \in Replies, Commit(r, code) PROVE Inv'
<1>0. /\ pc[r] = "commit" /\ EndTx(r)
      /\ stock' = [p \in Products |-> Visible(r, p)]
      /\ orders' = [orders EXCEPT ![req[r].order] = WrittenOrder(r)]
      /\ reply' = [reply EXCEPT ![r] = code]
      /\ price' = price /\ req' = req
  BY DEF Commit, EndTx
<1>1. req[r].order \in Requests
  BY <1>0 DEF Inv, RequestInv, Input
<1>2. WrittenOrder(r) \in Order
  <2>1. orders[req[r].order] \in Order /\ draft[r] \in Order
    BY <1>1 DEF Inv, TypeOK
  <2>2. [orders[req[r].order] EXCEPT !.status = draft[r].status,
                                     !.cancelledAt = draft[r].cancelledAt] \in Order
    <3>1. draft[r].status \in Statuses /\ draft[r].cancelledAt \in BOOLEAN
      BY <2>1 DEF Order
    <3> QED
      BY <2>1, <3>1 DEF Order
  <2> QED
    BY <2>1, <2>2 DEF WrittenOrder
<1>3. TypeOK'
  <2>1. stock' \in [Products -> 0..Int4Max]
    BY <1>0 DEF Inv, VisibleInv
  <2>2. orders' \in [Requests -> Order]
    BY <1>0, <1>2 DEF Inv, TypeOK
  <2> QED
    BY <1>0, <2>1, <2>2, EndTxFacts DEF Inv, TypeOK
<1>4. VisibleInv'
  <2> SUFFICES ASSUME NEW s \in Requests, NEW x \in Products
               PROVE  Visible(s, x)' \in 0..Int4Max
    BY DEF VisibleInv
  <2>1. /\ Visible(r, x) \in 0..Int4Max /\ Visible(s, x) \in 0..Int4Max
        /\ stock'[x] = Visible(r, x)
        /\ stock[x] \in Int /\ delta[s][x] \in Int /\ delta[r][x] \in Int
    BY <1>0, ConstantFacts DEF Inv, VisibleInv, TypeOK
  <2>2. CASE s = r
    <3>1. delta'[s][x] = 0
      BY <2>2, ConstantFacts, <1>0 DEF EndTx, Inv, TypeOK
    <3> QED
      BY <2>1, <3>1, ConstantFacts DEF Visible
  <2>3. CASE s # r
    <3>1. delta'[s][x] = delta[s][x]
      BY <2>3, <1>0 DEF EndTx, Inv, TypeOK
    <3>2. delta[r][x] = 0 \/ delta[s][x] = 0
      BY <2>3 DEF Inv, LockInv
    <3> QED
      BY <2>1, <3>1, <3>2, ConstantFacts DEF Visible
  <2> QED
    BY <2>2, <2>3
<1> QED
  BY <1>0, <1>3, <1>4, EndTxFacts DEF Inv

LEMMA RollbackStep ==
    ASSUME Inv, NEW r \in Requests, Rollback(r) PROVE Inv'
<1>1. pc[r] = "rollback" /\ EndTx(r) /\ UNCHANGED <<db, reply>> /\ req' = req
  BY DEF Rollback, EndTx
<1>2. TypeOK'
  BY <1>1, EndTxFacts DEF Inv, TypeOK, db
<1>3. VisibleInv'
  BY <1>1, ConstantFacts DEF Inv, TypeOK, VisibleInv, Visible, EndTx, db
<1> QED
  BY <1>1, <1>2, <1>3, EndTxFacts DEF Inv

LEMMA FailStep ==
    ASSUME Inv, NEW r \in Requests, Fail(r) \/ DeadlockVictim(r) PROVE Inv'
<1>1. Abort(r, "INTERNAL_ERROR") /\ UNCHANGED locks
  BY DEF Fail, DeadlockVictim
<1>2. pc[r] # "idle"
  BY DEF Fail, DeadlockVictim, Deadlock, Awaits
<1> QED
  BY <1>1, <1>2, AbortStep DEF Inv, TypeOK, locks, Replies

LEMMA RepriceStep ==
    ASSUME Inv, NEW p \in Products, Reprice(p) PROVE Inv'
<1>1. TypeOK'
  BY DEF Reprice, Inv, TypeOK, locks, work
<1>2. RequestInv' /\ LockInv' /\ VisibleInv'
  BY DEF Reprice, Inv, RequestInv, LockInv, VisibleInv, Visible, locks, work
<1> QED
  BY <1>1, <1>2 DEF Inv

LEMMA InvStep == Inv /\ [Next]_vars => Inv'
<1> SUFFICES ASSUME Inv, [Next]_vars PROVE Inv'
  OBVIOUS
<1>1. ASSUME NEW r \in Requests, ReceiveCreate(r) PROVE Inv'
  BY <1>1, ReceiveCreateStep
<1>2. ASSUME NEW r \in Requests, ReceiveTransition(r) PROVE Inv'
  BY <1>2, ReceiveTransitionStep
<1>3. ASSUME NEW r \in Requests, Begin(r) \/ BeginFails(r) PROVE Inv'
  BY <1>3, BeginStep
<1>4. ASSUME NEW r \in Requests, GetProduct(r) PROVE Inv'
  BY <1>4, GetProductStep
<1>5. ASSUME NEW r \in Requests, DecrementStock(r) PROVE Inv'
  BY <1>5, DecrementStockStep
<1>6. ASSUME NEW r \in Requests, InsertOrder(r) PROVE Inv'
  BY <1>6, InsertOrderStep
<1>7. ASSUME NEW r \in Requests, GetOrder(r) PROVE Inv'
  BY <1>7, GetOrderStep
<1>8. ASSUME NEW r \in Requests, IncrementStock(r) PROVE Inv'
  BY <1>8, IncrementStockStep
<1>9. ASSUME NEW r \in Requests, UpdateStatus(r) PROVE Inv'
  BY <1>9, UpdateStatusStep
<1>10. ASSUME NEW r \in Requests, CommitAcknowledged(r) \/ CommitUnacknowledged(r) PROVE Inv'
  BY <1>10, CommitStep DEF CommitAcknowledged, CommitUnacknowledged, Replies
<1>11. ASSUME NEW r \in Requests, Rollback(r) PROVE Inv'
  BY <1>11, RollbackStep
<1>12. ASSUME NEW r \in Requests, Fail(r) \/ DeadlockVictim(r) PROVE Inv'
  BY <1>12, FailStep
<1>13. ASSUME NEW p \in Products, Reprice(p) PROVE Inv'
  BY <1>13, RepriceStep
<1>14. CASE UNCHANGED vars
  BY <1>14 DEF vars, db, locks, work, Inv, TypeOK, RequestInv, LockInv, VisibleInv, Visible
<1> QED
  BY <1>1, <1>2, <1>3, <1>4, <1>5, <1>6, <1>7, <1>8, <1>9, <1>10, <1>11, <1>12, <1>13,
     <1>14 DEF Next, Serve

(* Every variable keeps its type.  In particular no interleaving of creates, cancels and failures
   drives products.stock below zero or beyond INTEGER: Create's UPDATE checks stock >= $2 against
   what it sees (product_repo.go:127-148) and a lock keeps what it sees from changing. *)
THEOREM TypeCorrect == Safety => []TypeOK
<1>1. Inv => TypeOK
  BY DEF Inv
<1> QED
  BY InvInit, InvStep, <1>1, PTL DEF Safety

=============================================================================
