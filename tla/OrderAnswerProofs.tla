-------------------------- MODULE OrderAnswerProofs --------------------------
(***************************************************************************)
(* What clients of OrderService can rely on, for every instance: nothing   *)
(* leaks out of a transaction, the answer can be believed, one transition  *)
(* of an order wins, its history is written once, it holds what was asked  *)
(* for at the price of its instant; and, with ids written as the server    *)
(* writes them, nobody waits in a cycle and every step is a step of the    *)
(* sequential order book or changes nothing there.                         *)
(***************************************************************************)
EXTENDS OrderStockProofs, WellFoundedInduction

USE DEF InTx, InCallback

(* The steps at which a create still builds its order. *)
Making == {"begin", "read", "decrement", "insert", "commit"}

(* Outside a transaction a request holds nothing. *)
Holds(r) ==
    pc[r] \in {"idle", "begin", "done"} =>
        /\ r \notin pool
        /\ \A p \in Products : rowLock[p] # r
        /\ \A o \in Requests : orderLock[o] # r

(* What a transaction writes belongs to its caller and is dated as its operation says. *)
Signed(r) ==
    /\ req[r].op = "create" => draft[r].cancelledAt = FALSE
    /\ req[r].op = "create" /\ pc[r] \in Making =>
          req[r].lines \in Baskets /\ req[r].lines # << >>
    /\ req[r].op = "create" /\ pc[r] = "commit" => draft[r].user = req[r].user
    /\ req[r].op # "create" /\ pc[r] \in {"restore", "update", "commit"} =>
          /\ draft[r].cancelledAt = (req[r].op = "cancel")
          /\ orders[req[r].order].user = req[r].user

(* Each price of a draft is the current one, and the lock of the row keeps it so. *)
Priced(r) ==
    req[r].op = "create" /\ pc[r] \in Making =>
        \A p \in Products :
            /\ draft[r].quantity[p] # 0 => rowLock[p] = r /\ draft[r].unitPrice[p] = price[p]
            /\ draft[r].unitPrice[p] # 0 =>
                  \E ref \in Refs(req[r].lines) : ProductOf[ref] = p
            /\ pc[r] = "decrement" =>
                  \A ref \in todo[r] : First(ref, todo[r]) /\ ProductOf[ref] = p =>
                      rowLock[p] = r /\ draft[r].unitPrice[p] = price[p]

(* The quantities are those of the lines in refs and of no others. *)
Asked(quantity, lines, refs) ==
    /\ \A ref \in refs : /\ ProductOf[ref] \in Products
                         /\ quantity[ProductOf[ref]] = MergedQuantity(lines, ref)
    /\ \A p \in Products : quantity[p] # 0 => \E ref \in refs : ProductOf[ref] = p

Filled(r) ==
    req[r].op = "create" /\ pc[r] \in Making /\ ~SameProductTwice(req[r].lines) =>
        Asked(draft[r].quantity, req[r].lines, Refs(req[r].lines) \ todo[r])

(* Success is told of what has been done. *)
Told(r) ==
    reply[r] = "OK" =>
        /\ pc[r] = "done"
        /\ orders[req[r].order].user = req[r].user
        /\ req[r].op = "create"  => orders[r].status # "NONE"
        /\ req[r].op = "confirm" => orders[req[r].order].status = "CONFIRMED"
        /\ req[r].op = "cancel"  => orders[req[r].order].status = "CANCELLED"

(* Clients write product ids as the server does, or ids that name no product. *)
CanonicalRefs == \A ref \in ProductRefs : ProductOf[ref] \in {ref, None}

(* With such ids a transaction locks rows in ascending order: those it holds are below the next. *)
Ranked(r) ==
    CanonicalRefs =>
        /\ pc[r] \in {"read", "restore"} =>
              \A p \in Products : rowLock[p] = r => \A ref \in todo[r] : p < ref
        /\ pc[r] = "decrement" =>
              \A p \in Products : rowLock[p] = r => \A ref \in todo[r] : p <= ref
        /\ pc[r] = "find" => /\ \A p \in Products : rowLock[p] # r
                            /\ \A o \in Requests : orderLock[o] # r

Mine(r) == Holds(r) /\ Signed(r) /\ Priced(r) /\ Filled(r) /\ Told(r) /\ Ranked(r)

(* An order in the database, and the create that placed it. *)
Entry(o) ==
    /\ orders[o].status = "NONE" => orders[o] = NoOrder
    /\ orders[o].status # "NONE" =>
          /\ req[o].op = "create" /\ req[o].order = o
          /\ reply[o] \in {"OK", "INTERNAL_ERROR"}
          /\ orders[o].user = req[o].user
          /\ orders[o].cancelledAt <=> orders[o].status = "CANCELLED"
          /\ req[o].lines \in Baskets
          /\ ~SameProductTwice(req[o].lines) /\ PositiveQuantities(req[o].lines)
          /\ Asked(orders[o].quantity, req[o].lines, Refs(req[o].lines))

MineInv == \A r \in Requests : Mine(r)
EntryInv == \A o \in Requests : Entry(o)

AnswerInv == StockInv /\ MineInv /\ EntryInv /\ Cardinality(pool) <= MaxConns

-----------------------------------------------------------------------------
(* Requests do not disturb one another. *)

Apart(r) ==
    \A s \in Requests : s # r =>
        /\ SameWork(s) /\ reply'[s] = reply[s]
        /\ \A p \in Products : rowLock[p] = s <=> rowLock'[p] = s
        /\ \A o \in Requests : orderLock[o] = s <=> orderLock'[o] = s
        /\ s \in pool <=> s \in pool'

LEMMA OthersKept ==
    ASSUME AnswerInv, NEW r \in Requests, Apart(r), orders' = orders, price' = price,
           NEW s \in Requests, s # r
    PROVE  Mine(s)'
<1>1. Mine(s) /\ SameWork(s) /\ reply'[s] = reply[s]
  BY DEF AnswerInv, MineInv, Apart
<1>2. /\ \A p \in Products : rowLock[p] = s <=> rowLock'[p] = s
      /\ \A o \in Requests : orderLock[o] = s <=> orderLock'[o] = s
      /\ s \in pool <=> s \in pool'
  BY DEF Apart
<1>3. Holds(s)'
  BY <1>1, <1>2 DEF Mine, Holds, SameWork
<1>4. Signed(s)'
  BY <1>1 DEF Mine, Signed, SameWork
<1>5. Priced(s)'
  BY <1>1, <1>2 DEF Mine, Priced, SameWork
<1>6. Filled(s)'
  BY <1>1 DEF Mine, Filled, SameWork
<1>7. Told(s)'
  BY <1>1 DEF Mine, Told, SameWork
<1>8. Ranked(s)'
  BY <1>1, <1>2 DEF Mine, Ranked, SameWork
<1> QED
  BY <1>3, <1>4, <1>5, <1>6, <1>7, <1>8 DEF Mine

(* A step of r that leaves the committed rows alone. *)
LEMMA QuietStep ==
    ASSUME AnswerInv, NEW r \in Requests, pc[r] # "done", Apart(r), orders' = orders,
           price' = price, Mine(r)'
    PROVE  MineInv' /\ EntryInv'
<1>1. MineInv'
  BY OthersKept DEF MineInv
<1>2. ASSUME NEW o \in Requests PROVE Entry(o)'
  <2>1. Entry(o) /\ (orders[o].status # "NONE" => o # r)
    BY DEF AnswerInv, EntryInv, StockInv, RowInv, Row
  <2>2. CASE orders[o].status = "NONE"
    BY <2>1, <2>2 DEF Entry
  <2>3. CASE orders[o].status # "NONE"
    <3>1. req'[o] = req[o] /\ reply'[o] = reply[o]
      BY <2>1, <2>3 DEF Apart, SameWork
    <3> QED
      BY <2>1, <2>3, <3>1 DEF Entry
  <2> QED
    BY <2>2, <2>3
<1> QED
  BY <1>1, <1>2 DEF EntryInv

(* Locks that r takes were free. *)
LEMMA TakeKeeps ==
    ASSUME NEW r \in Requests, TypeOK
    PROVE  /\ \A p \in Products : TakeRow(r, p) =>
                 \A s \in Requests, x \in Products :
                     s # r => (rowLock[x] = s <=> rowLock'[x] = s)
           /\ \A o \in Requests : TakeOrder(r, o) =>
                 \A s \in Requests, x \in Requests :
                     s # r => (orderLock[x] = s <=> orderLock'[x] = s)
BY ConstantFacts DEF TakeRow, TakeOrder, Free, TypeOK

(* The row r takes is r's, and the other rows are held by whom they were. *)
LEMMA RowTaken ==
    ASSUME NEW r \in Requests, NEW p \in Products, TypeOK, TakeRow(r, p)
    PROVE  /\ \A s \in Requests, x \in Products :
                s # r => (rowLock[x] = s <=> rowLock'[x] = s)
           /\ rowLock'[p] = r
           /\ \A x \in Products : x # p => rowLock'[x] = rowLock[x]
<1>1. \A s \in Requests, x \in Products : s # r => (rowLock[x] = s <=> rowLock'[x] = s)
  BY TakeKeeps
<1>2. /\ rowLock'[p] = r
      /\ \A x \in Products : x # p => rowLock'[x] = rowLock[x]
  BY DEF TypeOK, TakeRow
<1> QED
  BY <1>1, <1>2

(* An error of the callback: nothing of r is left to keep but its locks. *)
LEMMA AbortMine ==
    ASSUME AnswerInv, NEW r \in Requests, NEW code, pc[r] \in InTx, Abort(r, code),
           code # "OK",
           \A s \in Requests, x \in Products : s # r => (rowLock[x] = s <=> rowLock'[x] = s),
           \A s \in Requests, x \in Requests :
               s # r => (orderLock[x] = s <=> orderLock'[x] = s)
    PROVE  MineInv' /\ EntryInv' /\ pool' = pool
<1>1. Apart(r)
  BY DEF Abort, Goto, work, Apart, SameWork, AnswerInv, StockInv, Inv, TypeOK
<1>2. /\ pc'[r] = "rollback" /\ reply'[r] = code
      /\ UNCHANGED <<req, draft, orders, price, pool>>
  BY DEF Abort, Goto, db, work, AnswerInv, StockInv, Inv, TypeOK
<1>3. Mine(r)
  BY DEF AnswerInv, MineInv
<1>4. Mine(r)'
  BY <1>2, <1>3 DEF Mine, Holds, Signed, Priced, Filled, Told, Ranked, Making
<1> QED
  BY <1>1, <1>2, <1>4, QuietStep

-----------------------------------------------------------------------------
(* Outside the transaction *)

LEMMA ReceiveMine ==
    ASSUME AnswerInv, NEW r \in Requests, ReceiveCreate(r) \/ ReceiveTransition(r)
    PROVE  MineInv' /\ EntryInv' /\ pool' = pool
<1> USE DEF ReceiveCreate, ReceiveTransition, Goto, db, locks, work
<1>1. Apart(r)
  BY DEF Apart, SameWork, AnswerInv, StockInv, Inv, TypeOK
<1>2. /\ pc[r] = "idle" /\ UNCHANGED <<draft, orders, price, pool, rowLock, orderLock>>
      /\ Mine(r) /\ draft[r] = NoOrder
  BY DEF AnswerInv, MineInv, StockInv, WorkInv, Work, Stage
<1>3. draft[r].cancelledAt = FALSE /\ draft[r].quantity = NoItems /\ draft[r].unitPrice = NoItems
  BY <1>2 DEF NoOrder
<1>4. CASE ReceiveTransition(r)
  <2>1. /\ pc'[r] = "begin" /\ req'[r].op \in {"confirm", "cancel"} /\ reply' = reply
    BY <1>4 DEF AnswerInv, StockInv, Inv, TypeOK
  <2>2. Mine(r)'
    BY <1>2, <2>1 DEF Mine, Holds, Signed, Priced, Filled, Told, Ranked
  <2> QED
    BY <1>1, <1>2, <2>2, QuietStep
<1>5. CASE ReceiveCreate(r)
  <2>1. /\ req'[r].op = "create" /\ req'[r].lines \in Baskets
        /\ \/ pc'[r] = "done" /\ reply'[r] = Rejection(req'[r].lines)
           \/ /\ pc'[r] = "begin" /\ reply' = reply /\ todo'[r] = Refs(req'[r].lines)
              /\ Rejection(req'[r].lines) = "NONE"
    BY <1>5 DEF AnswerInv, StockInv, Inv, TypeOK
  <2>2. /\ Rejection(req'[r].lines) # "OK"
        /\ Rejection(req'[r].lines) = "NONE" => req'[r].lines # << >>
    BY DEF Rejection
  <2>3. Holds(r)' /\ Signed(r)' /\ Told(r)' /\ Ranked(r)'
    BY <1>2, <1>3, <2>1, <2>2 DEF Mine, Holds, Signed, Told, Ranked, Making
  <2>4. \A p \in Products : draft'[r].quantity[p] = 0 /\ draft'[r].unitPrice[p] = 0
    BY <1>2, <1>3, ConstantFacts
  <2>5. Priced(r)'
    BY <2>1, <2>4 DEF Priced, Making
  <2>6. Filled(r)'
    BY <2>1, <2>4 DEF Filled, Making, Asked
  <2>7. Mine(r)'
    BY <2>3, <2>5, <2>6 DEF Mine
  <2> QED
    BY <1>1, <1>2, <2>7, QuietStep
<1> QED
  BY <1>4, <1>5

LEMMA BeginMine ==
    ASSUME AnswerInv, NEW r \in Requests, Begin(r) \/ BeginFails(r)
    PROVE  MineInv' /\ EntryInv' /\ Cardinality(pool') <= MaxConns
<1> USE DEF Begin, BeginFails, Goto, db, locks, work
<1>1. Apart(r)
  BY DEF Apart, SameWork, AnswerInv, StockInv, Inv, TypeOK
<1>2. /\ pc[r] = "begin" /\ UNCHANGED <<req, delta, draft, orders, price, rowLock, orderLock>>
      /\ Mine(r)
  BY DEF AnswerInv, MineInv
<1>3. CASE BeginFails(r)
  <2>1. pc'[r] = "done" /\ reply'[r] = "INTERNAL_ERROR" /\ pool' = pool
    BY <1>3 DEF AnswerInv, StockInv, Inv, TypeOK
  <2>2. Mine(r)'
    BY <1>2, <2>1 DEF Mine, Holds, Signed, Priced, Filled, Told, Ranked, Making
  <2> QED
    BY <1>1, <1>2, <2>1, <2>2, QuietStep DEF AnswerInv
<1>4. CASE Begin(r)
  <2>1. /\ pc'[r] \in {"read", "find"} /\ UNCHANGED <<reply, todo>>
        /\ req[r].op = "create" => pc'[r] = "read"
        /\ pool' = pool \cup {r} /\ r \notin pool
    BY <1>2, <1>4 DEF AnswerInv, StockInv, Inv, TypeOK, Mine, Holds
  <2>2. Mine(r)'
    BY <1>2, <2>1 DEF Mine, Holds, Signed, Priced, Filled, Told, Ranked, Making
  <2>3. IsFiniteSet(pool)
    BY FS_Subset, ConstantsAssumption DEF AnswerInv, StockInv, Inv, TypeOK
  <2>4. Cardinality(pool') = Cardinality(pool) + 1 /\ Cardinality(pool) \in Nat
    BY <2>1, <2>3, FS_AddElement, FS_CardinalityType
  <2>5. Cardinality(pool') <= MaxConns
    BY <1>4, <2>4, ConstantsAssumption
  <2> QED
    BY <1>1, <1>2, <2>2, <2>5, QuietStep
<1> QED
  BY <1>3, <1>4

-----------------------------------------------------------------------------
(* createOrder *)

(* A create on its way changes its draft and takes locks; the rest of what is said of it stays. *)
LEMMA MakingMine ==
    ASSUME AnswerInv, NEW r \in Requests, req[r].op = "create",
           pc[r] \in {"read", "decrement", "insert"}, pc'[r] \in Making \ {"begin"},
           UNCHANGED <<req, orders, price, pool, reply>>,
           Apart(r),
           draft'[r].cancelledAt = draft[r].cancelledAt,
           pc'[r] = "commit" => draft'[r].user = req[r].user,
           Priced(r)', Filled(r)', Ranked(r)'
    PROVE  MineInv' /\ EntryInv'
<1>1. Mine(r) /\ pc[r] # "done"
  BY DEF AnswerInv, MineInv
<1>2. Mine(r)'
  BY <1>1 DEF Mine, Holds, Signed, Told, Making
<1> QED
  BY <1>1, <1>2, QuietStep

LEMMA GetProductMine ==
    ASSUME AnswerInv, NEW r \in Requests, GetProduct(r)
    PROVE  MineInv' /\ EntryInv' /\ pool' = pool
<1>0. pc[r] = "read" /\ req[r].op = "create" /\ Mine(r)
  BY DEF GetProduct, AnswerInv, MineInv, StockInv, WorkInv, Work, Stage
<1>1. CASE Abort(r, "PRODUCT_NOT_FOUND") /\ UNCHANGED locks
  BY <1>0, <1>1, AbortMine DEF locks
<1>2. ASSUME NEW ref \in todo[r], NEW p \in Products, p = ProductOf[ref], First(ref, todo[r]),
             TakeRow(r, p), draft' = [draft EXCEPT ![r].unitPrice[p] = price[p]],
             Goto(r, "decrement"),
             UNCHANGED <<db, orderLock, pool, req, todo, delta, reply>>
      PROVE  MineInv' /\ EntryInv' /\ pool' = pool
  <2>1. /\ \A s \in Requests, x \in Products :
               s # r => (rowLock[x] = s <=> rowLock'[x] = s)
        /\ rowLock'[p] = r
        /\ \A x \in Products : x # p => rowLock'[x] = rowLock[x]
    <3>1. TypeOK
      BY DEF AnswerInv, StockInv, Inv
    <3> QED
      BY <1>2, <3>1, RowTaken
  <2>2. Apart(r)
    BY <1>2, <2>1 DEF Goto, Apart, SameWork, AnswerInv, StockInv, Inv, TypeOK
  <2>3. /\ draft[r] \in Order /\ price[p] \in Nat
        /\ draft'[r] = [draft[r] EXCEPT !.unitPrice[p] = price[p]]
    BY <1>2, ConstantsAssumption DEF AnswerInv, StockInv, Inv, TypeOK
  <2>4. /\ draft'[r].quantity = draft[r].quantity
        /\ draft'[r].cancelledAt = draft[r].cancelledAt
        /\ draft'[r].unitPrice[p] = price[p]
        /\ \A x \in Products : x # p => draft'[r].unitPrice[x] = draft[r].unitPrice[x]
    BY <2>3 DEF Order
  <2>5. /\ pc'[r] = "decrement"
        /\ UNCHANGED <<orders, price, pool, req, todo, reply>>
    BY <1>2 DEF Goto, db, AnswerInv, StockInv, Inv, TypeOK
  <2>6. Building(r) /\ ref \in Refs(req[r].lines)
    BY <1>0 DEF AnswerInv, StockInv, WorkInv, Work, Building
  <2>7. Priced(r)'
    <3> SUFFICES ASSUME NEW x \in Products
                 PROVE  /\ draft'[r].quantity[x] # 0 =>
                              rowLock'[x] = r /\ draft'[r].unitPrice[x] = price[x]
                        /\ draft'[r].unitPrice[x] # 0 =>
                              \E a \in Refs(req[r].lines) : ProductOf[a] = x
                        /\ \A a \in todo[r] : First(a, todo[r]) /\ ProductOf[a] = x =>
                              rowLock'[x] = r /\ draft'[r].unitPrice[x] = price[x]
      BY <2>5 DEF Priced
    <3>1. CASE x = p
      BY <1>2, <2>1, <2>4, <2>6, <3>1
    <3>2. CASE x # p
      <4>1. \A a \in todo[r] : First(a, todo[r]) => a = ref
        <5>1. \A a \in todo[r] : a \in Int
          BY ConstantsAssumption DEF AnswerInv, StockInv, Inv, TypeOK
        <5> QED
          BY <1>2, <5>1 DEF First
      <4> QED
        BY <1>0, <1>2, <2>1, <2>4, <3>2, <4>1 DEF Mine, Priced, Making
    <3> QED
      BY <3>1, <3>2
  <2>8. Filled(r)'
    BY <1>0, <2>4, <2>5 DEF Mine, Filled, Making
  <2>9. Ranked(r)'
    <3> SUFFICES ASSUME CanonicalRefs, NEW x \in Products, rowLock'[x] = r, NEW a \in todo[r]
                 PROVE  x <= a
      BY <2>5 DEF Ranked
    <3>1. x \in Int /\ a \in Int /\ p \in Int
      BY ConstantsAssumption DEF AnswerInv, StockInv, Inv, TypeOK
    <3>2. CASE x = p
      <4>1. p = ref
        BY <1>2, ConstantFacts, ConstantsAssumption
           DEF CanonicalRefs, AnswerInv, StockInv, Inv, TypeOK
      <4> QED
        BY <1>2, <3>2, <4>1 DEF First
    <3>3. CASE x # p
      BY <1>0, <2>1, <3>1, <3>3 DEF Mine, Ranked
    <3> QED
      BY <3>2, <3>3
  <2> QED
    BY <1>0, <2>2, <2>4, <2>5, <2>7, <2>8, <2>9, MakingMine DEF Making
<1>3. \A ref \in todo[r] : ProductOf[ref] # None => ProductOf[ref] \in Products
  BY ConstantsAssumption DEF AnswerInv, StockInv, Inv, TypeOK
<1> QED
  BY <1>1, <1>2, <1>3 DEF GetProduct, UnitPrice, ForUpdate

LEMMA DecrementStockMine ==
    ASSUME AnswerInv, NEW r \in Requests, DecrementStock(r)
    PROVE  MineInv' /\ EntryInv' /\ pool' = pool
<1>0. /\ pc[r] = "decrement" /\ req[r].op = "create" /\ Mine(r) /\ Building(r)
      /\ orderLock' = orderLock
  BY DEF DecrementStock, AnswerInv, MineInv, StockInv, WorkInv, Work, Stage
<1>1. ASSUME NEW ref \in todo[r], First(ref, todo[r])
      PROVE  ProductOf[ref] \in Products
  BY <1>0, <1>1 DEF AnswerInv, StockInv, Inv, RequestInv
<1>2. ASSUME NEW p \in Products, TakeRow(r, p),
             Abort(r, "INSUFFICIENT_STOCK") \/ Abort(r, "INTERNAL_ERROR")
      PROVE  MineInv' /\ EntryInv' /\ pool' = pool
  BY <1>0, <1>2, TakeKeeps, AbortMine DEF AnswerInv, StockInv, Inv
<1>3. ASSUME NEW ref \in todo[r], NEW p \in Products, p = ProductOf[ref], First(ref, todo[r]),
             TakeRow(r, p),
             MergedQuantity(req[r].lines, ref) \in Int4,
             delta' = [delta EXCEPT ![r][p] = @ - MergedQuantity(req[r].lines, ref)],
             draft' = [draft EXCEPT ![r].quantity[p] = MergedQuantity(req[r].lines, ref)],
             todo' = [todo EXCEPT ![r] = @ \ {ref}],
             Goto(r, IF todo[r] = {ref} THEN "insert" ELSE "read"),
             UNCHANGED <<db, pool, req, reply>>
      PROVE  MineInv' /\ EntryInv' /\ pool' = pool
  <2> DEFINE q == MergedQuantity(req[r].lines, ref)
  <2>0. q \in Int
    BY <1>3, ConstantFacts DEF Int4
  <2>1. /\ \A s \in Requests, x \in Products :
               s # r => (rowLock[x] = s <=> rowLock'[x] = s)
        /\ rowLock'[p] = r
        /\ \A x \in Products : x # p => rowLock'[x] = rowLock[x]
    <3>1. TypeOK
      BY DEF AnswerInv, StockInv, Inv
    <3> QED
      BY <1>3, <3>1, RowTaken
  <2>2. Apart(r)
    BY <1>0, <1>3, <2>1 DEF Goto, Apart, SameWork, AnswerInv, StockInv, Inv, TypeOK
  <2>3. draft[r] \in Order /\ draft'[r] = [draft[r] EXCEPT !.quantity[p] = q]
    BY <1>3 DEF AnswerInv, StockInv, Inv, TypeOK
  <2>4. /\ draft'[r].unitPrice = draft[r].unitPrice
        /\ draft'[r].cancelledAt = draft[r].cancelledAt
        /\ draft'[r].quantity[p] = q
        /\ \A x \in Products : x # p => draft'[r].quantity[x] = draft[r].quantity[x]
    BY <2>0, <2>3 DEF Order
  <2>5. /\ pc'[r] = IF todo'[r] = {} THEN "insert" ELSE "read"
        /\ todo'[r] = todo[r] \ {ref}
        /\ UNCHANGED <<orders, price, pool, req, reply>>
    BY <1>3 DEF Goto, db, AnswerInv, StockInv, Inv, TypeOK
  <2>6. Priced(r)'
    BY <1>0, <1>3, <2>1, <2>4, <2>5 DEF Mine, Priced, Making
  <2>7. Filled(r)'
    <3> SUFFICES ASSUME ~SameProductTwice(req[r].lines)
                 PROVE  Asked(draft'[r].quantity, req[r].lines,
                              Refs(req[r].lines) \ todo'[r])
      BY <2>5 DEF Filled
    <3>1. Asked(draft[r].quantity, req[r].lines, Refs(req[r].lines) \ todo[r])
      BY <1>0 DEF Mine, Filled, Making
    <3>2. /\ ref \in Refs(req[r].lines) /\ ref \notin todo'[r]
          /\ \A a \in Refs(req[r].lines) : a # ref => ProductOf[a] # p
      BY <1>0, <1>3, <2>5 DEF Building, SameProductTwice
    <3>3. ASSUME NEW a \in Refs(req[r].lines) \ todo'[r]
          PROVE  /\ ProductOf[a] \in Products
                 /\ draft'[r].quantity[ProductOf[a]] = MergedQuantity(req[r].lines, a)
      <4>1. CASE a = ref
        BY <1>3, <2>4, <4>1
      <4>2. CASE a # ref
        BY <2>4, <2>5, <3>1, <3>2, <4>2 DEF Asked
      <4> QED
        BY <4>1, <4>2
    <3>4. ASSUME NEW x \in Products, draft'[r].quantity[x] # 0
          PROVE  \E a \in Refs(req[r].lines) \ todo'[r] : ProductOf[a] = x
      BY <1>3, <2>4, <2>5, <3>1, <3>2, <3>4 DEF Asked
    <3> QED
      BY <3>3, <3>4 DEF Asked
  <2>8. Ranked(r)'
    <3> SUFFICES ASSUME CanonicalRefs, NEW x \in Products, rowLock'[x] = r, NEW a \in todo'[r]
                 PROVE  x < a
      BY <2>5 DEF Ranked
    <3>1. x \in Int /\ a \in Int /\ ref \in Int
      BY <2>5, ConstantsAssumption DEF AnswerInv, StockInv, Inv, TypeOK
    <3>2. a \in todo[r] /\ ref < a
      BY <1>3, <2>5, <3>1 DEF First
    <3>3. p = ref
      BY <1>3, ConstantFacts, ConstantsAssumption
         DEF CanonicalRefs, AnswerInv, StockInv, Inv, TypeOK
    <3>4. x # p => x <= ref
      BY <1>0, <1>3, <2>1 DEF Mine, Ranked
    <3> QED
      BY <3>1, <3>2, <3>3, <3>4
  <2> QED
    BY <1>0, <2>2, <2>4, <2>5, <2>6, <2>7, <2>8, MakingMine DEF Making
<1> QED
  BY <1>1, <1>2, <1>3 DEF DecrementStock

LEMMA InsertOrderMine ==
    ASSUME AnswerInv, NEW r \in Requests, InsertOrder(r)
    PROVE  MineInv' /\ EntryInv' /\ pool' = pool
<1>0. /\ pc[r] = "insert" /\ req[r].op = "create" /\ Mine(r) /\ UNCHANGED locks
  BY DEF InsertOrder, AnswerInv, MineInv, StockInv, WorkInv, Work, Stage
<1>1. CASE Abort(r, "INVALID_QUANTITY") \/ Abort(r, "INTERNAL_ERROR")
  BY <1>0, <1>1, AbortMine DEF locks
<1>2. CASE /\ draft' = [draft EXCEPT ![r].status = "PENDING", ![r].user = req[r].user]
           /\ Goto(r, "commit")
           /\ UNCHANGED <<db, pool, req, todo, delta, reply>>
  <2>1. Apart(r)
    BY <1>0, <1>2 DEF locks, Goto, Apart, SameWork, AnswerInv, StockInv, Inv, TypeOK
  <2>2. /\ draft[r] \in Order
        /\ draft'[r] = [draft[r] EXCEPT !.status = "PENDING", !.user = req[r].user]
    BY <1>2 DEF AnswerInv, StockInv, Inv, TypeOK
  <2>3. /\ draft'[r].unitPrice = draft[r].unitPrice
        /\ draft'[r].quantity = draft[r].quantity
        /\ draft'[r].cancelledAt = draft[r].cancelledAt
        /\ draft'[r].user = req[r].user
    BY <2>2 DEF Order
  <2>4. pc'[r] = "commit" /\ UNCHANGED <<orders, price, pool, req, todo, reply, rowLock>>
    BY <1>0, <1>2 DEF locks, Goto, db, AnswerInv, StockInv, Inv, TypeOK
  <2>5. Priced(r)' /\ Filled(r)'
    BY <1>0, <2>3, <2>4 DEF Mine, Priced, Filled, Making
  <2>6. Ranked(r)'
    BY <2>4 DEF Ranked
  <2> QED
    BY <1>0, <2>1, <2>3, <2>4, <2>5, <2>6, MakingMine DEF Making
<1> QED
  BY <1>1, <1>2 DEF InsertOrder

-----------------------------------------------------------------------------
(* confirmOrder and cancelOrder *)

LEMMA SettlingMine ==
    ASSUME AnswerInv, NEW r \in Requests, req[r].op # "create",
           pc[r] \in {"find", "restore", "update"}, pc'[r] \in {"restore", "update", "commit"},
           UNCHANGED <<req, orders, price, pool, reply>>,
           Apart(r),
           draft'[r].cancelledAt = (req[r].op = "cancel"),
           orders[req[r].order].user = req[r].user, Ranked(r)'
    PROVE  MineInv' /\ EntryInv'
<1>1. Mine(r) /\ pc[r] # "done"
  BY DEF AnswerInv, MineInv
<1>2. Mine(r)'
  BY <1>1 DEF Mine, Holds, Signed, Priced, Filled, Told
<1> QED
  BY <1>1, <1>2, QuietStep

LEMMA GetOrderMine ==
    ASSUME AnswerInv, NEW r \in Requests, GetOrder(r)
    PROVE  MineInv' /\ EntryInv' /\ pool' = pool
<1> DEFINE o == req[r].order
           found == [orders[o] EXCEPT !.quantity = ItemsRead(@, req[r].spelling),
                                      !.unitPrice = ItemsRead(@, req[r].spelling)]
           lines == IF req[r].op = "cancel" THEN {p \in Products : found.quantity[p] > 0}
                    ELSE {}
<1>0. pc[r] = "find" /\ req[r].op # "create"
  BY DEF GetOrder, AnswerInv, StockInv, WorkInv, Work, Stage
<1>1. req[r] \in Input /\ o \in Requests
  BY <1>0 DEF AnswerInv, StockInv, Inv, RequestInv, Input
<1>2. CASE Abort(r, "ORDER_NOT_FOUND") /\ UNCHANGED locks
  BY <1>0, <1>2, AbortMine DEF locks
<1>3. CASE /\ TakeOrder(r, o) /\ UNCHANGED rowLock
           /\ Abort(r, "ORDER_NOT_OWNED") \/ Abort(r, "ORDER_NOT_PENDING")
  BY <1>0, <1>1, <1>3, TakeKeeps, AbortMine DEF AnswerInv, StockInv, Inv
<1>4. CASE /\ TakeOrder(r, o) /\ UNCHANGED rowLock
           /\ found.user = req[r].user
           /\ draft' = [draft EXCEPT ![r] = Settled(found, req[r].op)]
           /\ todo' = [todo EXCEPT ![r] = lines]
           /\ Goto(r, IF lines = {} THEN "update" ELSE "restore")
           /\ UNCHANGED <<db, pool, req, delta, reply>>
  <2>1. orders[o] \in Order /\ found \in Order
    BY <1>1, ItemsReadFacts DEF AnswerInv, StockInv, Inv, TypeOK
  <2>2. found.user = orders[o].user
    BY <2>1 DEF Order
  <2>3. draft'[r].cancelledAt = (req[r].op = "cancel")
    BY <1>4, <2>1 DEF Settled, Order, AnswerInv, StockInv, Inv, TypeOK
  <2> HIDE DEF found, lines
  <2>4. \A s \in Requests, x \in Requests :
             s # r => (orderLock[x] = s <=> orderLock'[x] = s)
    BY <1>1, <1>4, TakeKeeps DEF AnswerInv, StockInv, Inv
  <2>5. Apart(r)
    BY <1>4, <2>4 DEF Goto, Apart, SameWork, AnswerInv, StockInv, Inv, TypeOK
  <2>6. /\ pc'[r] \in {"restore", "update"} /\ UNCHANGED <<req, orders, price, pool, reply>>
    BY <1>4 DEF Goto, db, AnswerInv, StockInv, Inv, TypeOK
  <2>7. Ranked(r)'
    <3>1. CanonicalRefs => \A p \in Products : rowLock'[p] # r
      BY <1>0, <1>4 DEF AnswerInv, MineInv, Mine, Ranked
    <3> QED
      BY <2>6, <3>1 DEF Ranked
  <2> QED
    BY <1>0, <1>4, <2>2, <2>3, <2>5, <2>6, <2>7, SettlingMine
<1> HIDE DEF found, lines
<1> QED
  BY <1>2, <1>3, <1>4 DEF GetOrder, ForUpdateOrder, found, lines

LEMMA IncrementStockMine ==
    ASSUME AnswerInv, NEW r \in Requests, IncrementStock(r)
    PROVE  MineInv' /\ EntryInv' /\ pool' = pool
<1>0. /\ pc[r] = "restore" /\ req[r].op # "create" /\ orderLock' = orderLock /\ Mine(r)
  BY DEF IncrementStock, AnswerInv, MineInv, StockInv, WorkInv, Work, Stage
<1>1. \A p \in todo[r] : p \in Products
  BY <1>0 DEF AnswerInv, StockInv, Inv, RequestInv
<1>2. ASSUME NEW p \in Products, TakeRow(r, p), Abort(r, "INTERNAL_ERROR")
      PROVE  MineInv' /\ EntryInv' /\ pool' = pool
  BY <1>0, <1>2, TakeKeeps, AbortMine DEF AnswerInv, StockInv, Inv
<1>3. ASSUME NEW p \in Products, TakeRow(r, p), p \in todo[r], First(p, todo[r]),
             delta' = [delta EXCEPT ![r][p] = @ + draft[r].quantity[p]],
             todo' = [todo EXCEPT ![r] = @ \ {p}],
             Goto(r, IF todo[r] = {p} THEN "update" ELSE "restore"),
             UNCHANGED <<db, pool, req, draft, reply>>
      PROVE  MineInv' /\ EntryInv' /\ pool' = pool
  <2>1. \A s \in Requests, x \in Products : s # r => (rowLock[x] = s <=> rowLock'[x] = s)
    BY <1>3, TakeKeeps DEF AnswerInv, StockInv, Inv
  <2>2. Apart(r)
    BY <1>0, <1>3, <2>1 DEF Goto, Apart, SameWork, AnswerInv, StockInv, Inv, TypeOK
  <2>3. /\ pc'[r] \in {"restore", "update"}
        /\ UNCHANGED <<req, orders, price, pool, reply, draft>>
    BY <1>3 DEF Goto, db, AnswerInv, StockInv, Inv, TypeOK
  <2>4. /\ draft'[r].cancelledAt = (req[r].op = "cancel")
        /\ orders[req[r].order].user = req[r].user
    BY <1>0, <2>3 DEF Mine, Signed
  <2>5. Ranked(r)'
    <3> SUFFICES ASSUME CanonicalRefs, NEW x \in Products, rowLock'[x] = r, NEW a \in todo'[r]
                 PROVE  x < a
      BY <2>3 DEF Ranked
    <3>1. a \in todo[r] /\ a # p
      BY <1>3 DEF AnswerInv, StockInv, Inv, TypeOK
    <3>2. x \in Int /\ a \in Int /\ p \in Int
      BY <3>1, ConstantsAssumption DEF AnswerInv, StockInv, Inv, TypeOK
    <3>3. x # p => rowLock[x] = r
      BY <1>3 DEF TakeRow, AnswerInv, StockInv, Inv, TypeOK
    <3>4. p < a
      BY <1>3, <3>1, <3>2 DEF First
    <3>5. x # p => x < a
      BY <1>0, <3>1, <3>3 DEF Mine, Ranked
    <3> QED
      BY <3>4, <3>5
  <2> QED
    BY <1>0, <2>2, <2>3, <2>4, <2>5, SettlingMine
<1> QED
  BY <1>1, <1>2, <1>3 DEF IncrementStock

LEMMA UpdateStatusMine ==
    ASSUME AnswerInv, NEW r \in Requests, UpdateStatus(r)
    PROVE  MineInv' /\ EntryInv' /\ pool' = pool
<1> USE DEF UpdateStatus, Goto, db, work
<1>0. /\ pc[r] = "update" /\ req[r].op # "create" /\ Mine(r)
  BY DEF AnswerInv, MineInv, StockInv, WorkInv, Work, Stage
<1>1. req[r].order \in Requests
  BY <1>0 DEF AnswerInv, StockInv, Inv, RequestInv, Input
<1>2. \A s \in Requests, x \in Requests : s # r => (orderLock[x] = s <=> orderLock'[x] = s)
  BY <1>1, TakeKeeps DEF AnswerInv, StockInv, Inv
<1>3. Apart(r)
  BY <1>2 DEF Apart, SameWork, AnswerInv, StockInv, Inv, TypeOK
<1>4. pc'[r] = "commit" /\ UNCHANGED <<req, orders, price, pool, reply, draft>>
  BY DEF AnswerInv, StockInv, Inv, TypeOK
<1>5. /\ draft'[r].cancelledAt = (req[r].op = "cancel")
      /\ orders[req[r].order].user = req[r].user
  BY <1>0, <1>4 DEF Mine, Signed
<1>6. Ranked(r)'
  BY <1>4 DEF Ranked
<1> QED
  BY <1>0, <1>3, <1>4, <1>5, <1>6, SettlingMine

-----------------------------------------------------------------------------
(* The end of a transaction *)

LEMMA EndTxMine ==
    ASSUME AnswerInv, NEW r \in Requests, pc[r] \in {"commit", "rollback"}, EndTx(r),
           \A s \in Requests : s # r => reply'[s] = reply[s]
    PROVE  /\ Apart(r)
           /\ pc'[r] = "done" /\ draft'[r] = NoOrder /\ req' = req
           /\ Holds(r)' /\ Signed(r)' /\ Priced(r)' /\ Filled(r)' /\ Ranked(r)'
           /\ Cardinality(pool') <= MaxConns
<1>1. /\ pc'[r] = "done" /\ draft'[r] = NoOrder /\ req' = req
      /\ pool' = pool \ {r}
      /\ rowLock' = [p \in Products |-> IF rowLock[p] = r THEN None ELSE rowLock[p]]
      /\ orderLock' = [o \in Requests |-> IF orderLock[o] = r THEN None ELSE orderLock[o]]
  BY DEF EndTx, ReleaseLocks, ReleaseConnection, Goto, AnswerInv, StockInv, Inv, TypeOK
<1>2. \A s \in Requests : s # r => SameWork(s)
  BY DEF EndTx, Goto, SameWork, AnswerInv, StockInv, Inv, TypeOK
<1>3. Apart(r)
  BY <1>1, <1>2, ConstantFacts DEF Apart
<1>4. Holds(r)' /\ Signed(r)' /\ Priced(r)' /\ Filled(r)' /\ Ranked(r)'
  BY <1>1, ConstantFacts DEF Holds, Signed, Priced, Filled, Ranked, Making, NoOrder
<1>5. Cardinality(pool') <= MaxConns
  <2>1. IsFiniteSet(pool)
    BY FS_Subset, ConstantsAssumption DEF AnswerInv, StockInv, Inv, TypeOK
  <2>2. IsFiniteSet(pool') /\ Cardinality(pool') <= Cardinality(pool)
    BY <1>1, <2>1, FS_Subset
  <2>3. Cardinality(pool) \in Nat /\ Cardinality(pool') \in Nat
    BY <2>1, <2>2, FS_CardinalityType
  <2> QED
    BY <2>2, <2>3, ConstantsAssumption DEF AnswerInv
<1> QED
  BY <1>1, <1>3, <1>4, <1>5

LEMMA RollbackMine ==
    ASSUME AnswerInv, NEW r \in Requests, Rollback(r)
    PROVE  MineInv' /\ EntryInv' /\ Cardinality(pool') <= MaxConns
<1>1. pc[r] = "rollback" /\ EndTx(r) /\ UNCHANGED <<orders, price, reply>>
  BY DEF Rollback, db
<1>2. Told(r)'
  <2>1. reply[r] # "OK"
    BY <1>1 DEF AnswerInv, MineInv, Mine, Told
  <2> QED
    BY <1>1, <2>1 DEF Told
<1>3. Apart(r) /\ Mine(r)' /\ Cardinality(pool') <= MaxConns
  BY <1>1, <1>2, EndTxMine DEF Mine
<1> QED
  BY <1>1, <1>3, QuietStep

(* What a commit writes, beyond AtCommit: the caller's order, dated as it should be, and for a
   create exactly what was asked for at the current prices. *)
LEMMA RowAtCommit ==
    ASSUME AnswerInv, NEW r \in Requests, pc[r] = "commit"
    PROVE  LET old == orders[req[r].order]
               new == WrittenOrder(r)
           IN  /\ new.user = req[r].user
               /\ new.cancelledAt <=> new.status = "CANCELLED"
               /\ req[r].op = "create" =>
                     /\ new = draft[r] /\ new.status = "PENDING"
                     /\ old = NoOrder
                     /\ req[r].lines \in Baskets /\ req[r].lines # << >>
                     /\ ~SameProductTwice(req[r].lines) /\ PositiveQuantities(req[r].lines)
                     /\ Asked(new.quantity, req[r].lines, Refs(req[r].lines))
                     /\ \A p \in Products :
                           /\ new.quantity[p] # 0 => new.unitPrice[p] = price[p]
                           /\ new.quantity[p] = 0 => new.unitPrice[p] = 0
               /\ req[r].op # "create" =>
                     new = [old EXCEPT !.status = IF req[r].op = "confirm" THEN "CONFIRMED"
                                                  ELSE "CANCELLED",
                                       !.cancelledAt = (req[r].op = "cancel")]
<1>1. /\ Mine(r) /\ Work(r) /\ todo[r] = {} /\ StockInv
      /\ req[r].order \in Requests
  BY AtCommit DEF AnswerInv, MineInv, StockInv, WorkInv, Work, Stage
<1>2. orders[req[r].order] \in Order /\ draft[r] \in Order
  BY <1>1 DEF StockInv, Inv, TypeOK
<1>3. CASE req[r].op = "create"
  <2>1. Built(r) /\ Signed(r) /\ WrittenOrder(r) = draft[r]
    BY <1>1, <1>3 DEF Mine, Work, WrittenOrder
  <2>2. Asked(draft[r].quantity, req[r].lines, Refs(req[r].lines))
    <3>1. Refs(req[r].lines) \ todo[r] = Refs(req[r].lines)
      BY <1>1
    <3> QED
      BY <1>1, <1>3, <2>1, <3>1 DEF Mine, Filled, Making, Built
  <2>3. orders[req[r].order] = NoOrder
    BY <1>1, <1>3, AtCommit DEF AnswerInv, EntryInv, Entry
  <2>4. \A p \in Products :
             /\ draft[r].quantity[p] # 0 => draft[r].unitPrice[p] = price[p]
             /\ draft[r].unitPrice[p] # 0 =>
                   \E ref \in Refs(req[r].lines) : ProductOf[ref] = p
    BY <1>1, <1>3 DEF Mine, Priced, Making
  <2>5. ASSUME NEW p \in Products, draft[r].quantity[p] = 0
        PROVE  draft[r].unitPrice[p] = 0
    <3> SUFFICES ASSUME draft[r].unitPrice[p] # 0 PROVE FALSE
      OBVIOUS
    <3>1. PICK ref \in Refs(req[r].lines) : ProductOf[ref] = p
      BY <2>4
    <3>2. draft[r].quantity[p] = MergedQuantity(req[r].lines, ref)
      BY <2>2, <3>1 DEF Asked
    <3> QED
      BY <2>1, <2>5, <3>2 DEF Built, PositiveQuantities
  <2> QED
    BY <1>3, <2>1, <2>2, <2>3, <2>4, <2>5 DEF Signed, Built, Making
<1>4. CASE req[r].op # "create"
  <2>1. Settling(r) /\ Signed(r)
    BY <1>1, <1>4 DEF Mine, Work
  <2>2. req[r].op \in {"confirm", "cancel"}
    BY <1>4, AtCommit DEF Input, Operations, AnswerInv
  <2>3. /\ draft[r].status = IF req[r].op = "confirm" THEN "CONFIRMED" ELSE "CANCELLED"
        /\ draft[r].cancelledAt = (req[r].op = "cancel")
        /\ orders[req[r].order].user = req[r].user
    BY <1>4, <2>1 DEF Settling, Signed
  <2>4. WrittenOrder(r) = [orders[req[r].order] EXCEPT !.status = draft[r].status,
                                                       !.cancelledAt = draft[r].cancelledAt]
    BY <1>4 DEF WrittenOrder
  <2> QED
    BY <1>2, <1>4, <2>2, <2>3, <2>4 DEF Order
<1> QED
  BY <1>3, <1>4

(* What a commit does to the book: one order moves on, its owner and its items stay. *)
LEMMA CommitBook ==
    ASSUME AnswerInv, NEW r \in Requests, NEW code, Commit(r, code)
    PROVE  /\ pc[r] = "commit" /\ EndTx(r) /\ price' = price
           /\ reply' = [reply EXCEPT ![r] = code]
           /\ orders'[req[r].order] = WrittenOrder(r)
           /\ \A x \in Requests : x # req[r].order => orders'[x] = orders[x]
           /\ \A x \in Requests :
                 orders[x].status # "NONE" =>
                     /\ orders'[x].user = orders[x].user
                     /\ orders'[x].quantity = orders[x].quantity
                     /\ orders'[x].unitPrice = orders[x].unitPrice
                     /\ orders'[x].status # "NONE"
                     /\ orders[x].status # "PENDING" => orders'[x] = orders[x]
<1>1. /\ pc[r] = "commit" /\ EndTx(r) /\ price' = price
      /\ reply' = [reply EXCEPT ![r] = code]
      /\ orders' = [orders EXCEPT ![req[r].order] = WrittenOrder(r)]
  BY DEF Commit
<1>2. req[r].order \in Requests
  BY <1>1, AtCommit DEF AnswerInv
<1>3. /\ orders'[req[r].order] = WrittenOrder(r)
      /\ \A x \in Requests : x # req[r].order => orders'[x] = orders[x]
  BY <1>1, <1>2 DEF AnswerInv, StockInv, Inv, TypeOK
<1>4. ASSUME orders[req[r].order].status # "NONE"
      PROVE  LET x == req[r].order IN
             /\ orders'[x].user = orders[x].user
             /\ orders'[x].quantity = orders[x].quantity
             /\ orders'[x].unitPrice = orders[x].unitPrice
             /\ orders'[x].status # "NONE"
             /\ orders[x].status = "PENDING"
  <2>1. req[r].op # "create"
    BY <1>1, <1>4, AtCommit DEF AnswerInv
  <2>2. orders[req[r].order] \in Order /\ orders[req[r].order].status = "PENDING"
    BY <1>1, <1>2, <2>1, AtCommit DEF AnswerInv, StockInv, Inv, TypeOK
  <2>3. WrittenOrder(r) = [orders[req[r].order] EXCEPT
            !.status = IF req[r].op = "confirm" THEN "CONFIRMED" ELSE "CANCELLED",
            !.cancelledAt = (req[r].op = "cancel")]
    BY <1>1, <2>1, RowAtCommit
  <2> QED
    BY <1>3, <2>2, <2>3 DEF Order
<1> QED
  BY <1>1, <1>3, <1>4

LEMMA CommitMine ==
    ASSUME AnswerInv, NEW r \in Requests, NEW code \in {"OK", "INTERNAL_ERROR"}, Commit(r, code)
    PROVE  MineInv' /\ EntryInv' /\ Cardinality(pool') <= MaxConns
<1> DEFINE o == req[r].order
<1>1. /\ pc[r] = "commit" /\ EndTx(r) /\ price' = price
      /\ o \in Requests /\ req[r] \in Input
      /\ reply'[r] = code
      /\ \A s \in Requests : s # r => reply'[s] = reply[s]
  BY CommitBook, AtCommit DEF AnswerInv, StockInv, Inv, TypeOK
<1>2. /\ Apart(r) /\ pc'[r] = "done" /\ req' = req
      /\ Holds(r)' /\ Signed(r)' /\ Priced(r)' /\ Filled(r)' /\ Ranked(r)'
      /\ Cardinality(pool') <= MaxConns
  BY <1>1, EndTxMine
<1>3. /\ orders'[o] = WrittenOrder(r)
      /\ \A x \in Requests : x # o => orders'[x] = orders[x]
      /\ \A x \in Requests :
            orders[x].status # "NONE" =>
                /\ orders'[x].user = orders[x].user
                /\ orders'[x].quantity = orders[x].quantity
                /\ orders'[x].status # "NONE"
                /\ orders[x].status # "PENDING" => orders'[x] = orders[x]
  BY CommitBook
<1>4. /\ WrittenOrder(r).user = req[r].user
      /\ WrittenOrder(r).cancelledAt <=> WrittenOrder(r).status = "CANCELLED"
      /\ req[r].op = "create" => WrittenOrder(r).status = "PENDING" /\ o = r
      /\ req[r].op = "confirm" => WrittenOrder(r).status = "CONFIRMED"
      /\ req[r].op = "cancel" => WrittenOrder(r).status = "CANCELLED"
  BY <1>1, RowAtCommit, AtCommit DEF AnswerInv
<1>5. Told(r)'
  BY <1>2, <1>3, <1>4 DEF Told
<1>6. ASSUME NEW s \in Requests, s # r PROVE Mine(s)'
  <2>1. Mine(s) /\ SameWork(s) /\ reply'[s] = reply[s] /\ Work(s)
    BY <1>2, <1>6 DEF AnswerInv, MineInv, Apart, StockInv, WorkInv
  <2>2. Holds(s)' /\ Priced(s)' /\ Filled(s)' /\ Ranked(s)'
    BY <1>1, <1>2, <1>6, <2>1 DEF Mine, Holds, Priced, Filled, Ranked, SameWork, Apart
  <2>3. pc[s] # "idle" => req[s] \in Input /\ req[s].order \in Requests
    BY DEF AnswerInv, StockInv, Inv, RequestInv, Input
  <2>4. Signed(s)'
    <3>1. req[s].op # "create" /\ pc[s] \in {"restore", "update", "commit"} =>
              orders'[req[s].order].user = orders[req[s].order].user
      BY <1>3, <2>1, <2>3 DEF Work, Settling
    <3> QED
      BY <2>1, <3>1 DEF Mine, Signed, SameWork
  <2>5. Told(s)'
    <3> SUFFICES ASSUME reply[s] = "OK"
                 PROVE  /\ orders'[req[s].order].user = req[s].user
                        /\ req[s].op = "create" => orders'[s].status # "NONE"
                        /\ req[s].op = "confirm" =>
                              orders'[req[s].order].status = "CONFIRMED"
                        /\ req[s].op = "cancel" =>
                              orders'[req[s].order].status = "CANCELLED"
      BY <2>1 DEF Mine, Told, SameWork
    <3>1. /\ pc[s] = "done" /\ req[s].op \in Operations
          /\ req[s].order \in Requests
          /\ req[s].op = "create" => req[s].order = s
      BY <2>1, <2>3 DEF Mine, Told, Input, Work, Stage
    <3>2. orders[req[s].order].status # "NONE"
      BY <2>1, <3>1 DEF Mine, Told, Operations
    <3> QED
      BY <1>3, <2>1, <3>1, <3>2 DEF Mine, Told
  <2> QED
    BY <2>2, <2>4, <2>5 DEF Mine
<1>7. ASSUME NEW x \in Requests PROVE Entry(x)'
  <2>1. Entry(x) /\ Row(x)
    BY DEF AnswerInv, EntryInv, StockInv, RowInv
  <2>2. CASE x # o
    <3>1. orders'[x] = orders[x] /\ (orders[x].status # "NONE" => x # r)
      BY <1>1, <1>3, <2>1, <2>2 DEF Row
    <3> QED
      BY <1>1, <1>2, <2>1, <3>1 DEF Entry
  <2>3. CASE x = o /\ req[r].op = "create"
    <3>1. /\ req[r].lines \in Baskets
          /\ ~SameProductTwice(req[r].lines) /\ PositiveQuantities(req[r].lines)
          /\ Asked(WrittenOrder(r).quantity, req[r].lines, Refs(req[r].lines))
      BY <1>1, <2>3, RowAtCommit
    <3> QED
      BY <1>1, <1>2, <1>3, <1>4, <2>3, <3>1 DEF Entry
  <2>4. CASE x = o /\ req[r].op # "create"
    <3>1. orders[x].status = "PENDING" /\ x # r
      BY <1>1, <2>1, <2>4, AtCommit DEF AnswerInv, Row
    <3> QED
      BY <1>1, <1>2, <1>3, <1>4, <2>1, <2>4, <3>1 DEF Entry
  <2> QED
    BY <2>2, <2>3, <2>4
<1> QED
  BY <1>2, <1>5, <1>6, <1>7 DEF MineInv, EntryInv, Mine

LEMMA FailMine ==
    ASSUME AnswerInv, NEW r \in Requests, Fail(r) \/ DeadlockVictim(r)
    PROVE  MineInv' /\ EntryInv' /\ pool' = pool
<1>1. Abort(r, "INTERNAL_ERROR") /\ UNCHANGED locks
  BY DEF Fail, DeadlockVictim
<1>2. pc[r] \in InTx
  BY DEF Fail, DeadlockVictim, Deadlock, Awaits
<1> QED
  BY <1>1, <1>2, AbortMine DEF locks

(* An operator cannot change the price of a row that a transaction has locked. *)
LEMMA RepriceMine ==
    ASSUME AnswerInv, NEW p \in Products, Reprice(p)
    PROVE  MineInv' /\ EntryInv' /\ pool' = pool
<1>1. /\ UNCHANGED <<orders, rowLock, orderLock, pool, pc, req, todo, draft, reply>>
      /\ rowLock[p] = None
      /\ \A x \in Products : x # p => price'[x] = price[x]
  BY DEF Reprice, locks, work, AnswerInv, StockInv, Inv, TypeOK
<1>2. ASSUME NEW s \in Requests PROVE Mine(s)'
  <2>1. Mine(s)
    BY DEF AnswerInv, MineInv
  <2>2. Holds(s)' /\ Signed(s)' /\ Filled(s)' /\ Told(s)' /\ Ranked(s)'
    BY <1>1, <2>1 DEF Mine, Holds, Signed, Filled, Told, Ranked
  <2>3. Priced(s)'
    BY <1>1, <2>1, ConstantFacts DEF Mine, Priced
  <2> QED
    BY <2>2, <2>3 DEF Mine
<1>3. ASSUME NEW o \in Requests PROVE Entry(o)'
  BY <1>1 DEF AnswerInv, EntryInv, Entry
<1> QED
  BY <1>1, <1>2, <1>3 DEF MineInv, EntryInv

-----------------------------------------------------------------------------
(* The invariant *)

LEMMA AnswerInvInit == Init => AnswerInv
<1> SUFFICES ASSUME Init PROVE AnswerInv
  OBVIOUS
<1>1. ASSUME NEW r \in Requests PROVE Mine(r)
  <2>1. /\ pc[r] = "idle" /\ req[r].op = "none" /\ reply[r] = "NONE"
        /\ pool = {}
        /\ \A p \in Products : rowLock[p] = None
        /\ \A o \in Requests : orderLock[o] = None
    BY DEF Init, NoInput
  <2> QED
    BY <2>1, ConstantFacts DEF Mine, Holds, Signed, Priced, Filled, Told, Ranked
<1>2. ASSUME NEW o \in Requests PROVE Entry(o)
  BY DEF Init, Entry, NoOrder
<1>3. Cardinality(pool) <= MaxConns
  <2>1. Cardinality(pool) = 0
    BY FS_EmptySet DEF Init
  <2> QED
    BY <2>1, ConstantsAssumption
<1> QED
  BY <1>1, <1>2, <1>3, StockInvInit DEF AnswerInv, MineInv, EntryInv

LEMMA AnswerInvStep == AnswerInv /\ [Next]_vars => AnswerInv'
<1> SUFFICES ASSUME AnswerInv, [Next]_vars
             PROVE  MineInv' /\ EntryInv' /\ Cardinality(pool') <= MaxConns
  BY StockInvStep DEF AnswerInv
<1>0. pool' = pool => Cardinality(pool') <= MaxConns
  BY DEF AnswerInv
<1>1. ASSUME NEW r \in Requests, ReceiveCreate(r) \/ ReceiveTransition(r)
      PROVE  MineInv' /\ EntryInv' /\ pool' = pool
  BY <1>1, ReceiveMine
<1>2. ASSUME NEW r \in Requests, Begin(r) \/ BeginFails(r)
      PROVE  MineInv' /\ EntryInv' /\ Cardinality(pool') <= MaxConns
  BY <1>2, BeginMine
<1>3. ASSUME NEW r \in Requests, GetProduct(r) \/ DecrementStock(r) \/ InsertOrder(r)
      PROVE  MineInv' /\ EntryInv' /\ pool' = pool
  BY <1>3, GetProductMine, DecrementStockMine, InsertOrderMine
<1>4. ASSUME NEW r \in Requests, GetOrder(r) \/ IncrementStock(r) \/ UpdateStatus(r)
      PROVE  MineInv' /\ EntryInv' /\ pool' = pool
  BY <1>4, GetOrderMine, IncrementStockMine, UpdateStatusMine
<1>5. ASSUME NEW r \in Requests, CommitAcknowledged(r) \/ CommitUnacknowledged(r)
      PROVE  MineInv' /\ EntryInv' /\ Cardinality(pool') <= MaxConns
  BY <1>5, CommitMine DEF CommitAcknowledged, CommitUnacknowledged
<1>6. ASSUME NEW r \in Requests, Rollback(r)
      PROVE  MineInv' /\ EntryInv' /\ Cardinality(pool') <= MaxConns
  BY <1>6, RollbackMine
<1>7. ASSUME NEW r \in Requests, Fail(r) \/ DeadlockVictim(r)
      PROVE  MineInv' /\ EntryInv' /\ pool' = pool
  BY <1>7, FailMine
<1>8. ASSUME NEW p \in Products, Reprice(p)
      PROVE  MineInv' /\ EntryInv' /\ pool' = pool
  BY <1>8, RepriceMine
<1>9. CASE UNCHANGED vars
  <2>1. UNCHANGED <<orders, price, rowLock, orderLock, pool, pc, req, todo, draft, reply>>
    BY <1>9 DEF vars, db, locks, work
  <2>2. ASSUME NEW s \in Requests PROVE Mine(s)'
    <3>1. Mine(s)
      BY DEF AnswerInv, MineInv
    <3>2. Holds(s)' /\ Signed(s)'
      BY <2>1, <3>1 DEF Mine, Holds, Signed
    <3>3. Priced(s)' /\ Filled(s)'
      BY <2>1, <3>1 DEF Mine, Priced, Filled
    <3>4. Told(s)' /\ Ranked(s)'
      BY <2>1, <3>1 DEF Mine, Told, Ranked
    <3> QED
      BY <3>2, <3>3, <3>4 DEF Mine
  <2>3. ASSUME NEW o \in Requests PROVE Entry(o)'
    BY <2>1 DEF AnswerInv, EntryInv, Entry
  <2> QED
    BY <1>0, <2>1, <2>2, <2>3 DEF MineInv, EntryInv
<1> QED
  BY <1>0, <1>1, <1>2, <1>3, <1>4, <1>5, <1>6, <1>7, <1>8, <1>9 DEF Next, Serve

LEMMA AnswerInvAlways == Safety => []AnswerInv
BY AnswerInvInit, AnswerInvStep, PTL DEF Safety

-----------------------------------------------------------------------------
(* The theorems *)

(* A request that has been answered holds no row lock and no connection on any path out of WithinTx
   (tx.go:39-62), and the pool is never overdrawn. *)
THEOREM NothingLeaksTheorem == Safety => []NothingLeaks
<1>1. AnswerInv => NothingLeaks
  BY DEF AnswerInv, MineInv, Mine, Holds, NothingLeaks
<1> QED
  BY <1>1, AnswerInvAlways, PTL

(* Whatever fails between the statements of a request, its answer can be believed: success means
   that the effect is in the database, a domain error that no order was placed (tx.go:55-62). *)
THEOREM AnswerIsTrueTheorem == Safety => []AnswerIsTrue
<1>1. AnswerInv => AnswerIsTrue
  <2> SUFFICES ASSUME AnswerInv, NEW r \in Requests, pc[r] = "done"
               PROVE  /\ reply[r] = "OK" =>
                            /\ orders[req[r].order].user = req[r].user
                            /\ req[r].op = "create"  => orders[r].status # "NONE"
                            /\ req[r].op = "confirm" =>
                                  orders[req[r].order].status = "CONFIRMED"
                            /\ req[r].op = "cancel"  =>
                                  orders[req[r].order].status = "CANCELLED"
                      /\ reply[r] \in DomainErrors => orders[r].status = "NONE"
    BY DEF AnswerIsTrue
  <2>1. Told(r) /\ Entry(r)
    BY DEF AnswerInv, MineInv, Mine, EntryInv
  <2> QED
    BY <2>1 DEF Told, Entry, DomainErrors
<1> QED
  BY <1>1, AnswerInvAlways, PTL

(* Requests are told OK by commits only. *)
LEMMA OkOnlyByCommit ==
    ASSUME AnswerInv, [Next]_vars,
           ~ \E r \in Requests : CommitAcknowledged(r) \/ CommitUnacknowledged(r),
           NEW s \in Requests, reply'[s] = "OK"
    PROVE  reply[s] = "OK" /\ req'[s] = req[s]
<1> USE DEF Goto
<1>0. ASSUME NEW r \in Requests, NEW code, code # "OK", reply' = [reply EXCEPT ![r] = code]
      PROVE  s # r /\ reply[s] = "OK"
  BY <1>0 DEF AnswerInv, StockInv, Inv, TypeOK
<1>1. ASSUME NEW r \in Requests, ReceiveCreate(r) PROVE reply[s] = "OK" /\ req'[s] = req[s]
  <2>1. pc[r] = "idle"
    BY <1>1 DEF ReceiveCreate
  <2>2. reply[r] # "OK"
    BY <2>1 DEF AnswerInv, MineInv, Mine, Told
  <2>3. /\ \A lines : Rejection(lines) # "OK"
        /\ \A x \in Requests : x # r => reply'[x] = reply[x] /\ req'[x] = req[x]
        /\ reply'[r] = reply[r] \/ \E lines : reply'[r] = Rejection(lines)
    BY <1>1 DEF ReceiveCreate, Rejection, AnswerInv, StockInv, Inv, TypeOK
  <2> QED
    BY <2>2, <2>3
<1>2. ASSUME NEW r \in Requests, ReceiveTransition(r) PROVE reply[s] = "OK" /\ req'[s] = req[s]
  <2>1. reply' = reply /\ pc[r] = "idle" /\ \A x \in Requests : x # r => req'[x] = req[x]
    BY <1>2 DEF ReceiveTransition, AnswerInv, StockInv, Inv, TypeOK
  <2> QED
    BY <2>1 DEF AnswerInv, MineInv, Mine, Told
<1>3. ASSUME NEW r \in Requests, Begin(r) \/ BeginFails(r)
      PROVE  reply[s] = "OK" /\ req'[s] = req[s]
  BY <1>0, <1>3 DEF Begin, BeginFails
<1>4. ASSUME NEW r \in Requests, GetProduct(r) \/ DecrementStock(r) \/ InsertOrder(r)
      PROVE  reply[s] = "OK" /\ req'[s] = req[s]
  BY <1>0, <1>4 DEF GetProduct, DecrementStock, InsertOrder, Abort
<1>5. ASSUME NEW r \in Requests, GetOrder(r) \/ IncrementStock(r) \/ UpdateStatus(r)
      PROVE  reply[s] = "OK" /\ req'[s] = req[s]
  BY <1>0, <1>5 DEF GetOrder, IncrementStock, UpdateStatus, Abort
<1>6. ASSUME NEW r \in Requests, Rollback(r) \/ Fail(r) \/ DeadlockVictim(r)
      PROVE  reply[s] = "OK" /\ req'[s] = req[s]
  BY <1>0, <1>6 DEF Rollback, Fail, DeadlockVictim, Abort, EndTx
<1>7. CASE (\E p \in Products : Reprice(p)) \/ UNCHANGED vars
  BY <1>7 DEF Reprice, vars
<1> QED
  BY <1>1, <1>2, <1>3, <1>4, <1>5, <1>6, <1>7 DEF Next, Serve

(* Two transitions of one order cannot both be told that they succeeded: the one that commits
   second would have found the order settled under its lock (order_repo.go:47-51). *)
THEOREM OneTransitionWinsTheorem == Safety => []OneTransitionWins
<1>1. Init => OneTransitionWins
  BY DEF Init, OneTransitionWins
<1>2. AnswerInv /\ OneTransitionWins /\ [Next]_vars => OneTransitionWins'
  <2> SUFFICES ASSUME AnswerInv, OneTransitionWins, [Next]_vars,
                      NEW r \in Requests, NEW s \in Requests, r # s,
                      req'[r].op \in {"confirm", "cancel"}, req'[s].op \in {"confirm", "cancel"},
                      reply'[r] = "OK", reply'[s] = "OK"
               PROVE  req'[r].order # req'[s].order
    BY DEF OneTransitionWins
  <2>1. CASE ~ \E t \in Requests : CommitAcknowledged(t) \/ CommitUnacknowledged(t)
    <3>1. /\ reply[r] = "OK" /\ req'[r] = req[r]
          /\ reply[s] = "OK" /\ req'[s] = req[s]
      BY <2>1, OkOnlyByCommit
    <3> QED
      BY <3>1 DEF OneTransitionWins
  <2>2. ASSUME NEW t \in Requests, NEW code, Commit(t, code)
        PROVE  req'[r].order # req'[s].order
    <3>1. /\ req' = req /\ pc[t] = "commit"
          /\ \A x \in Requests : x # t => reply'[x] = reply[x]
      BY <2>2, CommitBook DEF EndTx, AnswerInv, StockInv, Inv, TypeOK
    <3>2. ASSUME NEW x \in Requests, x # t, req[t].op # "create",
                 req[x].op \in {"confirm", "cancel"}, reply[x] = "OK"
          PROVE  req[x].order # req[t].order
      <4>1. orders[req[t].order].status = "PENDING"
        BY <3>1, <3>2, AtCommit DEF AnswerInv
      <4>2. orders[req[x].order].status \in {"CONFIRMED", "CANCELLED"}
        BY <3>2 DEF AnswerInv, MineInv, Mine, Told
      <4> QED
        BY <4>1, <4>2
    <3>3. CASE t # r /\ t # s
      BY <3>1, <3>3 DEF OneTransitionWins
    <3>4. CASE t = r
      BY <3>1, <3>2, <3>4
    <3>5. CASE t = s
      BY <3>1, <3>2, <3>5
    <3> QED
      BY <3>3, <3>4, <3>5
  <2> QED
    BY <2>1, <2>2 DEF CommitAcknowledged, CommitUnacknowledged
<1> QED
  BY <1>1, <1>2, AnswerInvAlways, PTL DEF Safety

(* An order that is in the database never disappears, and its items, prices and owner never change;
   once settled nothing of it does (order.go:60-78, UpdateStatus). *)
THEOREM HistoryIsKeptTheorem == Safety => HistoryIsKept
<1>1. ASSUME AnswerInv, AnswerInv', [Next]_vars, NEW o \in Requests, orders[o].status # "NONE"
      PROVE  /\ orders'[o].quantity = orders[o].quantity
             /\ orders'[o].unitPrice = orders[o].unitPrice
             /\ orders'[o].user = orders[o].user
             /\ orders[o].status # "PENDING" => orders'[o] = orders[o]
             /\ orders'[o].cancelledAt <=> orders'[o].status = "CANCELLED"
  <2>1. ASSUME NEW r \in Requests, NEW code, Commit(r, code)
        PROVE  /\ orders'[o].quantity = orders[o].quantity
               /\ orders'[o].unitPrice = orders[o].unitPrice
               /\ orders'[o].user = orders[o].user
               /\ orders'[o].status # "NONE"
               /\ orders[o].status # "PENDING" => orders'[o] = orders[o]
    BY <1>1, <2>1, CommitBook
  <2>2. CASE ~ \E r \in Requests : CommitAcknowledged(r) \/ CommitUnacknowledged(r)
    <3>1. orders' = orders
      BY <1>1, <2>2, OnlyCommitsMove DEF AnswerInv
    <3>2. Entry(o)
      BY <1>1 DEF AnswerInv, EntryInv
    <3> QED
      BY <1>1, <3>1, <3>2 DEF Entry
  <2>3. orders'[o].status # "NONE" =>
            (orders'[o].cancelledAt <=> orders'[o].status = "CANCELLED")
    BY <1>1 DEF AnswerInv, EntryInv, Entry
  <2> QED
    BY <1>1, <2>1, <2>2, <2>3 DEF CommitAcknowledged, CommitUnacknowledged
<1>2. AnswerInv /\ AnswerInv' /\ [Next]_vars =>
          [\A o \in Requests :
              orders[o].status # "NONE" =>
                  /\ orders'[o].quantity = orders[o].quantity
                  /\ orders'[o].unitPrice = orders[o].unitPrice
                  /\ orders'[o].user = orders[o].user
                  /\ orders[o].status # "PENDING" => orders'[o] = orders[o]
                  /\ orders'[o].cancelledAt <=> orders'[o].status = "CANCELLED"]_vars
  BY <1>1
<1> QED
  BY <1>2, AnswerInvAlways, PTL DEF Safety, HistoryIsKept

(* The price read under the row lock is still the product's price when the order becomes visible,
   however many statements later (order_usecase.go:71, product_repo.go:89-100). *)
THEOREM SoldAtCurrentPriceTheorem == Safety => SoldAtCurrentPrice
<1>1. ASSUME AnswerInv, [Next]_vars, NEW o \in Requests, NEW p \in Products,
             orders[o].status = "NONE", orders'[o].status # "NONE", orders'[o].quantity[p] > 0
      PROVE  orders'[o].unitPrice[p] = price'[p]
  <2>1. PICK r \in Requests, code \in {"OK", "INTERNAL_ERROR"} : Commit(r, code)
    BY <1>1, OnlyCommitsMove DEF CommitAcknowledged, CommitUnacknowledged, AnswerInv
  <2>2. /\ pc[r] = "commit" /\ price' = price
        /\ orders'[req[r].order] = WrittenOrder(r)
        /\ \A x \in Requests : x # req[r].order => orders'[x] = orders[x]
    BY <1>1, <2>1, CommitBook
  <2>3. o = req[r].order
    BY <1>1, <2>2
  <2>4. req[r].op = "create"
    BY <1>1, <2>2, <2>3, AtCommit DEF AnswerInv
  <2>5. \A x \in Products : WrittenOrder(r).quantity[x] # 0 =>
                               WrittenOrder(r).unitPrice[x] = price[x]
    BY <1>1, <2>2, <2>4, RowAtCommit
  <2>6. WrittenOrder(r).quantity[p] # 0
    BY <1>1, <2>2, <2>3
  <2> QED
    BY <2>2, <2>3, <2>5, <2>6
<1>2. AnswerInv /\ [Next]_vars =>
          [\A o \in Requests :
              orders[o].status = "NONE" /\ orders'[o].status # "NONE" =>
                  \A p \in Products :
                      orders'[o].quantity[p] > 0 => orders'[o].unitPrice[p] = price'[p]]_vars
  BY <1>1
<1> QED
  BY <1>2, AnswerInvAlways, PTL DEF Safety, SoldAtCurrentPrice

-----------------------------------------------------------------------------
(* From here on clients stay within bounds that the code does not check: quantities whose sum fits
   in an int, and ids written as the server writes them.

   What was asked for *)

(* No sum of the quantities of one reference exceeds an int. *)
SumsFit ==
    \A lines \in Baskets, ref \in ProductRefs :
        Cardinality(RequestedUnits(lines, ref)) <= IntMax

LEMMA WrapIntFits == \A n \in 0..IntMax : WrapInt(n) = n
<1> SUFFICES ASSUME NEW n \in 0..IntMax PROVE WrapInt(n) = n
  OBVIOUS
<1>1. IntMax \in Nat /\ n \in Nat /\ n <= IntMax
  BY ConstantsAssumption
<1> DEFINE k == n + IntMax + 1
           w == 2 * (IntMax + 1)
<1>2. k \in Nat /\ w \in Nat /\ w > 0 /\ k < w /\ k - (IntMax + 1) = n
  BY <1>1
<1> HIDE DEF k, w
<1>3. k % w = k
  BY <1>2
<1> QED
  BY <1>2, <1>3 DEF WrapInt, k, w

LEMMA MergedFits ==
    ASSUME SumsFit, NEW lines \in Baskets, NEW ref \in ProductRefs
    PROVE  MergedQuantity(lines, ref) = Cardinality(RequestedUnits(lines, ref))
<1>1. lines \in Seq(Line)
  BY ConstantsAssumption
<1>2. IsFiniteSet(DOMAIN lines) /\ IsFiniteSet(1..IntMax)
  <2>1. DOMAIN lines = 1..Len(lines) /\ Len(lines) \in Int /\ IntMax \in Int /\ 1 \in Int
    BY <1>1, ConstantsAssumption
  <2> QED
    BY <2>1, FS_Interval, Zenon
<1>3. IsFiniteSet((DOMAIN lines) \X (1..IntMax))
  BY <1>2, FS_Product, Zenon
<1>4. IsFiniteSet(RequestedUnits(lines, ref))
  BY <1>3, FS_Subset DEF RequestedUnits
<1>5. Cardinality(RequestedUnits(lines, ref)) \in 0..IntMax
  BY <1>4, FS_CardinalityType, ConstantsAssumption DEF SumsFit
<1> QED
  BY <1>5, WrapIntFits DEF MergedQuantity

(* An order holds, for each product, exactly the units its request asked for, with repeated lines
   added up (order_usecase.go:45-52, 176-177), as long as no sum leaves the range of int. *)
THEOREM OrderAsRequestedTheorem ==
    ASSUME SumsFit
    PROVE  Safety => []OrderAsRequested
<1>1. AnswerInv => OrderAsRequested
  <2> SUFFICES ASSUME AnswerInv, NEW o \in Requests, orders[o].status # "NONE"
               PROVE  /\ req[o].op = "create"
                      /\ orders[o].user = req[o].user
                      /\ \A p \in Products : orders[o].quantity[p] = Requested(o, p)
    BY DEF OrderAsRequested
  <2> DEFINE lines == req[o].lines
  <2>1. /\ req[o].op = "create" /\ orders[o].user = req[o].user
        /\ lines \in Baskets /\ ~SameProductTwice(lines)
        /\ Asked(orders[o].quantity, lines, Refs(lines))
    BY DEF AnswerInv, EntryInv, Entry
  <2>2. \A i \in DOMAIN lines : lines[i].ref \in Refs(lines) /\ lines[i].ref \in ProductRefs
    <3>1. lines \in Seq(Line)
      BY <2>1, ConstantsAssumption
    <3>2. \A i \in DOMAIN lines : lines[i] \in Line
      BY <3>1
    <3> QED
      BY <3>2 DEF Refs, Line
  <2>3. ASSUME NEW p \in Products PROVE orders[o].quantity[p] = Requested(o, p)
    <3>1. CASE \E ref \in Refs(lines) : ProductOf[ref] = p
      <4>1. PICK ref \in Refs(lines) : ProductOf[ref] = p
        BY <3>1
      <4>2. \A i \in DOMAIN lines : ProductOf[lines[i].ref] = p <=> lines[i].ref = ref
        BY <2>1, <2>2, <4>1 DEF SameProductTwice
      <4>3. Requested(o, p) = Cardinality(RequestedUnits(lines, ref))
        <5>1. {u \in (DOMAIN lines) \X (1..IntMax) :
                  /\ ProductOf[lines[u[1]].ref] = p
                  /\ u[2] <= lines[u[1]].quantity} = RequestedUnits(lines, ref)
          BY <4>2 DEF RequestedUnits
        <5> QED
          BY <5>1 DEF Requested
      <4>4. ref \in ProductRefs
        BY <2>2 DEF Refs
      <4> HIDE DEF lines
      <4> QED
        BY <2>1, <4>1, <4>3, <4>4, MergedFits DEF Asked
    <3>2. CASE ~ \E ref \in Refs(lines) : ProductOf[ref] = p
      <4>1. orders[o].quantity[p] = 0
        BY <2>1, <3>2 DEF Asked
      <4>2. {u \in (DOMAIN lines) \X (1..IntMax) :
                /\ ProductOf[lines[u[1]].ref] = p
                /\ u[2] <= lines[u[1]].quantity} = {}
        BY <2>2, <3>2
      <4>3. Requested(o, p) = 0
        BY <4>2, FS_EmptySet DEF Requested
      <4> QED
        BY <4>1, <4>3
    <3> QED
      BY <3>1, <3>2
  <2> QED
    BY <2>1, <2>3
<1> QED
  BY <1>1, AnswerInvAlways, PTL

-----------------------------------------------------------------------------
(* Who waits for whom *)

RowWaiters == {r \in Requests : pc[r] \in {"read", "decrement", "restore"}}

(* The rows r waits for or will, in ascending order: the first is the next. *)
NextRow(r) == CHOOSE ref \in todo[r] : First(ref, todo[r])

(* The requests of R whose next row is above that of r. *)
Above(R, r) == {t \in R : NextRow(t) > NextRow(r)}

(* A request that waits for a row waits for one above all it holds; so does, above that, the one
   that holds the row if it waits in turn. *)
LEMMA Climb ==
    ASSUME AnswerInv, CanonicalRefs, NEW r \in Requests, NEW s \in Requests, NEW t \in Requests,
           Awaits(r, s), Awaits(s, t)
    PROVE  /\ s \in RowWaiters
           /\ r \in RowWaiters => /\ NextRow(r) \in Int /\ NextRow(s) \in Int
                                  /\ NextRow(r) < NextRow(s)
<1>1. Ranked(r) /\ Ranked(s) /\ Holds(s) /\ Work(s)
  BY DEF AnswerInv, MineInv, Mine, StockInv, WorkInv
<1>2. \A x \in Requests : \A a \in todo[x] : a \in Int /\ a \in ProductRefs
  BY ConstantsAssumption DEF AnswerInv, StockInv, Inv, TypeOK
<1>3. s \in RowWaiters
  <2>1. pc[s] # "find"
    <3>1. \/ \E p \in Products : rowLock[p] = s
          \/ \E o \in Requests : orderLock[o] = s
      <4>1. CASE \E ref \in todo[r] : ProductOf[ref] # None /\ rowLock[ProductOf[ref]] = s
        BY <1>2, <4>1, ConstantsAssumption
      <4>2. CASE pc[r] \in {"find", "update"} /\ orderLock[req[r].order] = s
        BY <4>2 DEF AnswerInv, StockInv, Inv, RequestInv, Input
      <4> QED
        BY <4>1, <4>2 DEF Awaits
    <3> QED
      BY <1>1, <3>1 DEF Ranked
  <2>2. pc[s] # "update"
    <3> SUFFICES ASSUME pc[s] = "update" PROVE FALSE
      OBVIOUS
    <3>1. orderLock[req[s].order] = s
      BY <1>1 DEF Work, Stage, Settling
    <3> QED
      BY <3>1 DEF Awaits
  <2> QED
    BY <2>1, <2>2 DEF Awaits, RowWaiters
<1>4. ASSUME NEW x \in RowWaiters, NEW y \in Requests, Awaits(x, y)
      PROVE  /\ NextRow(x) \in todo[x] /\ First(NextRow(x), todo[x])
             /\ NextRow(x) \in Products /\ rowLock[NextRow(x)] = y
  <2>1. PICK ref \in todo[x] : /\ First(ref, todo[x]) /\ ProductOf[ref] # None
                              /\ rowLock[ProductOf[ref]] = y
    BY <1>4 DEF Awaits, RowWaiters
  <2>2. \A a \in todo[x] : First(a, todo[x]) => a = ref
    BY <1>2, <1>4, <2>1 DEF First, RowWaiters
  <2>3. NextRow(x) = ref
    BY <2>1, <2>2 DEF NextRow
  <2>4. ProductOf[ref] = ref /\ ref \in Products
    <3>1. ref \in ProductRefs
      BY <1>2, <2>1, <1>4 DEF RowWaiters
    <3> QED
      BY <2>1, <3>1, ConstantsAssumption DEF CanonicalRefs
  <2> QED
    BY <2>1, <2>3, <2>4
<1>5. ASSUME r \in RowWaiters PROVE NextRow(r) < NextRow(s)
  <2>1. /\ NextRow(r) \in Products /\ rowLock[NextRow(r)] = s
        /\ NextRow(s) \in todo[s] /\ rowLock[NextRow(s)] = t
    BY <1>3, <1>4, <1>5
  <2>2. s # t
    BY DEF Awaits
  <2>3. NextRow(r) <= NextRow(s) /\ NextRow(r) # NextRow(s)
    <3>1. NextRow(r) # NextRow(s)
      BY <2>1, <2>2
    <3>2. CASE pc[s] = "decrement"
      BY <1>1, <2>1, <3>1, <3>2 DEF Ranked
    <3>3. CASE pc[s] \in {"read", "restore"}
      <4>1. NextRow(r) < NextRow(s)
        BY <1>1, <2>1, <3>3 DEF Ranked
      <4>2. NextRow(r) \in Int /\ NextRow(s) \in Int
        BY <1>2, <2>1, ConstantsAssumption
      <4> QED
        BY <4>1, <4>2
    <3> QED
      BY <1>3, <3>2, <3>3, <3>1 DEF RowWaiters
  <2>4. NextRow(r) \in Int /\ NextRow(s) \in Int
    BY <1>2, <2>1, ConstantsAssumption
  <2> QED
    BY <2>3, <2>4
<1>6. ASSUME r \in RowWaiters PROVE NextRow(r) \in Int /\ NextRow(s) \in Int
  <2>1. NextRow(r) \in todo[r] /\ NextRow(s) \in todo[s]
    BY <1>3, <1>4, <1>6
  <2> QED
    BY <1>2, <2>1
<1> QED
  BY <1>3, <1>5, <1>6

(* When clients write ids as the server does, the order in which mergeLines and itemsByOrderIDs
   take the locks keeps transactions from waiting for one another in a cycle: in a cycle the rows
   waited for would ascend for ever (order_usecase.go:191-194, order_repo.go:133). *)
THEOREM NoWaitCycleTheorem ==
    ASSUME CanonicalRefs
    PROVE  Safety => []NoWaitCycle
<1>1. AnswerInv => NoWaitCycle
  <2> SUFFICES ASSUME AnswerInv, NEW S \in SUBSET Requests, Deadlock(S) PROVE FALSE
    BY DEF NoWaitCycle
  <2> DEFINE R == S \cap RowWaiters
             T == {Above(R, r) : r \in R}
  <2>1. \A r \in S : \E s \in R : Awaits(r, s)
    <3> SUFFICES ASSUME NEW r \in S PROVE \E s \in R : Awaits(r, s)
      OBVIOUS
    <3>1. PICK s \in S : Awaits(r, s)
      BY DEF Deadlock
    <3>2. PICK t \in S : Awaits(s, t)
      BY DEF Deadlock
    <3> QED
      BY <3>1, <3>2, Climb
  <2>2. R # {} /\ R \subseteq Requests
    BY <2>1 DEF Deadlock
  <2>3. IsWellFoundedOn(StrictSubsetOrdering(Requests), SUBSET Requests)
    <3>1. FiniteSubsetsOf(Requests) = SUBSET Requests
      BY FS_FiniteSubsetsOfFinite, ConstantsAssumption, Zenon
    <3>2. IsWellFoundedOn(StrictSubsetOrdering(Requests), FiniteSubsetsOf(Requests))
      BY FS_StrictSubsetOrderingWellFounded, Zenon
    <3> QED
      BY <3>1, <3>2
  <2>4. T # {} /\ T \subseteq SUBSET Requests
    BY <2>2 DEF Above
  <2> HIDE DEF T
  <2>5. PICK least \in T : \A x \in T : <<x, least>> \notin StrictSubsetOrdering(Requests)
    BY <2>3, <2>4, WFMin
  <2>6. PICK r \in R : least = Above(R, r)
    BY <2>5 DEF T
  <2>7. PICK s \in R : Awaits(r, s)
    BY <2>1, <2>6
  <2>8. PICK t \in R : Awaits(s, t)
    BY <2>1, <2>7
  <2>9. NextRow(r) \in Int /\ NextRow(s) \in Int /\ NextRow(r) < NextRow(s)
    BY <2>2, <2>6, <2>7, <2>8, Climb
  <2>10. \A x \in R : NextRow(x) \in Int
    <3> SUFFICES ASSUME NEW x \in R PROVE NextRow(x) \in Int
      OBVIOUS
    <3>1. PICK y \in R : Awaits(x, y)
      BY <2>1
    <3>2. PICK z \in R : Awaits(y, z)
      BY <2>1, <3>1
    <3> QED
      BY <2>2, <3>1, <3>2, Climb
  <2>11. /\ Above(R, s) \subseteq Above(R, r)
         /\ s \in Above(R, r) /\ s \notin Above(R, s)
    BY <2>7, <2>9, <2>10 DEF Above
  <2>12. Above(R, s) \in T /\ Above(R, s) \in SUBSET Requests /\ least \in SUBSET Requests
    BY <2>4, <2>5, <2>7 DEF T
  <2> QED
    BY <2>5, <2>6, <2>11, <2>12 DEF StrictSubsetOrdering
<1> QED
  BY <1>1, AnswerInvAlways, PTL

-----------------------------------------------------------------------------
(* The order book *)

LEMMA SamePrices ==
    ASSUME [Next]_vars, ~ \E p \in Products : Reprice(p)
    PROVE  price' = price
<1> USE DEF Abort, db
<1>1. CASE UNCHANGED vars
  BY <1>1 DEF vars
<1>2. ASSUME NEW r \in Requests, ReceiveCreate(r) \/ ReceiveTransition(r) PROVE price' = price
  BY <1>2 DEF ReceiveCreate, ReceiveTransition
<1>3. ASSUME NEW r \in Requests, Begin(r) \/ BeginFails(r) PROVE price' = price
  BY <1>3 DEF Begin, BeginFails
<1>4. ASSUME NEW r \in Requests, GetProduct(r) \/ DecrementStock(r) \/ InsertOrder(r)
      PROVE  price' = price
  BY <1>4 DEF GetProduct, DecrementStock, InsertOrder
<1>5. ASSUME NEW r \in Requests, GetOrder(r) \/ IncrementStock(r) \/ UpdateStatus(r)
      PROVE  price' = price
  BY <1>5 DEF GetOrder, IncrementStock, UpdateStatus
<1>6. ASSUME NEW r \in Requests, Rollback(r) \/ Fail(r) \/ DeadlockVictim(r) PROVE price' = price
  BY <1>6 DEF Rollback, Fail, DeadlockVictim
<1>7. ASSUME NEW r \in Requests, CommitAcknowledged(r) \/ CommitUnacknowledged(r)
      PROVE  price' = price
  BY <1>7 DEF CommitAcknowledged, CommitUnacknowledged, Commit
<1> QED
  BY <1>1, <1>2, <1>3, <1>4, <1>5, <1>6, <1>7 DEF Next, Serve

(* The commit of a create is a purchase of what is on the shelf at today's prices. *)
LEMMA CommitIsPlace ==
    ASSUME AnswerInv, NEW r \in Requests, NEW code, Commit(r, code), req[r].op = "create"
    PROVE  /\ req[r].user \in Users
           /\ WrittenOrder(r).quantity \in [Products -> 0..Int4Max]
           /\ Book!Place(r, req[r].user, WrittenOrder(r).quantity)
<1> DEFINE new == WrittenOrder(r)
<1>1. /\ pc[r] = "commit" /\ price' = price
      /\ stock' = [p \in Products |-> stock[p] + delta[r][p]]
      /\ orders' = [orders EXCEPT ![req[r].order] = new]
  BY DEF Commit, Visible
<1>2. /\ req[r].order = r /\ req[r] \in Input /\ new \in Order
      /\ \A p \in Products : new.quantity[p] \in 0..Int4Max /\ delta[r][p] = -new.quantity[p]
  BY <1>1, AtCommit DEF AnswerInv
<1>3. /\ new = draft[r] /\ new.status = "PENDING" /\ new.user = req[r].user
      /\ new.cancelledAt <=> new.status = "CANCELLED"
      /\ orders[r] = NoOrder
      /\ req[r].lines \in Baskets /\ req[r].lines # << >>
      /\ PositiveQuantities(req[r].lines)
      /\ Asked(new.quantity, req[r].lines, Refs(req[r].lines))
      /\ \A p \in Products :
            /\ new.quantity[p] # 0 => new.unitPrice[p] = price[p]
            /\ new.quantity[p] = 0 => new.unitPrice[p] = 0
  BY <1>1, <1>2, RowAtCommit
<1>4. \A p \in Products : stock[p] \in Int /\ stock[p] + delta[r][p] >= 0
  BY ConstantFacts DEF AnswerInv, StockInv, Inv, TypeOK, VisibleInv, Visible
<1> HIDE DEF new
<1>5. new.quantity \in [Products -> 0..Int4Max] /\ req[r].user \in Users
  BY <1>2 DEF Order, Input
<1>6. \A p \in Products : new.quantity[p] \in Int /\ (new.quantity[p] # 0 <=> new.quantity[p] > 0)
  BY <1>2, ConstantFacts
<1>7. \E p \in Products : new.quantity[p] > 0
  <2>1. PICK i \in DOMAIN req[r].lines : TRUE
    <3> DEFINE lines == req[r].lines
    <3>1. lines \in Seq(Line) /\ lines # << >>
      BY <1>3, ConstantsAssumption
    <3> HIDE DEF lines
    <3>2. Len(lines) \in Nat /\ Len(lines) # 0 /\ DOMAIN lines = 1..Len(lines)
      BY <3>1
    <3>3. 1 \in DOMAIN lines
      BY <3>2
    <3> QED
      BY <3>3 DEF lines
  <2>2. req[r].lines[i].ref \in Refs(req[r].lines)
    BY <2>1 DEF Refs
  <2> QED
    BY <1>3, <2>2 DEF Asked, PositiveQuantities
<1>8. \A p \in Products : new.quantity[p] <= stock[p]
  BY <1>2, <1>4, <1>6
<1>9. stock' = [p \in Products |-> stock[p] - new.quantity[p]]
  BY <1>1, <1>2, <1>4, <1>6
<1>10. new = [status |-> "PENDING", user |-> req[r].user, quantity |-> new.quantity,
              unitPrice |-> [p \in Products |-> IF new.quantity[p] > 0 THEN price[p] ELSE 0],
              cancelledAt |-> FALSE]
  <2>1. new.unitPrice = [p \in Products |-> IF new.quantity[p] > 0 THEN price[p] ELSE 0]
    BY <1>2, <1>3, <1>6 DEF Order
  <2>2. new.cancelledAt = FALSE
    BY <1>2, <1>3 DEF Order
  <2> QED
    BY <1>2, <1>3, <2>1, <2>2 DEF Order
<1>11. orders[r] = Book!NoOrder
  BY <1>3 DEF NoOrder, NoItems, Book!NoOrder, Book!NoItems
<1> QED
  BY <1>1, <1>2, <1>5, <1>7, <1>8, <1>9, <1>10, <1>11 DEF Book!Place, new

(* The commit of a transition is the transition of the book, in one step. *)
LEMMA CommitIsSettle ==
    ASSUME AnswerInv, NEW r \in Requests, NEW code, Commit(r, code),
           req[r].op # "create", req[r].spelling = "canonical"
    PROVE  Book!Confirm(req[r].order) \/ Book!Cancel(req[r].order)
<1> DEFINE o == req[r].order
<1>1. /\ pc[r] = "commit" /\ price' = price
      /\ stock' = [p \in Products |-> stock[p] + delta[r][p]]
      /\ orders' = [orders EXCEPT ![o] = WrittenOrder(r)]
  BY DEF Commit, Visible
<1>2. /\ o \in Requests /\ orders[o].status = "PENDING"
      /\ req[r].op \in {"confirm", "cancel"}
      /\ req[r].op = "confirm" => \A p \in Products : delta[r][p] = 0
      /\ req[r].op = "cancel" => \A p \in Products : delta[r][p] = orders[o].quantity[p]
  BY <1>1, AtCommit DEF AnswerInv, ItemsRead, Input, Operations
<1>3. WrittenOrder(r) = [orders[o] EXCEPT !.status = IF req[r].op = "confirm" THEN "CONFIRMED"
                                                     ELSE "CANCELLED",
                                          !.cancelledAt = (req[r].op = "cancel")]
  BY <1>1, RowAtCommit
<1>4. /\ orders \in [Requests -> Order] /\ orders[o] \in Order
      /\ stock \in [Products -> Int]
  BY <1>2, ConstantFacts DEF AnswerInv, StockInv, Inv, TypeOK
<1> HIDE DEF o
<1>5. CASE req[r].op = "confirm"
  <2>1. orders[o].cancelledAt = FALSE
    <3>1. Entry(o)
      BY <1>2 DEF AnswerInv, EntryInv
    <3> QED
      BY <1>2, <1>4, <3>1 DEF Entry, Order
  <2>2. WrittenOrder(r) = [orders[o] EXCEPT !.status = "CONFIRMED"]
    BY <1>3, <1>4, <1>5, <2>1 DEF Order
  <2>3. orders' = [orders EXCEPT ![o].status = "CONFIRMED"]
    BY <1>1, <1>4, <2>2
  <2>4. stock' = stock
    BY <1>1, <1>2, <1>4, <1>5
  <2> QED
    BY <1>1, <1>2, <2>3, <2>4 DEF Book!Confirm, o
<1>6. CASE req[r].op = "cancel"
  <2>1. WrittenOrder(r) = [orders[o] EXCEPT !.status = "CANCELLED", !.cancelledAt = TRUE]
    BY <1>3, <1>4, <1>6 DEF Order
  <2>2. orders' = [orders EXCEPT ![o].status = "CANCELLED", ![o].cancelledAt = TRUE]
    BY <1>1, <1>4, <2>1
  <2>3. stock' = [p \in Products |-> stock[p] + orders[o].quantity[p]]
    BY <1>1, <1>2, <1>6
  <2> QED
    BY <1>1, <1>2, <2>2, <2>3 DEF Book!Cancel, o
<1> QED
  BY <1>2, <1>5, <1>6

(* With order ids written as the server does, the three mutations with all their statements, locks
   and failures implement the sequential book: each takes effect at its commit, on the state of that
   instant, or not at all (order_usecase.go:41-43, 112, 143). *)
THEOREM ImplementsOrderBookTheorem ==
    ASSUME Spellings \subseteq {"canonical"}
    PROVE  Safety => ImplementsOrderBook
<1>1. Init => Book!Init
  BY DEF Init, Book!Init, NoOrder, NoItems, Book!NoOrder, Book!NoItems
<1>2. AnswerInv /\ [Next]_vars => [Book!Next]_(Book!vars)
  <2> SUFFICES ASSUME AnswerInv, [Next]_vars PROVE Book!Next \/ UNCHANGED Book!vars
    OBVIOUS
  <2>1. ASSUME NEW r \in Requests, NEW code, Commit(r, code) PROVE Book!Next
    <3>1. CASE req[r].op = "create"
      BY <2>1, <3>1, CommitIsPlace DEF Book!Next
    <3>2. CASE req[r].op # "create"
      <4>1. pc[r] = "commit"
        BY <2>1 DEF Commit
      <4>2. req[r] \in Input /\ req[r].order \in Requests
        BY <4>1, AtCommit DEF AnswerInv
      <4>3. req[r].spelling = "canonical"
        BY <4>2 DEF Input
      <4> QED
        BY <2>1, <3>2, <4>2, <4>3, CommitIsSettle DEF Book!Next
    <3> QED
      BY <3>1, <3>2
  <2>2. ASSUME NEW p \in Products, Reprice(p) PROVE Book!Next
    <3>1. Book!Reprice(p)
      BY <2>2 DEF Reprice, Book!Reprice
    <3> QED
      BY <3>1 DEF Book!Next
  <2>3. CASE /\ ~ \E r \in Requests : CommitAcknowledged(r) \/ CommitUnacknowledged(r)
             /\ ~ \E p \in Products : Reprice(p)
    BY <2>3, OnlyCommitsMove, SamePrices DEF AnswerInv, Book!vars
  <2> QED
    BY <2>1, <2>2, <2>3 DEF CommitAcknowledged, CommitUnacknowledged
<1> QED
  BY <1>1, <1>2, AnswerInvAlways, PTL DEF Safety, ImplementsOrderBook, Book!Spec

=============================================================================
