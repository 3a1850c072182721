----------------------------- MODULE GraphQLProofs -----------------------------
(***************************************************************************)
(* What GraphQL promises of every answer, for any requests, operations and *)
(* selections: its values have their types, the rows it shows were         *)
(* current, the orders it shows are the caller's and stay true, its nulls  *)
(* are explained, and its errors tell which of its mutations took effect.  *)
(* The invariant comes in layers, each proved from those before it that it *)
(* needs: Inv, Typed, InOrder and Truth.                                   *)
(***************************************************************************)
EXTENDS GraphQL, FiniteSetTheorems, TLAPS

-----------------------------------------------------------------------------
(* The schema *)

SessionFields == {"register", "login", "refreshToken"}

LEMMA Domains ==
    /\ DOMAIN SessionMutations = SessionFields
    /\ DOMAIN OrderMutations = {"createOrder", "confirmOrder", "cancelOrder"}
    /\ DOMAIN QueryFields = {"me", "products", "product", "myOrders", "order"}
BY DEF SessionMutations, OrderMutations, QueryFields, SessionFields

LEMMA FieldTypes ==
    /\ \A f \in SessionFields : RootFields[f].type = "AuthPayload"
    /\ \A f \in {"createOrder", "confirmOrder", "cancelOrder", "order"} :
          RootFields[f].type = "Order"
    /\ RootFields["me"].type = "User"
    /\ RootFields["products"].type = "ProductPage"
    /\ RootFields["product"].type = "Product"
    /\ RootFields["myOrders"].type = "OrderPage"
<1>1. /\ Object("Order").type = "Order" /\ Optional("Order").type = "Order"
      /\ Object("AuthPayload").type = "AuthPayload" /\ Optional("User").type = "User"
      /\ Object("ProductPage").type = "ProductPage" /\ Optional("Product").type = "Product"
      /\ Object("OrderPage").type = "OrderPage"
  BY DEF Object, Optional, Leaf
<1>2. \A f \in SessionFields : RootFields[f] = Object("AuthPayload")
  BY Domains DEF RootFields, SessionMutations, SessionFields
<1>3. \A f \in {"createOrder", "confirmOrder", "cancelOrder"} : RootFields[f] = Object("Order")
  BY Domains DEF RootFields, OrderMutations, SessionFields
<1>4. /\ RootFields["me"] = Optional("User") /\ RootFields["products"] = Object("ProductPage")
      /\ RootFields["product"] = Optional("Product")
      /\ RootFields["myOrders"] = Object("OrderPage") /\ RootFields["order"] = Optional("Order")
  BY Domains DEF RootFields, QueryFields, SessionFields
<1> QED
  BY <1>1, <1>2, <1>3, <1>4

-----------------------------------------------------------------------------
(* The order book *)

OrderFieldNames == {"status", "user", "quantity", "unitPrice", "cancelledAt"}

BookShape ==
    /\ DOMAIN orders = OrderIds
    /\ \A o \in OrderIds :
          /\ DOMAIN orders[o] = OrderFieldNames
          /\ orders[o] = Book!NoOrder \/ orders[o].status \in {"PENDING", "CONFIRMED", "CANCELLED"}

(* Orders keep their owner and their items, and their status once it is final; only those of P may
   be new. *)
Moved(P) ==
    \A o \in OrderIds :
        /\ orders[o].status # "NONE" =>
              /\ orders'[o].user = orders[o].user
              /\ orders'[o].quantity = orders[o].quantity
              /\ orders'[o].unitPrice = orders[o].unitPrice
              /\ orders'[o].status # "NONE"
              /\ orders[o].status # "PENDING" => orders'[o].status = orders[o].status
        /\ orders[o] = Book!NoOrder /\ o \notin P => orders'[o] = Book!NoOrder

LEMMA PlaceMoves ==
    ASSUME BookShape, NEW o \in OrderIds, NEW user, NEW quantity, Book!Place(o, user, quantity)
    PROVE  BookShape' /\ Moved({o}) /\ orders'[o].user = user /\ orders'[o].status = "PENDING"
<1>1. orders[o].status = "NONE"
  BY DEF Book!Place, Book!NoOrder
<1>2. DOMAIN orders' = OrderIds /\ \A x \in OrderIds : x # o => orders'[x] = orders[x]
  BY DEF Book!Place, BookShape
<1>3. orders'[o] = [status |-> "PENDING", user |-> user, quantity |-> quantity,
           unitPrice |-> [p \in Products |-> IF quantity[p] > 0 THEN price[p] ELSE 0],
           cancelledAt |-> FALSE]
  BY DEF Book!Place, BookShape
<1>4. /\ DOMAIN orders'[o] = OrderFieldNames
      /\ orders'[o].user = user /\ orders'[o].status = "PENDING"
  BY <1>3 DEF OrderFieldNames
<1> QED
  BY <1>1, <1>2, <1>4 DEF BookShape, Moved

(* Order o gets its final status, with or without its stock going back to the shelf. *)
Settles(o, status) ==
    \/ status = "CONFIRMED" /\ Book!Confirm(o)
    \/ status = "CANCELLED" /\ (Book!Cancel(o) \/ CancelWithoutItems(o))

LEMMA SettleMoves ==
    ASSUME BookShape, NEW o \in OrderIds, NEW status, Settles(o, status)
    PROVE  BookShape' /\ Moved({}) /\ orders'[o].user = orders[o].user
              /\ orders'[o].status = status
<1> USE DEF Settles
<1>1. orders[o].status = "PENDING" /\ orders[o] # Book!NoOrder
  BY DEF Book!Confirm, Book!Cancel, CancelWithoutItems, Book!NoOrder
<1>2. DOMAIN orders' = OrderIds /\ \A x \in OrderIds : x # o => orders'[x] = orders[x]
  BY DEF Book!Confirm, Book!Cancel, CancelWithoutItems, BookShape
<1>3. /\ DOMAIN orders'[o] = DOMAIN orders[o]
      /\ orders'[o].user = orders[o].user /\ orders'[o].status = status
      /\ orders'[o].quantity = orders[o].quantity /\ orders'[o].unitPrice = orders[o].unitPrice
  BY DEF Book!Confirm, Book!Cancel, CancelWithoutItems, BookShape, OrderFieldNames
<1> QED
  BY <1>1, <1>2, <1>3 DEF BookShape, Moved

LEMMA NothingMoves ==
    ASSUME BookShape, orders' = orders
    PROVE  BookShape' /\ Moved({})
BY DEF BookShape, Moved

-----------------------------------------------------------------------------
(* The inductive invariant *)

Shape ==
    /\ BookShape
    /\ DOMAIN root = Requests /\ \A r \in Requests : DOMAIN root[r] = 1..MaxRoots
    /\ DOMAIN thunks = Requests /\ \A r \in Requests : DOMAIN thunks[r] = Keys
    /\ pc \in [Requests -> {"idle", "running", "refused", "done"}]
    /\ DOMAIN doc = Requests /\ DOMAIN caller = Requests /\ DOMAIN during = Requests

Carried(r) == pc[r] # "idle" => doc[r] \in Documents[r]

(* A value of this type shows its caller no order but his own. *)
ShowsOwn(r, type, value) ==
    \A object \in value :
        /\ type = "Order" => object.user = caller[r]
        /\ type = "OrderPage" => \A order \in object.items : order.user = caller[r]

(* What the code returned by root field i says of the order book. *)
Tells(r, i, code) ==
    LET field == doc[r].roots[i].field
        order == orders[OrderOf[doc[r].roots[i].arg]]
    IN
    /\ field = "createOrder" =>
          /\ code = "OK" => /\ orders[NewId(r, i)].user = caller[r]
                            /\ orders[NewId(r, i)].status # "NONE"
          /\ code \notin {"OK", "INTERNAL_ERROR"} => orders[NewId(r, i)] = Book!NoOrder
    /\ field \in {"confirmOrder", "cancelOrder"} =>
          /\ code = "OK" =>
                order.status = IF field = "confirmOrder" THEN "CONFIRMED" ELSE "CANCELLED"
          /\ code = "ORDER_NOT_PENDING" => order.status \in {"CONFIRMED", "CANCELLED"}

(* A root field has not run, and its order is not there; or it has, and what it returned is true. *)
RootInv(r, i) ==
    \/ root[r][i] = NotRun /\ orders[NewId(r, i)] = Book!NoOrder
    \/ /\ pc[r] \in {"running", "done"} /\ i \in Roots(r)
       /\ root[r][i].done /\ root[r][i].code # "NONE"
       /\ ShowsOwn(r, FieldType(r, i), root[r][i].value)
       /\ Tells(r, i, root[r][i].code)

(* A loader is asked for no user but the caller. *)
LoaderInv(r) == \A u \in Users : thunks[r][<<"user", u>>].state # "none" => u = caller[r]

(* The history holds the current rows, and the rows that the loaders have read. *)
RowInv(r) ==
    pc[r] = "running" =>
        /\ CurrentRows \subseteq during[r]
        /\ \A ref \in ProductRefs :
              LET thunk == thunks[r][<<"product", ref>>] IN
              thunk.code = "OK" => thunk.row \in during[r]

Finished(r) == pc[r] = "done" => \A i \in Roots(r) : root[r][i].done

Inv ==
    /\ Shape
    /\ \A r \in Requests :
          /\ Carried(r) /\ LoaderInv(r) /\ RowInv(r) /\ Finished(r)
          /\ \A i \in 1..MaxRoots : RootInv(r, i)

LEMMA RootsBounded ==
    ASSUME NEW r \in Requests, Carried(r), pc[r] # "idle"
    PROVE  /\ Roots(r) \subseteq 1..MaxRoots
           /\ \A i \in Roots(r) :
                 doc[r].roots[i].field \in {"confirmOrder", "cancelOrder", "order"} =>
                     /\ doc[r].roots[i].arg \in OrderRefs
                     /\ OrderOf[doc[r].roots[i].arg] \in OrderIds
<1> DEFINE d == doc[r]
<1>1. d \in UNION {Documents[q] : q \in Requests}
  BY DEF Carried
<1>2. /\ DOMAIN d.roots = 1..Len(d.roots) /\ Len(d.roots) \in 1..MaxRoots
      /\ \A i \in DOMAIN d.roots : d.roots[i].arg \in Arguments(d.roots[i].field)
  BY <1>1, DocumentAssumption
<1>3. \A f \in {"confirmOrder", "cancelOrder", "order"} : Arguments(f) = OrderRefs
  BY DEF Arguments
<1> QED
  BY <1>2, <1>3, GraphQLAssumption, SpellingAssumption DEF Roots

LEMMA NewIds == \A r \in Requests, i \in 1..MaxRoots : NewId(r, i) \in OrderIds \ Earlier
BY GraphQLAssumption DEF NewId, OrderIds

(* A root field that a step does not resolve stays as it is, as long as its request goes on. *)
LEMMA Kept ==
    ASSUME NEW r \in Requests, NEW i \in 1..MaxRoots, RootInv(r, i), Carried(r),
           NEW P, Moved(P), NewId(r, i) \notin P,
           root'[r][i] = root[r][i],
           pc[r] \in {"running", "done"} =>
               /\ pc'[r] \in {"running", "done"}
               /\ doc'[r] = doc[r] /\ caller'[r] = caller[r]
    PROVE  RootInv(r, i)'
<1>1. NewId(r, i) \in OrderIds
  BY NewIds
<1>2. CASE root[r][i] = NotRun /\ orders[NewId(r, i)] = Book!NoOrder
  <2>1. orders'[NewId(r, i)] = Book!NoOrder
    BY <1>1, <1>2 DEF Moved
  <2>2. root'[r][i] = NotRun
    BY <1>2
  <2> QED
    BY <2>1, <2>2 DEF RootInv, NewId, NotRun, Book!NoOrder, Book!NoItems
<1>3. CASE /\ pc[r] \in {"running", "done"} /\ i \in Roots(r)
           /\ root[r][i].done /\ root[r][i].code # "NONE"
           /\ ShowsOwn(r, FieldType(r, i), root[r][i].value)
           /\ Tells(r, i, root[r][i].code)
  <2>1. pc'[r] \in {"running", "done"} /\ doc'[r] = doc[r] /\ caller'[r] = caller[r]
    BY <1>3
  <2>2. FieldType(r, i)' = FieldType(r, i) /\ Roots(r)' = Roots(r)
    BY <2>1 DEF FieldType, Roots
  <2>3. ShowsOwn(r, FieldType(r, i), root[r][i].value)'
    BY <1>3, <2>1, <2>2 DEF ShowsOwn
  <2>4. doc[r].roots[i].field \in {"confirmOrder", "cancelOrder"} =>
            OrderOf[doc[r].roots[i].arg] \in OrderIds
    BY <1>3, RootsBounded
  <2>5. Tells(r, i, root[r][i].code)'
    <3> DEFINE field == doc[r].roots[i].field
               code == root[r][i].code
               o == OrderOf[doc[r].roots[i].arg]
    <3>1. field' = field /\ code' = code /\ o' = o
      BY <2>1
    <3>2. field \in {"confirmOrder", "cancelOrder"} =>
              /\ code = "OK" => orders'[o].status =
                     IF field = "confirmOrder" THEN "CONFIRMED" ELSE "CANCELLED"
              /\ code = "ORDER_NOT_PENDING" => orders'[o].status \in {"CONFIRMED", "CANCELLED"}
      BY <1>3, <2>4 DEF Tells, Moved
    <3>3. field = "createOrder" =>
              /\ code = "OK" => /\ orders'[NewId(r, i)].user = caller[r]
                                /\ orders'[NewId(r, i)].status # "NONE"
              /\ code \notin {"OK", "INTERNAL_ERROR"} => orders'[NewId(r, i)] = Book!NoOrder
      BY <1>1, <1>3 DEF Tells, Moved
    <3> HIDE DEF field, code, o
    <3>4. /\ field' = "createOrder" =>
              /\ code' = "OK" => /\ orders'[NewId(r, i)].user = caller'[r]
                                 /\ orders'[NewId(r, i)].status # "NONE"
              /\ code' \notin {"OK", "INTERNAL_ERROR"} => orders'[NewId(r, i)] = Book!NoOrder
          /\ field' \in {"confirmOrder", "cancelOrder"} =>
              /\ code' = "OK" => orders'[o'].status =
                     IF field' = "confirmOrder" THEN "CONFIRMED" ELSE "CANCELLED"
              /\ code' = "ORDER_NOT_PENDING" =>
                     orders'[o'].status \in {"CONFIRMED", "CANCELLED"}
      BY <2>1, <3>1, <3>2, <3>3
    <3> QED
      BY <3>4 DEF Tells, NewId, Book!NoOrder, Book!NoItems, field, code, o
  <2> QED
    BY <1>3, <2>1, <2>2, <2>3, <2>5 DEF RootInv
<1> QED
  BY <1>2, <1>3 DEF RootInv

-----------------------------------------------------------------------------
(* Steps *)

(* The product rows stay as they are, or the history takes note. *)
Noted == UNCHANGED <<stock, price, during>> \/ Observe

LEMMA RowsAreNoted ==
    ASSUME Inv, Noted, pc' = pc, thunks' = thunks
    PROVE  DOMAIN during' = Requests /\ \A r \in Requests : RowInv(r)'
<1>1. DOMAIN during' = Requests
  BY DEF Noted, Observe, Inv, Shape
<1>2. ASSUME NEW r \in Requests, pc[r] = "running"
      PROVE  during[r] \subseteq during'[r] /\ CurrentRows' \subseteq during'[r]
  <2>1. CurrentRows \subseteq during[r]
    BY <1>2 DEF Inv, RowInv
  <2>2. CASE UNCHANGED <<stock, price, during>>
    BY <2>1, <2>2 DEF CurrentRows, Row
  <2>3. CASE Observe
    BY <1>2, <2>3 DEF Observe
  <2> QED
    BY <2>2, <2>3 DEF Noted
<1>3. ASSUME NEW r \in Requests PROVE RowInv(r)'
  BY <1>2 DEF Inv, RowInv
<1> QED
  BY <1>1, <1>3

LEMMA Returned ==
    ASSUME Shape, NEW r \in Requests, NEW i \in 1..MaxRoots, NEW code, NEW value,
           Returns(r, i, code, value)
    PROVE  /\ DOMAIN root' = Requests /\ \A q \in Requests : DOMAIN root'[q] = 1..MaxRoots
           /\ root'[r][i] = Outcome(code, value)
           /\ \A q \in Requests, j \in 1..MaxRoots :
                 q # r \/ j # i => root'[q][j] = root[q][j]
BY DEF Shape, Returns

(* A resolver returns: it may have placed the order of its own field and no other. *)
LEMMA ResolverStep ==
    ASSUME Inv, NEW r \in Requests, NEW i \in 1..MaxRoots, NEW fields, Starts(r, i, fields),
           NEW code, NEW value, Returns(r, i, code, value), code # "NONE",
           BookShape', Moved({NewId(r, i)}), Noted, UNCHANGED <<request, thunks>>,
           ShowsOwn(r, FieldType(r, i), value), Tells(r, i, code)'
    PROVE  Inv'
<1>1. pc' = pc /\ doc' = doc /\ caller' = caller /\ thunks' = thunks
  BY DEF request
<1>2. /\ DOMAIN root' = Requests /\ \A q \in Requests : DOMAIN root'[q] = 1..MaxRoots
      /\ root'[r][i] = Outcome(code, value)
      /\ \A q \in Requests, j \in 1..MaxRoots : q # r \/ j # i => root'[q][j] = root[q][j]
  BY Returned DEF Inv
<1>3. DOMAIN during' = Requests /\ \A q \in Requests : RowInv(q)'
  BY <1>1, RowsAreNoted
<1>4. Shape'
  BY <1>1, <1>2, <1>3 DEF Inv, Shape
<1>5. \A q \in Requests : Carried(q)' /\ LoaderInv(q)'
  BY <1>1 DEF Inv, Carried, LoaderInv
<1>6. ASSUME NEW q \in Requests PROVE Finished(q)'
  <2>1. pc[r] = "running"
    BY DEF Starts
  <2>2. CASE q = r
    BY <1>1, <2>1, <2>2 DEF Finished
  <2>3. CASE q # r
    <3>1. SUFFICES ASSUME pc[q] = "done", NEW j \in Roots(q) PROVE root'[q][j].done
      BY <1>1 DEF Finished, Roots
    <3>2. j \in 1..MaxRoots /\ root[q][j].done
      BY <3>1, RootsBounded DEF Inv, Finished
    <3> QED
      BY <1>2, <2>3, <3>2
  <2> QED
    BY <2>2, <2>3
<1>7. ASSUME NEW q \in Requests, NEW j \in 1..MaxRoots PROVE RootInv(q, j)'
  <2>1. CASE q = r /\ j = i
    <3>1. /\ root'[r][i].done /\ root'[r][i].code = code /\ root'[r][i].value = value
      BY <1>2 DEF Outcome
    <3>2. pc'[r] = "running" /\ i \in Roots(r)'
      BY <1>1 DEF Starts, Roots
    <3>3. ShowsOwn(r, FieldType(r, i), root[r][i].value)'
      BY <1>1, <3>1 DEF ShowsOwn, FieldType
    <3>4. Tells(r, i, root[r][i].code)'
      BY <3>1 DEF Tells
    <3> QED
      BY <2>1, <3>1, <3>2, <3>3, <3>4 DEF RootInv
  <2>2. CASE q # r \/ j # i
    <3>1. NewId(q, j) \notin {NewId(r, i)}
      BY <2>2 DEF NewId
    <3>2. root'[q][j] = root[q][j]
      BY <1>2, <2>2
    <3>3. RootInv(q, j) /\ Carried(q)
      BY DEF Inv
    <3> HIDE DEF Inv
    <3> QED
      BY <1>1, <3>1, <3>2, <3>3, Kept
  <2> QED
    BY <2>1, <2>2
<1> QED
  BY <1>3, <1>4, <1>5, <1>6, <1>7 DEF Inv

(* Reading and failing change nothing in the book. *)
LEMMA QuietStep ==
    ASSUME Inv, NEW r \in Requests, NEW i \in 1..MaxRoots, NEW fields, Starts(r, i, fields),
           NEW code, NEW value, Returns(r, i, code, value), code # "NONE", Quiet,
           ShowsOwn(r, FieldType(r, i), value), Tells(r, i, code)
    PROVE  Inv'
<1>1. orders' = orders /\ Noted /\ UNCHANGED <<request, thunks>>
  BY DEF Quiet, Noted, db
<1>2. BookShape' /\ Moved({})
  BY <1>1, NothingMoves DEF Inv, Shape
<1>3. Moved({NewId(r, i)})
  BY <1>2 DEF Moved
<1>4. Tells(r, i, code)'
  BY <1>1 DEF Tells, request, NewId, Book!NoOrder, Book!NoItems
<1> QED
  BY <1>1, <1>2, <1>3, <1>4, ResolverStep

-----------------------------------------------------------------------------
(* The resolvers *)

(* What a field without orders returns is nobody's. *)
LEMMA NobodysOrder ==
    ASSUME Inv, NEW r \in Requests, NEW i \in 1..MaxRoots, NEW code, NEW value,
           doc[r].roots[i].field \in SessionFields \cup {"me", "product", "products"}
    PROVE  ShowsOwn(r, FieldType(r, i), value) /\ Tells(r, i, code)
<1>1. FieldType(r, i) \notin {"Order", "OrderPage"}
  BY FieldTypes DEF FieldType
<1> QED
  BY <1>1 DEF ShowsOwn, Tells, SessionFields

(* An error that says nothing of the book, beside no value. *)
LEMMA NoValue ==
    ASSUME Inv, NEW r \in Requests, NEW i \in 1..MaxRoots, NEW code,
           code \notin {"OK", "ORDER_NOT_PENDING"},
           code = "INTERNAL_ERROR" \/ orders[NewId(r, i)] = Book!NoOrder
    PROVE  ShowsOwn(r, FieldType(r, i), Null) /\ Tells(r, i, code)
BY DEF ShowsOwn, Null, Tells

LEMMA NotYetPlaced ==
    ASSUME Inv, NEW r \in Requests, NEW i \in 1..MaxRoots, NEW fields, Starts(r, i, fields)
    PROVE  orders[NewId(r, i)] = Book!NoOrder
BY DEF Inv, RootInv, Starts

LEMMA AuthenticateStep ==
    ASSUME Inv, NEW r \in Requests, NEW i \in 1..MaxRoots, Authenticate(r, i)
    PROVE  Inv'
<1>1. Starts(r, i, DOMAIN SessionMutations) /\ Quiet
  BY DEF Authenticate
<1>2. doc[r].roots[i].field \in SessionFields
  BY <1>1, Domains DEF Starts
<1>3. CASE \E u \in Users : Returns(r, i, "OK", {[user |-> [id |-> u]]})
  <2>1. PICK u \in Users : Returns(r, i, "OK", {[user |-> [id |-> u]]})
    BY <1>3
  <2>2. ShowsOwn(r, FieldType(r, i), {[user |-> [id |-> u]]}) /\ Tells(r, i, "OK")
    BY <1>2, NobodysOrder
  <2> QED
    BY <1>1, <2>1, <2>2, QuietStep
<1>4. CASE Returns(r, i, "INVALID_CREDENTIALS", Null)
  <2>1. ShowsOwn(r, FieldType(r, i), Null) /\ Tells(r, i, "INVALID_CREDENTIALS")
    BY <1>2, NobodysOrder
  <2> QED
    BY <1>1, <1>4, <2>1, QuietStep
<1> QED
  BY <1>3, <1>4 DEF Authenticate

LEMMA MeStep ==
    ASSUME Inv, NEW r \in Requests, NEW i \in 1..MaxRoots, Me(r, i)
    PROVE  Inv'
<1> DEFINE value == IF caller[r] \in Users THEN {[id |-> caller[r]]} ELSE Null
<1>1. Starts(r, i, {"me"}) /\ Quiet /\ Returns(r, i, "OK", value)
  BY DEF Me
<1>2. ShowsOwn(r, FieldType(r, i), value) /\ Tells(r, i, "OK")
  BY <1>1, NobodysOrder DEF Starts
<1> HIDE DEF value
<1> QED
  BY <1>1, <1>2, QuietStep

LEMMA ProductStep ==
    ASSUME Inv, NEW r \in Requests, NEW i \in 1..MaxRoots, Product(r, i)
    PROVE  Inv'
<1> DEFINE p == ProductOf[doc[r].roots[i].arg]
<1>1. Starts(r, i, {"product"}) /\ Quiet
  BY DEF Product
<1>2. \A value, code : ShowsOwn(r, FieldType(r, i), value) /\ Tells(r, i, code)
  BY <1>1, NobodysOrder DEF Starts
<1>3. CASE Returns(r, i, "PRODUCT_NOT_FOUND", Null)
  BY <1>1, <1>2, <1>3, QuietStep
<1>4. CASE Returns(r, i, "OK", {Row(p)})
  BY <1>1, <1>2, <1>4, QuietStep
<1> QED
  BY <1>3, <1>4 DEF Product

LEMMA ProductsPageStep ==
    ASSUME Inv, NEW r \in Requests, NEW i \in 1..MaxRoots, ProductsPage(r, i)
    PROVE  Inv'
<1>1. /\ Starts(r, i, {"products"}) /\ Quiet
      /\ Returns(r, i, "OK", {[items |-> CurrentRows]})
  BY DEF ProductsPage
<1>2. ShowsOwn(r, FieldType(r, i), {[items |-> CurrentRows]}) /\ Tells(r, i, "OK")
  BY <1>1, NobodysOrder DEF Starts
<1> QED
  BY <1>1, <1>2, QuietStep

LEMMA MyOrdersStep ==
    ASSUME Inv, NEW r \in Requests, NEW i \in 1..MaxRoots, MyOrders(r, i)
    PROVE  Inv'
<1> DEFINE page == [items |-> {Stored(o) : o \in {x \in OrderIds : orders[x].user = caller[r]}}]
<1>1. Starts(r, i, {"myOrders"}) /\ Quiet
  BY DEF MyOrders
<1>2. FieldType(r, i) = "OrderPage" /\ \A code : Tells(r, i, code)
  BY <1>1, FieldTypes DEF Starts, FieldType, Tells
<1>3. CASE Returns(r, i, "UNAUTHENTICATED", Null)
  <2>1. ShowsOwn(r, FieldType(r, i), Null)
    BY DEF ShowsOwn, Null
  <2> QED
    BY <1>1, <1>2, <1>3, <2>1, QuietStep
<1>4. CASE Returns(r, i, "OK", {page})
  <2>1. \A order \in page.items : order.user = caller[r]
    BY DEF Stored, OrderModel
  <2>2. ShowsOwn(r, FieldType(r, i), {page})
    BY <1>2, <2>1 DEF ShowsOwn
  <2> HIDE DEF page
  <2> QED
    BY <1>1, <1>2, <1>4, <2>2, QuietStep
<1> QED
  BY <1>3, <1>4 DEF MyOrders

LEMMA DenialIsTrue ==
    ASSUME NEW o \in OrderIds, NEW c
    PROVE  /\ Denial(o, c) \in {"UNAUTHENTICATED", "ORDER_NOT_FOUND", "ORDER_NOT_OWNED", "NONE"}
           /\ Denial(o, c) = "NONE" => orders[o] # Book!NoOrder /\ orders[o].user = c
BY DEF Denial, Owns

LEMMA GetOrderStep ==
    ASSUME Inv, NEW r \in Requests, NEW i \in 1..MaxRoots, GetOrder(r, i)
    PROVE  Inv'
<1> DEFINE ref == doc[r].roots[i].arg
           o == OrderOf[ref]
           denial == Denial(o, caller[r])
           order == OrderModel(o, orders[o], ItemsRead(ref))
<1>1. Starts(r, i, {"order"}) /\ Quiet
  BY DEF GetOrder
<1>2. o \in OrderIds
  BY <1>1, RootsBounded DEF Starts, Inv
<1>3. FieldType(r, i) = "Order" /\ \A code : Tells(r, i, code)
  BY <1>1, FieldTypes DEF Starts, FieldType, Tells
<1>4. CASE denial # "NONE" /\ Returns(r, i, denial, Null)
  <2>1. ShowsOwn(r, FieldType(r, i), Null)
    BY DEF ShowsOwn, Null
  <2> HIDE DEF denial
  <2> QED
    BY <1>1, <1>3, <1>4, <2>1, QuietStep
<1>5. CASE denial = "NONE" /\ Returns(r, i, "OK", {order})
  <2>1. order.user = caller[r]
    BY <1>2, <1>5, DenialIsTrue DEF OrderModel
  <2>2. ShowsOwn(r, FieldType(r, i), {order})
    BY <1>3, <2>1 DEF ShowsOwn
  <2> HIDE DEF order
  <2> QED
    BY <1>1, <1>3, <1>5, <2>2, QuietStep
<1> QED
  BY <1>4, <1>5 DEF GetOrder

LEMMA ResolverFailsStep ==
    ASSUME Inv, NEW r \in Requests, NEW i \in 1..MaxRoots, ResolverFails(r, i)
    PROVE  Inv'
<1>1. /\ Starts(r, i, DOMAIN RootFields) /\ Quiet
      /\ Returns(r, i, "INTERNAL_ERROR", Null)
  BY DEF ResolverFails
<1>2. ShowsOwn(r, FieldType(r, i), Null) /\ Tells(r, i, "INTERNAL_ERROR")
  BY NoValue
<1> QED
  BY <1>1, <1>2, QuietStep

LEMMA CreateOrderStep ==
    ASSUME Inv, NEW r \in Requests, NEW i \in 1..MaxRoots, CreateOrder(r, i)
    PROVE  Inv'
<1>1. Starts(r, i, {"createOrder"})
  BY DEF CreateOrder
<1>2. FieldType(r, i) = "Order" /\ doc[r].roots[i].field = "createOrder"
  BY <1>1, FieldTypes DEF Starts, FieldType
<1>3. CASE /\ \E code \in OrderErrors :
                 Refused(r, i, caller[r], code) /\ Returns(r, i, code, Null)
           /\ Quiet
  <2> PICK code \in OrderErrors : Returns(r, i, code, Null) /\ Quiet
    BY <1>3
  <2>1. code \notin {"OK", "ORDER_NOT_PENDING"} /\ code # "NONE"
    BY DEF OrderErrors
  <2>2. orders[NewId(r, i)] = Book!NoOrder
    BY <1>1, NotYetPlaced
  <2>3. Returns(r, i, code, Null) /\ Quiet
    OBVIOUS
  <2>4. ShowsOwn(r, FieldType(r, i), Null) /\ Tells(r, i, code)
    BY <2>1, <2>2, NoValue
  <2> QED
    BY <1>1, <2>1, <2>3, <2>4, QuietStep
<1>4. CASE /\ Book!Place(NewId(r, i), caller[r], Quantity(r, i))
           /\ \/ Returns(r, i, "OK", {NewOrder(r, i)})
              \/ Returns(r, i, "INTERNAL_ERROR", Null)
           /\ Observe
           /\ UNCHANGED <<request, thunks>>
  <2>1. NewId(r, i) \in OrderIds
    BY NewIds
  <2>2. /\ BookShape' /\ Moved({NewId(r, i)})
        /\ orders'[NewId(r, i)].user = caller[r] /\ orders'[NewId(r, i)].status = "PENDING"
    BY <1>4, <2>1, PlaceMoves DEF Inv, Shape
  <2>3. Noted
    BY <1>4 DEF Noted
  <2>4. doc' = doc /\ caller' = caller
    BY <1>4 DEF request
  <2>5. CASE Returns(r, i, "OK", {NewOrder(r, i)})
    <3>1. NewOrder(r, i).user = caller[r]
      BY <2>2 DEF NewOrder, OrderModel
    <3>2. ShowsOwn(r, FieldType(r, i), {NewOrder(r, i)})
      BY <1>2, <3>1 DEF ShowsOwn
    <3>3. Tells(r, i, "OK")'
      BY <1>2, <2>2, <2>4 DEF Tells, NewId
    <3> DEFINE order == NewOrder(r, i)
    <3>4. ShowsOwn(r, FieldType(r, i), {order}) /\ Returns(r, i, "OK", {order})
      BY <2>5, <3>2
    <3> HIDE DEF order
    <3> QED
      BY <1>1, <1>4, <2>2, <2>3, <3>3, <3>4, ResolverStep
  <2>6. CASE Returns(r, i, "INTERNAL_ERROR", Null)
    <3>1. ShowsOwn(r, FieldType(r, i), Null)
      BY DEF ShowsOwn, Null
    <3>2. Tells(r, i, "INTERNAL_ERROR")'
      BY <1>2, <2>4 DEF Tells
    <3> QED
      BY <1>1, <1>4, <2>2, <2>3, <2>6, <3>1, <3>2, ResolverStep
  <2> QED
    BY <1>4, <2>5, <2>6
<1> QED
  BY <1>3, <1>4 DEF CreateOrder

LEMMA SettleOrderStep ==
    ASSUME Inv, NEW r \in Requests, NEW i \in 1..MaxRoots, SettleOrder(r, i)
    PROVE  Inv'
<1> DEFINE ref == doc[r].roots[i].arg
           o == OrderOf[ref]
           field == doc[r].roots[i].field
           denial == Denial(o, caller[r])
<1>1. Starts(r, i, {"confirmOrder", "cancelOrder"})
  BY DEF SettleOrder
<1>2. /\ FieldType(r, i) = "Order" /\ field \in {"confirmOrder", "cancelOrder"}
      /\ o \in OrderIds
  <2>1. field \in {"confirmOrder", "cancelOrder"} /\ pc[r] # "idle" /\ i \in Roots(r)
    BY <1>1 DEF Starts
  <2> QED
    BY <2>1, FieldTypes, RootsBounded DEF FieldType, Inv
<1>3. CASE denial # "NONE" /\ Returns(r, i, denial, Null) /\ Quiet
  <2>1. denial \notin {"OK", "ORDER_NOT_PENDING"}
    BY <1>2, DenialIsTrue
  <2>2. ShowsOwn(r, FieldType(r, i), Null) /\ Tells(r, i, denial)
    BY <1>1, <2>1, NoValue, NotYetPlaced
  <2> HIDE DEF denial
  <2> QED
    BY <1>1, <1>3, <2>2, QuietStep
<1>4. CASE /\ denial = "NONE" /\ orders[o].status # "PENDING"
           /\ Returns(r, i, "ORDER_NOT_PENDING", Null) /\ Quiet
  <2>1. orders[o].status \in {"CONFIRMED", "CANCELLED"}
    BY <1>2, <1>4, DenialIsTrue DEF Inv, Shape, BookShape
  <2>2. ShowsOwn(r, FieldType(r, i), Null) /\ Tells(r, i, "ORDER_NOT_PENDING")
    BY <1>2, <2>1 DEF ShowsOwn, Null, Tells
  <2> QED
    BY <1>1, <1>4, <2>2, QuietStep
<1>5. CASE /\ denial = "NONE" /\ Settle(ref, field)
           /\ \/ Returns(r, i, "OK", {OrderModel(o, orders'[o], ItemsRead(ref))})
              \/ Returns(r, i, "INTERNAL_ERROR", Null)
           /\ Observe
           /\ UNCHANGED <<request, thunks>>
  <2> DEFINE status == IF field = "confirmOrder" THEN "CONFIRMED" ELSE "CANCELLED"
             order == OrderModel(o, orders'[o], ItemsRead(ref))
  <2>1. Settles(o, status)
    BY <1>5, SpellingAssumption DEF Settle, Settles
  <2>2. BookShape' /\ Moved({}) /\ orders'[o].user = orders[o].user /\ orders'[o].status = status
    BY <1>2, <2>1, SettleMoves DEF Inv, Shape
  <2>3. Moved({NewId(r, i)}) /\ Noted
    BY <1>5, <2>2 DEF Moved, Noted
  <2>4. doc' = doc /\ caller' = caller
    BY <1>5 DEF request
  <2>5. orders[o].user = caller[r]
    BY <1>2, <1>5, DenialIsTrue
  <2>6. CASE Returns(r, i, "OK", {order})
    <3>1. order.user = caller[r]
      BY <2>2, <2>5 DEF OrderModel
    <3>2. ShowsOwn(r, FieldType(r, i), {order})
      BY <1>2, <3>1 DEF ShowsOwn
    <3>3. Tells(r, i, "OK")'
      BY <1>2, <2>2, <2>4 DEF Tells
    <3> HIDE DEF order
    <3> QED
      BY <1>1, <1>5, <2>2, <2>3, <2>6, <3>2, <3>3, ResolverStep
  <2>7. CASE Returns(r, i, "INTERNAL_ERROR", Null)
    <3>1. ShowsOwn(r, FieldType(r, i), Null)
      BY DEF ShowsOwn, Null
    <3>2. Tells(r, i, "INTERNAL_ERROR")'
      BY <1>2, <2>4 DEF Tells
    <3> QED
      BY <1>1, <1>5, <2>2, <2>3, <2>7, <3>1, <3>2, ResolverStep
  <2> QED
    BY <1>5, <2>6, <2>7
<1> QED
  BY <1>3, <1>4, <1>5 DEF SettleOrder

-----------------------------------------------------------------------------
(* The loaders *)

(* A field asks the loaders for no user but its caller. *)
LEMMA KeysAreOwn ==
    ASSUME Inv, NEW r \in Requests, pc[r] = "running", NEW i \in Roots(r), NEW u,
           <<"user", u>> \in RootKeys(r, i)
    PROVE  u = caller[r]
<1>1. i \in 1..MaxRoots
  BY RootsBounded DEF Inv
<1>2. ShowsOwn(r, FieldType(r, i), root[r][i].value)
  <2>1. CASE root[r][i] = NotRun
    BY <2>1 DEF ShowsOwn, NotRun, Null
  <2>2. CASE root[r][i] # NotRun
    BY <1>1, <2>2 DEF Inv, RootInv
  <2> QED
    BY <2>1, <2>2
<1>3. ASSUME NEW order, <<"user", u>> \in OrderKeys(r, order)
      PROVE  u = order.user
  <2>1. \A item : <<"user", u>> \notin ItemKeys(r, item)
    BY DEF ItemKeys
  <2>2. <<"user", u>> \in {<<"user", order.user>>}
    BY <1>3, <2>1 DEF OrderKeys
  <2> QED
    BY <2>2
<1>4. CASE \E order \in Objects(r, i, "Order") : <<"user", u>> \in OrderKeys(r, order)
  BY <1>2, <1>3, <1>4 DEF ShowsOwn, Objects
<1>5. CASE \E page \in Objects(r, i, "OrderPage") : <<"user", u>> \in PageKeys(r, page)
  <2>1. PICK page \in Objects(r, i, "OrderPage") : <<"user", u>> \in PageKeys(r, page)
    BY <1>5
  <2>2. PICK order \in page.items : <<"user", u>> \in OrderKeys(r, order)
    BY <2>1 DEF PageKeys
  <2> QED
    BY <1>2, <1>3, <2>1, <2>2 DEF ShowsOwn, Objects
<1> QED
  BY <1>4, <1>5 DEF RootKeys

(* A step of the loaders touches nothing but what they know. *)
LEMMA LoaderStep ==
    ASSUME Inv, NEW r \in Requests, UNCHANGED <<db, request, root, during>>,
           DOMAIN thunks' = Requests, \A q \in Requests : DOMAIN thunks'[q] = Keys,
           \A q \in Requests \ {r} : thunks'[q] = thunks[q],
           LoaderInv(r)', RowInv(r)'
    PROVE  Inv'
<1>1. /\ orders' = orders /\ stock' = stock /\ price' = price
      /\ pc' = pc /\ doc' = doc /\ caller' = caller /\ root' = root /\ during' = during
  BY DEF db, request
<1>2. Shape'
  BY <1>1, NothingMoves DEF Inv, Shape
<1>3. ASSUME NEW q \in Requests
      PROVE  Carried(q)' /\ LoaderInv(q)' /\ RowInv(q)' /\ Finished(q)'
  <2>1. Carried(q)' /\ Finished(q)'
    BY <1>1 DEF Inv, Carried, Finished, Roots
  <2>2. CurrentRows' = CurrentRows
    BY <1>1 DEF CurrentRows, Row
  <2>3. CASE q # r
    BY <1>1, <2>1, <2>2, <2>3 DEF Inv, LoaderInv, RowInv
  <2> QED
    BY <2>1, <2>3
<1>4. ASSUME NEW q \in Requests, NEW i \in 1..MaxRoots PROVE RootInv(q, i)'
  <2>1. Moved({})
    BY <1>1, NothingMoves DEF Inv, Shape
  <2>2. RootInv(q, i) /\ Carried(q)
    BY DEF Inv
  <2> HIDE DEF Inv
  <2> QED
    BY <1>1, <2>1, <2>2, Kept
<1> QED
  BY <1>2, <1>3, <1>4 DEF Inv

LEMMA LoadStep ==
    ASSUME Inv, NEW r \in Requests, NEW key \in Keys, Load(r, key)
    PROVE  Inv'
<1>1. /\ pc[r] = "running" /\ UNCHANGED <<db, request, root, during>>
      /\ thunks' = [thunks EXCEPT ![r][key] = Asked]
  BY DEF Load
<1>2. /\ DOMAIN thunks' = Requests /\ \A q \in Requests : DOMAIN thunks'[q] = Keys
      /\ \A q \in Requests \ {r} : thunks'[q] = thunks[q]
      /\ thunks'[r][key] = Asked
      /\ \A k \in Keys \ {key} : thunks'[r][k] = thunks[r][k]
  BY <1>1 DEF Inv, Shape
<1>3. LoaderInv(r)'
  <2>1. SUFFICES ASSUME NEW u \in Users, thunks'[r][<<"user", u>>].state # "none"
                 PROVE  u = caller[r]
    BY <1>1 DEF LoaderInv, request
  <2>2. CASE <<"user", u>> = key
    <3>1. PICK i \in Roots(r) : <<"user", u>> \in RootKeys(r, i)
      BY <2>2 DEF Load
    <3> QED
      BY <1>1, <3>1, KeysAreOwn
  <2>3. CASE <<"user", u>> # key
    BY <1>2, <2>1, <2>3 DEF Inv, LoaderInv, Keys
  <2> QED
    BY <2>2, <2>3
<1>4. RowInv(r)'
  <2>1. Asked.code # "OK"
    BY DEF Asked, Unasked
  <2>2. CurrentRows' = CurrentRows /\ during' = during /\ pc' = pc
    BY <1>1 DEF CurrentRows, Row, db, request
  <2>3. \A ref \in ProductRefs : <<"product", ref>> \in Keys
    BY DEF Keys
  <2> QED
    BY <1>2, <2>1, <2>2, <2>3 DEF Inv, RowInv
<1> QED
  BY <1>1, <1>2, <1>3, <1>4, LoaderStep

(* A query answers keys that were asked for, with rows that are current. *)
LEMMA BatchStep ==
    ASSUME Inv, NEW r \in Requests, NEW kind, pc[r] = "running",
           UNCHANGED <<db, request, root, during>>,
           DOMAIN thunks' = Requests, \A q \in Requests : DOMAIN thunks'[q] = Keys,
           \A q \in Requests \ {r} : thunks'[q] = thunks[q],
           \A key \in Keys \ Queue(r, kind) : thunks'[r][key] = thunks[r][key],
           \A key \in Queue(r, kind) :
               key[1] = "product" /\ thunks'[r][key].code = "OK" =>
                   thunks'[r][key].row \in CurrentRows
    PROVE  Inv'
<1>1. LoaderInv(r)'
  <2>1. SUFFICES ASSUME NEW u \in Users, thunks'[r][<<"user", u>>].state # "none"
                 PROVE  u = caller[r]
    BY DEF LoaderInv, request
  <2>2. <<"user", u>> \in Keys
    BY DEF Keys
  <2>3. thunks[r][<<"user", u>>].state # "none"
    <3>1. CASE <<"user", u>> \in Queue(r, kind)
      BY <3>1 DEF Queue
    <3>2. CASE <<"user", u>> \notin Queue(r, kind)
      BY <2>1, <2>2, <3>2
    <3> QED
      BY <3>1, <3>2
  <2> QED
    BY <2>3 DEF Inv, LoaderInv
<1>2. RowInv(r)'
  <2>1. CurrentRows' = CurrentRows /\ during' = during /\ pc' = pc
    BY DEF CurrentRows, Row, db, request
  <2>2. CurrentRows \subseteq during[r]
    BY DEF Inv, RowInv
  <2>3. ASSUME NEW ref \in ProductRefs, thunks'[r][<<"product", ref>>].code = "OK"
        PROVE  thunks'[r][<<"product", ref>>].row \in during[r]
    <3>1. <<"product", ref>> \in Keys
      BY DEF Keys
    <3>2. CASE <<"product", ref>> \in Queue(r, kind)
      BY <2>2, <2>3, <3>2
    <3>3. CASE <<"product", ref>> \notin Queue(r, kind)
      BY <2>3, <3>1, <3>3 DEF Inv, RowInv
    <3> QED
      BY <3>2, <3>3
  <2> QED
    BY <2>1, <2>2, <2>3 DEF RowInv
<1> QED
  BY <1>1, <1>2, LoaderStep

LEMMA FetchStep ==
    ASSUME Inv, NEW r \in Requests, NEW kind \in {"user", "product"},
           FetchUsers(r) \/ FetchProducts(r) \/ FetchFails(r, kind)
    PROVE  Inv'
<1>1. CASE FetchUsers(r)
  <2>1. /\ pc[r] = "running" /\ UNCHANGED <<db, request, root, during>>
        /\ thunks' = [thunks EXCEPT ![r] =
              [key \in Keys |-> IF key \in Queue(r, "user") THEN UserFound(key[2])
                                                            ELSE thunks[r][key]]]
    BY <1>1 DEF FetchUsers, Batch
  <2>2. /\ DOMAIN thunks' = Requests /\ \A q \in Requests : DOMAIN thunks'[q] = Keys
        /\ \A q \in Requests \ {r} : thunks'[q] = thunks[q]
        /\ \A key \in Keys \ Queue(r, "user") : thunks'[r][key] = thunks[r][key]
    BY <2>1 DEF Inv, Shape
  <2>3. \A key \in Queue(r, "user") : key[1] # "product"
    BY DEF Queue
  <2> QED
    BY <2>1, <2>2, <2>3, BatchStep
<1>2. CASE FetchProducts(r)
  <2>1. /\ pc[r] = "running" /\ UNCHANGED <<db, request, root, during>>
        /\ thunks' = [thunks EXCEPT ![r] =
              [key \in Keys |-> IF key \in Queue(r, "product") THEN ProductFound(key[2])
                                                               ELSE thunks[r][key]]]
    BY <1>2 DEF FetchProducts, Batch
  <2>2. /\ DOMAIN thunks' = Requests /\ \A q \in Requests : DOMAIN thunks'[q] = Keys
        /\ \A q \in Requests \ {r} : thunks'[q] = thunks[q]
        /\ \A key \in Keys \ Queue(r, "product") : thunks'[r][key] = thunks[r][key]
        /\ \A key \in Queue(r, "product") : thunks'[r][key] = ProductFound(key[2])
    BY <2>1 DEF Inv, Shape, Queue
  <2>3. \A ref : ProductFound(ref).code = "OK" => ProductFound(ref).row \in CurrentRows
    BY DEF ProductFound, Got, CurrentRows
  <2> QED
    BY <2>1, <2>2, <2>3, BatchStep
<1>3. CASE FetchFails(r, kind)
  <2>1. /\ pc[r] = "running" /\ UNCHANGED <<db, request, root, during>>
        /\ thunks' = [thunks EXCEPT ![r] =
              [key \in Keys |-> IF key \in Queue(r, kind) THEN NothingFound(key[2])
                                                          ELSE thunks[r][key]]]
    BY <1>3 DEF FetchFails, Batch
  <2>2. /\ DOMAIN thunks' = Requests /\ \A q \in Requests : DOMAIN thunks'[q] = Keys
        /\ \A q \in Requests \ {r} : thunks'[q] = thunks[q]
        /\ \A key \in Keys \ Queue(r, kind) : thunks'[r][key] = thunks[r][key]
        /\ \A key \in Queue(r, kind) : thunks'[r][key] = NothingFound(key[2])
    BY <2>1 DEF Inv, Shape, Queue
  <2>3. \A ref : NothingFound(ref).code # "OK"
    BY DEF NothingFound, Got
  <2> QED
    BY <2>1, <2>2, <2>3, BatchStep
<1> QED
  BY <1>1, <1>2, <1>3

-----------------------------------------------------------------------------
(* Requests come and go *)

LEMMA ReceiveStep ==
    ASSUME Inv, NEW r \in Requests, Receive(r)
    PROVE  Inv'
<1>1. PICK d \in Documents[r], c \in Callers[r] :
          /\ doc' = [doc EXCEPT ![r] = d]
          /\ caller' = [caller EXCEPT ![r] = c]
          /\ pc' = [pc EXCEPT ![r] = IF Complexity(d) > Limit THEN "refused" ELSE "running"]
  BY DEF Receive
<1>2. /\ pc[r] = "idle"
      /\ thunks' = [thunks EXCEPT ![r] = NewLoaders(r)]
      /\ during' = [during EXCEPT ![r] = CurrentRows]
      /\ stock' = stock /\ price' = price /\ orders' = orders /\ root' = root
  BY DEF Receive, db
<1>3. pc'[r] \in {"refused", "running"} /\ doc'[r] = d /\ during'[r] = CurrentRows
  BY <1>1, <1>2 DEF Inv, Shape
<1>4. /\ thunks'[r] = [k \in Keys |-> Unasked]
      /\ \A q \in Requests \ {r} : /\ thunks'[q] = thunks[q] /\ pc'[q] = pc[q]
                                   /\ doc'[q] = doc[q] /\ caller'[q] = caller[q]
                                   /\ during'[q] = during[q]
  BY <1>1, <1>2 DEF Inv, Shape, NewLoaders
<1>5. Shape'
  <2>1. BookShape'
    BY <1>2, NothingMoves DEF Inv, Shape
  <2>2. pc' \in [Requests -> {"idle", "running", "refused", "done"}]
    BY <1>1 DEF Inv, Shape
  <2>3. DOMAIN thunks' = Requests /\ \A q \in Requests : DOMAIN thunks'[q] = Keys
    BY <1>2, <1>4 DEF Inv, Shape
  <2> QED
    BY <1>1, <1>2, <2>1, <2>2, <2>3 DEF Inv, Shape
<1>6. ASSUME NEW q \in Requests
      PROVE  Carried(q)' /\ LoaderInv(q)' /\ RowInv(q)' /\ Finished(q)'
  <2>1. CurrentRows' = CurrentRows
    BY <1>2 DEF CurrentRows, Row
  <2>2. CASE q = r
    <3>1. Carried(r)' /\ Finished(r)'
      BY <1>1, <1>3 DEF Carried, Finished
    <3>2. \A k \in Keys : thunks'[r][k].state = "none" /\ thunks'[r][k].code = "NONE"
      BY <1>4 DEF Unasked
    <3>3. LoaderInv(r)' /\ RowInv(r)'
      BY <1>3, <2>1, <3>2 DEF LoaderInv, RowInv, Keys
    <3> QED
      BY <2>2, <3>1, <3>3
  <2>3. CASE q # r
    BY <1>2, <1>4, <2>1, <2>3 DEF Inv, Carried, LoaderInv, RowInv, Finished, Roots
  <2> QED
    BY <2>2, <2>3
<1>7. ASSUME NEW q \in Requests, NEW i \in 1..MaxRoots PROVE RootInv(q, i)'
  <2>1. Moved({}) /\ NewId(q, i) \notin {}
    BY <1>2, NothingMoves DEF Inv, Shape
  <2>2. pc[q] \in {"running", "done"} => /\ pc'[q] \in {"running", "done"}
                                         /\ doc'[q] = doc[q] /\ caller'[q] = caller[q]
    BY <1>2, <1>4
  <2>3. RootInv(q, i) /\ Carried(q)
    BY DEF Inv
  <2> HIDE DEF Inv
  <2> QED
    BY <1>2, <2>1, <2>2, <2>3, Kept
<1> QED
  BY <1>5, <1>6, <1>7 DEF Inv

LEMMA AnswerStep ==
    ASSUME Inv, NEW r \in Requests, Answer(r)
    PROVE  Inv'
<1>1. /\ pc[r] = "running" /\ AllComplete(r)
      /\ pc' = [pc EXCEPT ![r] = "done"]
      /\ during' = [during EXCEPT ![r] = {}]
      /\ stock' = stock /\ price' = price /\ orders' = orders
      /\ doc' = doc /\ caller' = caller /\ root' = root /\ thunks' = thunks
  BY DEF Answer, db
<1>2. /\ pc'[r] = "done"
      /\ \A q \in Requests \ {r} : pc'[q] = pc[q] /\ during'[q] = during[q]
  BY <1>1 DEF Inv, Shape
<1>3. Shape'
  <2>1. BookShape'
    BY <1>1, NothingMoves DEF Inv, Shape
  <2>2. pc' \in [Requests -> {"idle", "running", "refused", "done"}]
    BY <1>1 DEF Inv, Shape
  <2> QED
    BY <1>1, <2>1, <2>2 DEF Inv, Shape
<1>4. ASSUME NEW q \in Requests
      PROVE  Carried(q)' /\ LoaderInv(q)' /\ RowInv(q)' /\ Finished(q)'
  <2>1. CurrentRows' = CurrentRows
    BY <1>1 DEF CurrentRows, Row
  <2>2. Carried(q)' /\ LoaderInv(q)'
    BY <1>1, <1>2 DEF Inv, Carried, LoaderInv
  <2>3. CASE q = r
    <3>1. Finished(r)'
      BY <1>1, <1>2 DEF Finished, AllComplete, Complete, Roots
    <3>2. RowInv(r)'
      BY <1>2 DEF RowInv
    <3> QED
      BY <2>2, <2>3, <3>1, <3>2
  <2>4. CASE q # r
    BY <1>1, <1>2, <2>1, <2>2, <2>4 DEF Inv, RowInv, Finished, Roots
  <2> QED
    BY <2>3, <2>4
<1>5. ASSUME NEW q \in Requests, NEW i \in 1..MaxRoots PROVE RootInv(q, i)'
  <2>1. Moved({}) /\ NewId(q, i) \notin {}
    BY <1>1, NothingMoves DEF Inv, Shape
  <2>2. pc[q] \in {"running", "done"} => pc'[q] \in {"running", "done"}
    BY <1>2
  <2>3. RootInv(q, i) /\ Carried(q)
    BY DEF Inv
  <2> HIDE DEF Inv
  <2> QED
    BY <1>1, <2>1, <2>2, <2>3, Kept
<1> QED
  BY <1>3, <1>4, <1>5 DEF Inv

LEMMA ElsewhereMoves ==
    ASSUME BookShape, Elsewhere
    PROVE  BookShape' /\ Moved(Earlier)
<1>0. Earlier \subseteq OrderIds
  BY DEF OrderIds
<1>1. CASE \E o \in Earlier, u \in Users, quantity \in Purchases : Book!Place(o, u, quantity)
  <2>1. PICK o \in Earlier, u \in Users, quantity \in Purchases : Book!Place(o, u, quantity)
    BY <1>1
  <2>2. BookShape' /\ Moved({o})
    BY <1>0, <2>1, PlaceMoves
  <2> QED
    BY <2>2 DEF Moved
<1>2. CASE \E o \in Earlier : Book!Confirm(o) \/ Book!Cancel(o) \/ CancelWithoutItems(o)
  <2>1. PICK o \in Earlier : Book!Confirm(o) \/ Book!Cancel(o) \/ CancelWithoutItems(o)
    BY <1>2
  <2>2. PICK status : Settles(o, status)
    BY <2>1 DEF Settles
  <2>3. BookShape' /\ Moved({})
    BY <1>0, <2>2, SettleMoves
  <2> QED
    BY <2>3 DEF Moved
<1>3. CASE \E p \in Products : Book!Reprice(p) /\ price' # price
  <2>1. orders' = orders
    BY <1>3 DEF Book!Reprice
  <2>2. BookShape' /\ Moved({})
    BY <1>0, <2>1, NothingMoves
  <2> QED
    BY <2>2 DEF Moved
<1> QED
  BY <1>1, <1>2, <1>3 DEF Elsewhere

LEMMA ElsewhereStep ==
    ASSUME Inv, Elsewhere
    PROVE  Inv'
<1>1. Observe /\ pc' = pc /\ doc' = doc /\ caller' = caller /\ root' = root /\ thunks' = thunks
  BY DEF Elsewhere, request
<1>2. BookShape /\ Earlier \subseteq OrderIds
  BY DEF Inv, Shape, OrderIds
<1>3. BookShape' /\ Moved(Earlier)
  BY <1>2, ElsewhereMoves
<1>4. DOMAIN during' = Requests /\ \A q \in Requests : RowInv(q)'
  BY <1>1, RowsAreNoted DEF Noted
<1>5. Shape'
  BY <1>1, <1>3, <1>4 DEF Inv, Shape
<1>6. ASSUME NEW q \in Requests PROVE Carried(q)' /\ LoaderInv(q)' /\ Finished(q)'
  BY <1>1 DEF Inv, Carried, LoaderInv, Finished, Roots
<1>7. ASSUME NEW q \in Requests, NEW i \in 1..MaxRoots PROVE RootInv(q, i)'
  <2>1. NewId(q, i) \notin Earlier
    BY NewIds
  <2>2. RootInv(q, i) /\ Carried(q)
    BY DEF Inv
  <2> HIDE DEF Inv
  <2> QED
    BY <1>1, <1>3, <2>1, <2>2, Kept
<1> QED
  BY <1>4, <1>5, <1>6, <1>7 DEF Inv

-----------------------------------------------------------------------------
(* The invariant holds *)

LEMMA InitInv == Init => Inv
<1> SUFFICES ASSUME Init PROVE Inv
  OBVIOUS
<1>1. /\ orders = [o \in OrderIds |-> Book!NoOrder]
      /\ pc = [r \in Requests |-> "idle"]
      /\ root = [r \in Requests |-> [i \in 1..MaxRoots |-> NotRun]]
      /\ thunks = [r \in Requests |-> [k \in Keys |-> Unasked]]
      /\ DOMAIN doc = Requests /\ DOMAIN caller = Requests /\ DOMAIN during = Requests
  BY DEF Init, Book!Init
<1>2. BookShape
  BY <1>1 DEF BookShape, OrderFieldNames, Book!NoOrder
<1>3. Shape
  BY <1>1, <1>2 DEF Shape
<1>4. ASSUME NEW r \in Requests
      PROVE  Carried(r) /\ LoaderInv(r) /\ RowInv(r) /\ Finished(r)
  BY <1>1 DEF Carried, LoaderInv, RowInv, Finished, Keys, Unasked
<1>5. ASSUME NEW r \in Requests, NEW i \in 1..MaxRoots PROVE RootInv(r, i)
  BY <1>1, NewIds DEF RootInv
<1> QED
  BY <1>3, <1>4, <1>5 DEF Inv

LEMMA NextInv == Inv /\ [Next]_vars => Inv'
<1> SUFFICES ASSUME Inv, [Next]_vars PROVE Inv'
  OBVIOUS
<1>1. CASE UNCHANGED vars
  <2>1. UNCHANGED <<db, request, root, during>> /\ thunks' = thunks
    BY <1>1 DEF vars
  <2>2. stock' = stock /\ price' = price /\ orders' = orders
    BY <2>1 DEF db
  <2>3. pc' = pc /\ doc' = doc /\ caller' = caller
    BY <2>1 DEF request
  <2>4. Shape'
    BY <2>1, <2>2, <2>3, NothingMoves DEF Inv, Shape
  <2>5. CurrentRows' = CurrentRows
    BY <2>2 DEF CurrentRows, Row
  <2>6. ASSUME NEW q \in Requests
        PROVE  Carried(q)' /\ LoaderInv(q)' /\ RowInv(q)' /\ Finished(q)'
    BY <2>1, <2>3, <2>5 DEF Inv, Carried, LoaderInv, RowInv, Finished, Roots
  <2>7. ASSUME NEW q \in Requests, NEW i \in 1..MaxRoots PROVE RootInv(q, i)'
    <3>1. Moved({}) /\ NewId(q, i) \notin {}
      BY <2>2, NothingMoves DEF Inv, Shape
    <3>2. RootInv(q, i) /\ Carried(q)
      BY DEF Inv
    <3> HIDE DEF Inv
    <3> QED
      BY <2>1, <2>3, <3>1, <3>2, Kept
  <2> QED
    BY <2>4, <2>6, <2>7 DEF Inv
<1>2. ASSUME NEW r \in Requests, NEW i \in 1..MaxRoots, Resolve(r, i) PROVE Inv'
  BY <1>2, AuthenticateStep, CreateOrderStep, SettleOrderStep, MeStep, ProductStep,
     ProductsPageStep, MyOrdersStep, GetOrderStep DEF Resolve
<1>3. ASSUME NEW r \in Requests, Serve(r) PROVE Inv'
  BY <1>2, <1>3, LoadStep, FetchStep, AnswerStep DEF Serve
<1>4. CASE Next
  BY <1>3, <1>4, ReceiveStep, ResolverFailsStep, FetchStep, ElsewhereStep DEF Next
<1> QED
  BY <1>1, <1>4

(* Every reachable state has the shape, the histories and the book the invariant names. *)
THEOREM Invariance == Spec => []Inv
<1>1. Init => Inv
  BY InitInv
<1>2. Inv /\ [Next]_vars => Inv'
  BY NextInv
<1> QED
  BY <1>1, <1>2, PTL DEF Spec

(* Loaders live as long as their request (loaders.go:19-20): no product row that an answer shows
   is older than the request. *)
THEOREM RowsWereCurrentTheorem == Spec => []RowsWereCurrent
<1>1. Inv => RowsWereCurrent
  BY DEF Inv, RowInv, RowsWereCurrent
<1> QED
  BY <1>1, Invariance, PTL

(* The loaders do not authorize (loaders.go:55-57), and need not: whatever combination of fields
   an operation has, its resolvers let no order of somebody else through, and no key of another
   user reaches a loader. *)
THEOREM OnlyOwnOrdersTheorem == Spec => []OnlyOwnOrders
<1>1. Inv => OnlyOwnOrders
  <2> SUFFICES ASSUME Inv, NEW r \in Requests, pc[r] \in {"running", "done"}, NEW i \in Roots(r)
               PROVE  ShowsOwn(r, FieldType(r, i), root[r][i].value)
    BY DEF OnlyOwnOrders, ShowsOwn, Inv, LoaderInv, Objects
  <2>1. i \in 1..MaxRoots
    BY RootsBounded DEF Inv
  <2>2. CASE root[r][i] = NotRun
    BY <2>2 DEF ShowsOwn, Null, NotRun
  <2>3. CASE root[r][i] # NotRun
    BY <2>1, <2>3 DEF Inv, RootInv
  <2> QED
    BY <2>2, <2>3
<1> QED
  BY <1>1, Invariance, PTL

LEMMA ErrorAtRoot ==
    ASSUME NEW r \in Requests, NEW i \in Roots(r)
    PROVE  ErrorAt(r, i) = IF root[r][i].code \in {"OK", "NONE"} THEN "NONE" ELSE root[r][i].code
<1> DEFINE errors == {e \in Errors(r) : e.root = i /\ ~e.below}
           code == root[r][i].code
           mine == [root |-> i, below |-> FALSE, code |-> code]
<1>1. ASSUME NEW e \in errors PROVE code \notin {"OK", "NONE"} /\ e.code = code
  <2>1. \A key, j : [root |-> j, below |-> TRUE, code |-> thunks[r][key].code].below
    OBVIOUS
  <2>2. PICK j \in {q \in Roots(r) : root[r][q].code \notin {"OK", "NONE"}} :
            e = [root |-> j, below |-> FALSE, code |-> root[r][j].code]
    BY <1>1, <2>1 DEF Errors
  <2> QED
    BY <1>1, <2>2
<1>2. code \notin {"OK", "NONE"} => mine \in errors
  BY DEF Errors
<1>3. ErrorAt(r, i) = IF errors = {} THEN "NONE" ELSE (CHOOSE e \in errors : TRUE).code
  BY DEF ErrorAt
<1> HIDE DEF errors
<1>4. CASE errors = {}
  BY <1>2, <1>3, <1>4
<1>5. CASE errors # {}
  <2>1. (CHOOSE e \in errors : TRUE) \in errors
    BY <1>5
  <2> QED
    BY <1>1, <1>3, <1>5, <2>1
<1> QED
  BY <1>4, <1>5

(* What became of every mutation of an operation can be told from the errors of its answer, even
   when one failed field has turned all of the data into null (generated.go:3708-3787). *)
THEOREM ClientKnowsTheorem == Spec => []ClientKnowsWhatCommitted
<1>1. Inv => ClientKnowsWhatCommitted
  <2> SUFFICES ASSUME Inv, NEW r \in Requests, pc[r] = "done", NEW i \in Roots(r)
               PROVE  /\ ErrorAt(r, i) # "OK"
                      /\ Tells(r, i, IF ErrorAt(r, i) = "NONE" THEN "OK" ELSE ErrorAt(r, i))
    BY DEF ClientKnowsWhatCommitted, Tells
  <2>1. i \in 1..MaxRoots
    BY RootsBounded DEF Inv
  <2>2. root[r][i].done /\ NotRun.done = FALSE
    BY DEF Inv, Finished, NotRun
  <2>3. root[r][i].code # "NONE" /\ Tells(r, i, root[r][i].code)
    BY <2>1, <2>2 DEF Inv, RootInv
  <2> QED
    BY <2>3, ErrorAtRoot
<1> QED
  BY <1>1, Invariance, PTL

-----------------------------------------------------------------------------
(* Types *)

OrderTyped(order) ==
    /\ order.user \in Users /\ order.status \in {"PENDING", "CONFIRMED", "CANCELLED"}
    /\ order.quantity \in [Products -> Nat]
    /\ \A p \in Products : order.quantity[p] > 0 => order.unitPrice[p] \in Prices

BookTypes ==
    /\ stock \in [Products -> Nat] /\ price \in [Products -> Prices]
    /\ \A o \in OrderIds : orders[o] = Book!NoOrder \/ OrderTyped(orders[o])

OrderPageObject == [items : SUBSET OrderObject]

ObjectOf(type) ==
    CASE type = "Order" -> OrderObject
      [] type = "OrderPage" -> OrderPageObject
      [] type = "ProductPage" -> [items : SUBSET RowObject]
      [] type = "Product" -> RowObject
      [] type = "User" -> [id : Users]
      [] type = "AuthPayload" -> [user : [id : Users]]

(* What a resolver may return: an object of its type or null, and null only with an error, unless
   the field is me. *)
Fits(r, i, code, value) ==
    /\ value = Null \/ \E object \in value :
          value = {object} /\ object \in ObjectOf(FieldType(r, i))
    /\ code # "OK" => value = Null
    /\ code = "OK" /\ doc[r].roots[i].field # "me" => value # Null

RootTyped(r, i) == root[r][i].done => Fits(r, i, root[r][i].code, root[r][i].value)

ThunkTyped(r) ==
    \A key \in Keys : thunks[r][key].code = "OK" =>
        thunks[r][key].row \in IF key[1] = "user" THEN [id : Users] ELSE RowObject

RequestTyped(r) ==
    /\ pc[r] # "idle" => doc[r] \in Documents[r] /\ caller[r] \in Callers[r]
    /\ during[r] \subseteq RowObject
    /\ ThunkTyped(r)

Typed ==
    /\ BookTypes
    /\ \A r \in Requests : RequestTyped(r) /\ \A i \in 1..MaxRoots : RootTyped(r, i)

LEMMA PlaceTypes ==
    ASSUME BookShape, BookTypes, NEW o \in OrderIds, NEW user \in Users,
           NEW quantity \in [Products -> Nat], Book!Place(o, user, quantity)
    PROVE  /\ BookTypes' /\ OrderTyped(orders[o])' /\ price' = price
<1>1. stock' \in [Products -> Nat]
  <2>1. \A p \in Products : stock[p] \in Nat /\ quantity[p] \in Nat /\ quantity[p] <= stock[p]
    BY DEF BookTypes, Book!Place
  <2>2. \A p \in Products : stock[p] - quantity[p] \in Nat
    BY <2>1
  <2> QED
    BY <2>2 DEF Book!Place
<1>2. price' = price
  BY DEF Book!Place
<1>3. orders'[o] = [status |-> "PENDING", user |-> user, quantity |-> quantity,
           unitPrice |-> [p \in Products |-> IF quantity[p] > 0 THEN price[p] ELSE 0],
           cancelledAt |-> FALSE]
  BY DEF Book!Place, BookShape
<1>4. OrderTyped(orders'[o])
  BY <1>3 DEF OrderTyped, BookTypes
<1>5. \A x \in OrderIds : x # o => orders'[x] = orders[x]
  BY DEF Book!Place, BookShape
<1>6. \A x \in OrderIds : orders'[x] = Book!NoOrder \/ OrderTyped(orders'[x])
  BY <1>4, <1>5 DEF BookTypes
<1> QED
  BY <1>1, <1>2, <1>4, <1>6 DEF BookTypes, OrderTyped, Book!NoOrder, Book!NoItems

LEMMA SettleTypes ==
    ASSUME BookShape, BookTypes, NEW o \in OrderIds, NEW status, Settles(o, status)
    PROVE  BookTypes' /\ OrderTyped(orders[o])'
<1> USE DEF Settles, CancelWithoutItems
<1>1. orders[o] # Book!NoOrder /\ OrderTyped(orders[o])
  BY DEF Book!Confirm, Book!Cancel, Book!NoOrder, BookTypes
<1>2. stock' \in [Products -> Nat] /\ price' = price
  <2>1. \A p \in Products : stock[p] \in Nat /\ orders[o].quantity[p] \in Nat
    BY <1>1 DEF BookTypes, OrderTyped
  <2>2. \A p \in Products : stock[p] + orders[o].quantity[p] \in Nat
    BY <2>1
  <2> QED
    BY <2>2 DEF Book!Confirm, Book!Cancel, BookTypes
<1>3. /\ orders'[o].user = orders[o].user /\ orders'[o].status \in {"CONFIRMED", "CANCELLED"}
      /\ orders'[o].quantity = orders[o].quantity /\ orders'[o].unitPrice = orders[o].unitPrice
  BY DEF Book!Confirm, Book!Cancel, BookShape, OrderFieldNames
<1>4. OrderTyped(orders'[o])
  BY <1>1, <1>3 DEF OrderTyped
<1>5. \A x \in OrderIds : x # o => orders'[x] = orders[x]
  BY DEF Book!Confirm, Book!Cancel, BookShape
<1>6. \A x \in OrderIds : orders'[x] = Book!NoOrder \/ OrderTyped(orders'[x])
  BY <1>4, <1>5 DEF BookTypes
<1> QED
  BY <1>2, <1>4, <1>6 DEF BookTypes, OrderTyped, Book!NoOrder, Book!NoItems

LEMMA RepriceTypes ==
    ASSUME BookTypes, NEW p \in Products, Book!Reprice(p)
    PROVE  BookTypes'
<1>1. price' \in [Products -> Prices] /\ stock' = stock /\ orders' = orders
  BY DEF Book!Reprice, BookTypes
<1> QED
  BY <1>1 DEF BookTypes, OrderTyped, Book!NoOrder, Book!NoItems

LEMMA SameTypes ==
    ASSUME BookTypes, UNCHANGED db
    PROVE  BookTypes'
BY DEF BookTypes, db, OrderTyped, Book!NoOrder, Book!NoItems

LEMMA RowTypes ==
    ASSUME BookTypes
    PROVE  CurrentRows \subseteq RowObject /\ \A p \in Products : Row(p) \in RowObject
BY DEF BookTypes, CurrentRows, Row, RowObject

(* What an order of the book shows of itself. *)
LEMMA StoredTypes ==
    ASSUME NEW o \in OrderIds, NEW shown, NEW stored, OrderTyped(shown), OrderTyped(stored)
    PROVE  /\ OrderModel(o, shown, StoredItems(stored)) \in OrderObject
           /\ OrderModel(o, shown, {}) \in OrderObject
<1>1. ASSUME NEW p \in Products, stored.quantity[p] > 0
      PROVE  Line(p, stored.quantity[p], stored.unitPrice[p])
                 \in [product : ProductRefs, quantity : Nat \ {0}, unitPrice : Prices]
  <2>1. stored.quantity[p] \in Nat \ {0} /\ stored.unitPrice[p] \in Prices /\ p \in ProductRefs
    BY <1>1, GraphQLAssumption DEF OrderTyped
  <2> QED
    BY <2>1 DEF Line
<1>2. StoredItems(stored) \in
          SUBSET [product : ProductRefs, quantity : Nat \ {0}, unitPrice : Prices]
  BY <1>1 DEF StoredItems
<1> QED
  BY <1>2 DEF OrderModel, OrderObject, OrderTyped

LEMMA ReadTypes ==
    ASSUME NEW ref \in OrderRefs, NEW shown, OrderTyped(shown), OrderTyped(orders[OrderOf[ref]])
    PROVE  OrderModel(OrderOf[ref], shown, ItemsRead(ref)) \in OrderObject
<1>1. OrderOf[ref] \in OrderIds /\ (ref \in OrderIds => OrderOf[ref] = ref)
  BY SpellingAssumption
<1> QED
  BY <1>1, StoredTypes DEF ItemsRead

(* Each line of a basket is of a product that exists, at its current price. *)
LEMMA NewOrderTypes ==
    ASSUME BookTypes, BookTypes', NEW r \in Requests, NEW i \in 1..MaxRoots,
           OrderTyped(orders[NewId(r, i)])', Basket(r, i) \in Baskets, price' = price,
           \A ref \in BasketRefs(r, i) : ProductOf[ref] # None
    PROVE  NewOrder(r, i) \in OrderObject
<1>1. ASSUME NEW ref \in BasketRefs(r, i)
      PROVE  Line(ref, Basket(r, i)[ref], price[ProductOf[ref]])
                 \in [product : ProductRefs, quantity : Nat \ {0}, unitPrice : Prices]
  <2>1. ref \in ProductRefs /\ Basket(r, i)[ref] \in Nat /\ Basket(r, i)[ref] > 0
    BY DEF BasketRefs, Baskets
  <2>2. ProductOf[ref] \in Products
    BY <2>1, GraphQLAssumption
  <2>3. price[ProductOf[ref]] \in Prices
    BY <2>2 DEF BookTypes
  <2> QED
    BY <2>1, <2>3 DEF Line
<1>2. NewId(r, i) \in OrderIds
  BY NewIds
<1>3. orders'[NewId(r, i)].user \in Users
      /\ orders'[NewId(r, i)].status \in {"PENDING", "CONFIRMED", "CANCELLED"}
  BY DEF OrderTyped, NewId
<1> QED
  BY <1>1, <1>2, <1>3 DEF NewOrder, OrderModel, OrderObject

LEMMA QuantityType ==
    ASSUME NEW r, NEW i, Basket(r, i) \in Baskets
    PROVE  Quantity(r, i) \in [Products -> Nat]
<1>1. ASSUME NEW p \in Products PROVE Cardinality(Units(r, i, p, BasketRefs(r, i))) \in Nat
  <2> DEFINE refs == {x \in BasketRefs(r, i) : ProductOf[x] = p}
             lines == {{ref} \X (1..Basket(r, i)[ref]) : ref \in refs}
  <2>1. IsFiniteSet(refs)
    <3>1. IsFiniteSet(BasketRefs(r, i))
      BY DEF BasketRefs, Baskets
    <3> QED
      BY <3>1, FS_Subset
  <2>2. IsFiniteSet(lines)
    <3> DEFINE f == [ref \in refs |-> {ref} \X (1..Basket(r, i)[ref])]
    <3>1. f \in Surjection(refs, lines)
      BY DEF Surjection
    <3> QED
      BY <2>1, <3>1, FS_Surjection
  <2>3. ASSUME NEW s \in lines PROVE IsFiniteSet(s)
    <3>1. PICK ref \in refs : s = {ref} \X (1..Basket(r, i)[ref])
      OBVIOUS
    <3>2. Basket(r, i)[ref] \in Int /\ 1 \in Int
      BY DEF BasketRefs, Baskets
    <3>3. IsFiniteSet(1..Basket(r, i)[ref]) /\ IsFiniteSet({ref})
      BY <3>2, FS_Interval, FS_Singleton
    <3> QED
      BY <3>1, <3>3, FS_Product
  <2>4. IsFiniteSet(UNION lines)
    BY <2>2, <2>3, FS_UNION
  <2> QED
    BY <2>4, FS_CardinalityType DEF Units
<1> QED
  BY <1>1 DEF Quantity

LEMMA NextRowTypes ==
    ASSUME BookTypes'
    PROVE  CurrentRows' \subseteq RowObject
BY DEF BookTypes, CurrentRows, Row, RowObject

(* A step that notes the rows of the next state in the histories. *)
LEMMA HistoryTypes ==
    ASSUME Inv, Typed, BookTypes', Noted
    PROVE  \A q \in Requests : during'[q] \subseteq RowObject
<1>1. \A q \in Requests : during[q] \subseteq RowObject
  BY DEF Typed, RequestTyped
<1>2. CASE UNCHANGED <<stock, price, during>>
  BY <1>1, <1>2
<1>3. CASE Observe
  BY <1>1, <1>3, NextRowTypes DEF Observe
<1> QED
  BY <1>2, <1>3 DEF Noted

(* A resolver returns a value of the type of its field. *)
LEMMA ReturnTypes ==
    ASSUME Inv, Typed, NEW r \in Requests, NEW i \in 1..MaxRoots, NEW code, NEW value,
           Returns(r, i, code, value), BookTypes', Noted, UNCHANGED <<request, thunks>>,
           Fits(r, i, code, value)
    PROVE  Typed'
<1>1. pc' = pc /\ doc' = doc /\ caller' = caller /\ thunks' = thunks
  BY DEF request
<1>2. /\ root'[r][i] = Outcome(code, value)
      /\ \A q \in Requests, j \in 1..MaxRoots : q # r \/ j # i => root'[q][j] = root[q][j]
  BY Returned DEF Inv
<1>3. ASSUME NEW q \in Requests PROVE RequestTyped(q)'
  <2>1. RequestTyped(q) /\ during'[q] \subseteq RowObject
    BY HistoryTypes DEF Typed
  <2>2. ThunkTyped(q)'
    BY <1>1, <2>1 DEF RequestTyped, ThunkTyped, RowObject, Keys
  <2> QED
    BY <1>1, <2>1, <2>2 DEF RequestTyped, RowObject
<1>4. ASSUME NEW q \in Requests, NEW j \in 1..MaxRoots PROVE RootTyped(q, j)'
  <2>1. \A c, v : Fits(q, j, c, v)' <=> Fits(q, j, c, v)
    BY <1>1 DEF Fits, FieldType, ObjectOf, OrderObject, OrderPageObject, OrderIds
  <2>2. CASE q = r /\ j = i
    <3>1. root'[r][i].code = code /\ root'[r][i].value = value
      BY <1>2 DEF Outcome
    <3> QED
      BY <2>1, <2>2, <3>1 DEF RootTyped
  <2>3. CASE q # r \/ j # i
    <3>1. RootTyped(q, j) /\ root'[q][j] = root[q][j]
      BY <1>2, <2>3 DEF Typed
    <3> QED
      BY <2>1, <3>1 DEF RootTyped
  <2> QED
    BY <2>2, <2>3
<1> QED
  BY <1>3, <1>4 DEF Typed

LEMMA QuietReturnTypes ==
    ASSUME Inv, Typed, NEW r \in Requests, NEW i \in 1..MaxRoots, NEW code, NEW value,
           Returns(r, i, code, value), Quiet, Fits(r, i, code, value)
    PROVE  Typed'
<1>1. UNCHANGED db /\ Noted /\ UNCHANGED <<request, thunks>>
  BY DEF Quiet, Noted, db
<1>2. BookTypes'
  BY <1>1, SameTypes DEF Typed
<1> QED
  BY <1>1, <1>2, ReturnTypes

(* An error beside no value fits every field. *)
LEMMA ErrorFits ==
    ASSUME NEW r, NEW i, NEW code, code # "OK"
    PROVE  Fits(r, i, code, Null)
BY DEF Fits

LEMMA ValueFits ==
    ASSUME NEW r, NEW i, NEW object, object \in ObjectOf(FieldType(r, i))
    PROVE  Fits(r, i, "OK", {object})
BY DEF Fits, Null

LEMMA AuthenticateTypes ==
    ASSUME Inv, Typed, NEW r \in Requests, NEW i \in 1..MaxRoots, Authenticate(r, i)
    PROVE  Typed'
<1>1. Quiet /\ doc[r].roots[i].field \in SessionFields
  BY Domains DEF Authenticate, Starts
<1>2. ObjectOf(FieldType(r, i)) = [user : [id : Users]]
  BY <1>1, FieldTypes DEF FieldType, ObjectOf
<1>3. CASE \E u \in Users : Returns(r, i, "OK", {[user |-> [id |-> u]]})
  <2>1. PICK u \in Users : Returns(r, i, "OK", {[user |-> [id |-> u]]})
    BY <1>3
  <2> DEFINE payload == [user |-> [id |-> u]]
  <2>2. payload \in [user : [id : Users]]
    OBVIOUS
  <2>3. Returns(r, i, "OK", {payload})
    BY <2>1
  <2> HIDE DEF payload
  <2> QED
    BY <1>1, <1>2, <2>2, <2>3, ValueFits, QuietReturnTypes
<1>4. CASE Returns(r, i, "INVALID_CREDENTIALS", Null)
  BY <1>1, <1>4, ErrorFits, QuietReturnTypes
<1> QED
  BY <1>3, <1>4 DEF Authenticate

LEMMA MeTypes ==
    ASSUME Inv, Typed, NEW r \in Requests, NEW i \in 1..MaxRoots, Me(r, i)
    PROVE  Typed'
<1> DEFINE value == IF caller[r] \in Users THEN {[id |-> caller[r]]} ELSE Null
<1>1. Quiet /\ doc[r].roots[i].field = "me" /\ Returns(r, i, "OK", value)
  BY DEF Me, Starts
<1>2. ObjectOf(FieldType(r, i)) = [id : Users]
  BY <1>1, FieldTypes DEF FieldType, ObjectOf
<1>3. Fits(r, i, "OK", value)
  BY <1>1, <1>2 DEF Fits
<1> HIDE DEF value
<1> QED
  BY <1>1, <1>3, QuietReturnTypes

LEMMA ProductTypes ==
    ASSUME Inv, Typed, NEW r \in Requests, NEW i \in 1..MaxRoots, Product(r, i)
    PROVE  Typed'
<1> DEFINE p == ProductOf[doc[r].roots[i].arg]
<1>1. Quiet /\ doc[r].roots[i].field = "product" /\ i \in Roots(r) /\ pc[r] # "idle"
  BY DEF Product, Starts
<1>2. ObjectOf(FieldType(r, i)) = RowObject
  BY <1>1, FieldTypes DEF FieldType, ObjectOf
<1>3. CASE Returns(r, i, "PRODUCT_NOT_FOUND", Null)
  BY <1>1, <1>3, ErrorFits, QuietReturnTypes
<1>4. CASE p # None /\ Returns(r, i, "OK", {Row(p)})
  <2>1. doc[r].roots[i].arg \in ProductRefs
    <3>1. doc[r] \in UNION {Documents[q] : q \in Requests}
      BY <1>1 DEF Inv, Carried
    <3>2. doc[r].roots[i].arg \in Arguments("product")
      BY <1>1, <3>1, DocumentAssumption DEF Roots
    <3> QED
      BY <3>2 DEF Arguments
  <2>2. p \in Products
    BY <1>4, <2>1, GraphQLAssumption
  <2>3. Row(p) \in RowObject
    BY <2>2, RowTypes DEF Typed
  <2> QED
    BY <1>1, <1>2, <1>4, <2>3, ValueFits, QuietReturnTypes
<1> QED
  BY <1>3, <1>4 DEF Product

LEMMA ProductsPageTypes ==
    ASSUME Inv, Typed, NEW r \in Requests, NEW i \in 1..MaxRoots, ProductsPage(r, i)
    PROVE  Typed'
<1> DEFINE page == [items |-> CurrentRows]
<1>1. Quiet /\ doc[r].roots[i].field = "products" /\ Returns(r, i, "OK", {page})
  BY DEF ProductsPage, Starts
<1>2. ObjectOf(FieldType(r, i)) = [items : SUBSET RowObject]
  BY <1>1, FieldTypes DEF FieldType, ObjectOf
<1>3. page \in [items : SUBSET RowObject]
  BY RowTypes DEF Typed
<1> HIDE DEF page
<1> QED
  BY <1>1, <1>2, <1>3, ValueFits, QuietReturnTypes

LEMMA StoredOrder ==
    ASSUME BookTypes, NEW o \in OrderIds, orders[o] # Book!NoOrder
    PROVE  Stored(o) \in OrderObject
BY StoredTypes DEF BookTypes, Stored

LEMMA MyOrdersTypes ==
    ASSUME Inv, Typed, NEW r \in Requests, NEW i \in 1..MaxRoots, MyOrders(r, i)
    PROVE  Typed'
<1> DEFINE own == {x \in OrderIds : orders[x].user = caller[r]}
           page == [items |-> {Stored(o) : o \in own}]
<1>1. Quiet /\ doc[r].roots[i].field = "myOrders"
  BY DEF MyOrders, Starts
<1>2. ObjectOf(FieldType(r, i)) = OrderPageObject
  BY <1>1, FieldTypes DEF FieldType, ObjectOf
<1>3. CASE Returns(r, i, "UNAUTHENTICATED", Null)
  BY <1>1, <1>3, ErrorFits, QuietReturnTypes
<1>4. CASE caller[r] # None /\ Returns(r, i, "OK", {page})
  <2>1. \A o \in own : orders[o] # Book!NoOrder
    BY <1>4 DEF Book!NoOrder
  <2>2. page \in OrderPageObject
    BY <2>1, StoredOrder DEF Typed, OrderPageObject
  <2> HIDE DEF page
  <2> QED
    BY <1>1, <1>2, <1>4, <2>2, ValueFits, QuietReturnTypes
<1> QED
  BY <1>3, <1>4 DEF MyOrders

LEMMA GetOrderTypes ==
    ASSUME Inv, Typed, NEW r \in Requests, NEW i \in 1..MaxRoots, GetOrder(r, i)
    PROVE  Typed'
<1> DEFINE ref == doc[r].roots[i].arg
           o == OrderOf[ref]
           denial == Denial(o, caller[r])
           order == OrderModel(o, orders[o], ItemsRead(ref))
<1>1. Starts(r, i, {"order"}) /\ Quiet
  BY DEF GetOrder
<1>2. ref \in OrderRefs /\ o \in OrderIds /\ ObjectOf(FieldType(r, i)) = OrderObject
  BY <1>1, RootsBounded, FieldTypes DEF Starts, Inv, FieldType, ObjectOf
<1>3. CASE denial # "NONE" /\ Returns(r, i, denial, Null)
  <2>1. denial # "OK"
    BY <1>2, DenialIsTrue
  <2> HIDE DEF denial
  <2> QED
    BY <1>1, <1>3, <2>1, ErrorFits, QuietReturnTypes
<1>4. CASE denial = "NONE" /\ Returns(r, i, "OK", {order})
  <2>1. OrderTyped(orders[o])
    BY <1>2, <1>4, DenialIsTrue DEF Typed, BookTypes
  <2>2. order \in OrderObject
    BY <1>2, <2>1, ReadTypes
  <2> HIDE DEF order
  <2> QED
    BY <1>1, <1>2, <1>4, <2>2, ValueFits, QuietReturnTypes
<1> QED
  BY <1>3, <1>4 DEF GetOrder

LEMMA ResolverFailsTypes ==
    ASSUME Inv, Typed, NEW r \in Requests, NEW i \in 1..MaxRoots, ResolverFails(r, i)
    PROVE  Typed'
BY ErrorFits, QuietReturnTypes DEF ResolverFails

LEMMA CreateBasket ==
    ASSUME Inv, NEW r \in Requests, NEW i \in 1..MaxRoots, CreateOrder(r, i)
    PROVE  Basket(r, i) \in Baskets
<1>1. /\ doc[r].roots[i].field = "createOrder" /\ i \in Roots(r) /\ pc[r] # "idle"
  BY DEF CreateOrder, Starts
<1>2. doc[r] \in UNION {Documents[q] : q \in Requests}
  BY <1>1 DEF Inv, Carried
<1>3. doc[r].roots[i].arg \in Arguments("createOrder")
  BY <1>1, <1>2, DocumentAssumption DEF Roots
<1> QED
  BY <1>3 DEF Arguments, Basket

LEMMA CreateOrderTypes ==
    ASSUME Inv, Typed, NEW r \in Requests, NEW i \in 1..MaxRoots, CreateOrder(r, i)
    PROVE  Typed'
<1>1. /\ doc[r].roots[i].field = "createOrder" /\ i \in Roots(r) /\ pc[r] # "idle"
  BY DEF CreateOrder, Starts
<1>2. ObjectOf(FieldType(r, i)) = OrderObject
  BY <1>1, FieldTypes DEF FieldType, ObjectOf
<1>3. CASE /\ \E code \in OrderErrors :
                 Refused(r, i, caller[r], code) /\ Returns(r, i, code, Null)
           /\ Quiet
  <2> PICK code \in OrderErrors : Returns(r, i, code, Null) /\ Quiet
    BY <1>3
  <2>1. code # "OK"
    BY DEF OrderErrors
  <2> QED
    BY <2>1, ErrorFits, QuietReturnTypes
<1>4. CASE /\ Accepted(r, i, caller[r])
           /\ Book!Place(NewId(r, i), caller[r], Quantity(r, i))
           /\ \/ Returns(r, i, "OK", {NewOrder(r, i)})
              \/ Returns(r, i, "INTERNAL_ERROR", Null)
           /\ Observe
           /\ UNCHANGED <<request, thunks>>
  <2>1. Basket(r, i) \in Baskets
    BY CreateBasket
  <2>2. /\ caller[r] \in Users /\ \A ref \in BasketRefs(r, i) : ProductOf[ref] # None
    BY <1>4 DEF Accepted, Account, Faulty, Fault
  <2>3. Quantity(r, i) \in [Products -> Nat] /\ NewId(r, i) \in OrderIds
    BY <2>1, QuantityType, NewIds
  <2> DEFINE o == NewId(r, i)
  <2>4. BookTypes' /\ OrderTyped(orders'[o]) /\ price' = price
    BY <1>4, <2>2, <2>3, PlaceTypes DEF Inv, Shape, Typed
  <2>5. NewOrder(r, i) \in OrderObject
    BY <2>1, <2>2, <2>4, NewOrderTypes DEF Typed, NewId
  <2>6. Noted
    BY <1>4 DEF Noted
  <2> DEFINE order == NewOrder(r, i)
  <2>7. Fits(r, i, "OK", {order})
    BY <1>2, <2>5, ValueFits
  <2>8. CASE Returns(r, i, "OK", {order})
    <3> HIDE DEF order
    <3> QED
      BY <1>4, <2>4, <2>6, <2>7, <2>8, ReturnTypes
  <2>9. CASE Returns(r, i, "INTERNAL_ERROR", Null)
    BY <1>4, <2>4, <2>6, <2>9, ErrorFits, ReturnTypes
  <2> QED
    BY <1>4, <2>8, <2>9
<1> QED
  BY <1>3, <1>4 DEF CreateOrder

LEMMA SettleOrderTypes ==
    ASSUME Inv, Typed, NEW r \in Requests, NEW i \in 1..MaxRoots, SettleOrder(r, i)
    PROVE  Typed'
<1> DEFINE ref == doc[r].roots[i].arg
           o == OrderOf[ref]
           field == doc[r].roots[i].field
           denial == Denial(o, caller[r])
<1>1. Starts(r, i, {"confirmOrder", "cancelOrder"})
  BY DEF SettleOrder
<1>2. ref \in OrderRefs /\ o \in OrderIds /\ ObjectOf(FieldType(r, i)) = OrderObject
  BY <1>1, RootsBounded, FieldTypes DEF Starts, Inv, FieldType, ObjectOf
<1>3. CASE denial # "NONE" /\ Returns(r, i, denial, Null) /\ Quiet
  <2>1. denial # "OK"
    BY <1>2, DenialIsTrue
  <2> HIDE DEF denial
  <2> QED
    BY <1>3, <2>1, ErrorFits, QuietReturnTypes
<1>4. CASE Returns(r, i, "ORDER_NOT_PENDING", Null) /\ Quiet
  BY <1>4, ErrorFits, QuietReturnTypes
<1>5. CASE /\ denial = "NONE" /\ Settle(ref, field)
           /\ \/ Returns(r, i, "OK", {OrderModel(o, orders'[o], ItemsRead(ref))})
              \/ Returns(r, i, "INTERNAL_ERROR", Null)
           /\ Observe
           /\ UNCHANGED <<request, thunks>>
  <2> DEFINE order == OrderModel(o, orders'[o], ItemsRead(ref))
  <2>1. Noted /\ \E status : Settles(o, status)
    BY <1>5, SpellingAssumption DEF Settle, Settles, Noted
  <2>2. BookTypes' /\ OrderTyped(orders'[o])
    BY <1>2, <2>1, SettleTypes DEF Inv, Shape, Typed
  <2>3. OrderTyped(orders[o])
    BY <1>2, <1>5, DenialIsTrue DEF Typed, BookTypes
  <2>4. order \in OrderObject
    BY <1>2, <2>2, <2>3, ReadTypes
  <2>5. Fits(r, i, "OK", {order})
    BY <1>2, <2>4, ValueFits
  <2>6. CASE Returns(r, i, "OK", {order})
    <3> HIDE DEF order
    <3> QED
      BY <1>5, <2>1, <2>2, <2>5, <2>6, ReturnTypes
  <2>7. CASE Returns(r, i, "INTERNAL_ERROR", Null)
    BY <1>5, <2>1, <2>2, <2>7, ErrorFits, ReturnTypes
  <2> QED
    BY <1>5, <2>6, <2>7
<1> QED
  BY <1>3, <1>4, <1>5 DEF SettleOrder

(* Steps of the loaders and of a request as a whole: the book and the roots stay as they are. *)
LEMMA RequestStepTypes ==
    ASSUME Inv, Typed, NEW r \in Requests, UNCHANGED <<db, root>>,
           \A q \in Requests \ {r} : /\ pc'[q] = pc[q] /\ doc'[q] = doc[q]
                                     /\ caller'[q] = caller[q] /\ during'[q] = during[q]
                                     /\ thunks'[q] = thunks[q],
           doc'[r] = doc[r] \/ \A i \in 1..MaxRoots : ~root[r][i].done,
           RequestTyped(r)'
    PROVE  Typed'
<1>1. BookTypes'
  BY SameTypes DEF Typed
<1>2. ASSUME NEW q \in Requests \ {r} PROVE RequestTyped(q)'
  <2>1. RequestTyped(q)
    BY DEF Typed
  <2>2. ThunkTyped(q)'
    BY <2>1 DEF RequestTyped, ThunkTyped, RowObject, Keys
  <2> QED
    BY <2>1, <2>2 DEF RequestTyped, RowObject
<1>3. ASSUME NEW q \in Requests, NEW i \in 1..MaxRoots PROVE RootTyped(q, i)'
  <2>1. root' = root /\ RootTyped(q, i)
    BY DEF Typed
  <2>2. CASE doc'[q] = doc[q]
    BY <2>1, <2>2 DEF RootTyped, Fits, FieldType, ObjectOf, OrderObject, OrderPageObject, OrderIds
  <2>3. CASE ~root[q][i].done
    BY <2>1, <2>3 DEF RootTyped
  <2> QED
    BY <2>2, <2>3
<1> QED
  BY <1>1, <1>2, <1>3 DEF Typed

LEMMA LoadTypes ==
    ASSUME Inv, Typed, NEW r \in Requests, NEW key \in Keys, Load(r, key)
    PROVE  Typed'
<1>1. /\ UNCHANGED <<db, root>> /\ pc' = pc /\ doc' = doc /\ caller' = caller /\ during' = during
      /\ thunks' = [thunks EXCEPT ![r][key] = Asked]
  BY DEF Load, request
<1>2. /\ \A q \in Requests \ {r} : thunks'[q] = thunks[q]
      /\ thunks'[r][key] = Asked /\ Asked.code # "OK"
      /\ \A k \in Keys \ {key} : thunks'[r][k] = thunks[r][k]
  BY <1>1 DEF Inv, Shape, Asked, Unasked
<1>3. RequestTyped(r)
  BY DEF Typed
<1>4. ThunkTyped(r)'
  BY <1>2, <1>3 DEF RequestTyped, ThunkTyped, RowObject, Keys
<1>5. RequestTyped(r)'
  BY <1>1, <1>3, <1>4 DEF RequestTyped, RowObject
<1> QED
  BY <1>1, <1>2, <1>5, RequestStepTypes

LEMMA BatchTypes ==
    ASSUME Inv, Typed, NEW r \in Requests, NEW kind,
           UNCHANGED <<db, request, root, during>>,
           \A q \in Requests \ {r} : thunks'[q] = thunks[q],
           \A key \in Keys \ Queue(r, kind) : thunks'[r][key] = thunks[r][key],
           \A key \in Queue(r, kind) :
               thunks'[r][key].code = "OK" =>
                   thunks'[r][key].row \in IF key[1] = "user" THEN [id : Users] ELSE RowObject
    PROVE  Typed'
<1>1. UNCHANGED <<db, root>> /\ pc' = pc /\ doc' = doc /\ caller' = caller /\ during' = during
  BY DEF request
<1>2. RequestTyped(r)
  BY DEF Typed
<1>3. ThunkTyped(r)'
  BY <1>2 DEF RequestTyped, ThunkTyped, RowObject, Keys
<1>4. RequestTyped(r)'
  BY <1>1, <1>2, <1>3 DEF RequestTyped, RowObject
<1> QED
  BY <1>1, <1>4, RequestStepTypes

LEMMA FetchTypes ==
    ASSUME Inv, Typed, NEW r \in Requests, NEW kind \in {"user", "product"},
           FetchUsers(r) \/ FetchProducts(r) \/ FetchFails(r, kind)
    PROVE  Typed'
<1>1. CASE FetchUsers(r)
  <2>1. /\ UNCHANGED <<db, request, root, during>>
        /\ thunks' = [thunks EXCEPT ![r] =
              [key \in Keys |-> IF key \in Queue(r, "user") THEN UserFound(key[2])
                                                            ELSE thunks[r][key]]]
    BY <1>1 DEF FetchUsers, Batch
  <2>2. /\ \A q \in Requests \ {r} : thunks'[q] = thunks[q]
        /\ \A key \in Keys \ Queue(r, "user") : thunks'[r][key] = thunks[r][key]
        /\ \A key \in Queue(r, "user") : thunks'[r][key] = UserFound(key[2])
    BY <2>1 DEF Inv, Shape, Queue
  <2>3. \A key \in Queue(r, "user") : key[1] = "user" /\ key[2] \in Users
    BY DEF Queue, Keys
  <2>4. \A u \in Users : UserFound(u).row \in [id : Users]
    BY DEF UserFound, Got
  <2>6. \A key \in Queue(r, "user") :
            thunks'[r][key].code = "OK" =>
                thunks'[r][key].row \in IF key[1] = "user" THEN [id : Users] ELSE RowObject
    BY <2>2, <2>3, <2>4
  <2> QED
    BY <2>1, <2>2, <2>6, BatchTypes
<1>2. CASE FetchProducts(r)
  <2>1. /\ UNCHANGED <<db, request, root, during>>
        /\ thunks' = [thunks EXCEPT ![r] =
              [key \in Keys |-> IF key \in Queue(r, "product") THEN ProductFound(key[2])
                                                               ELSE thunks[r][key]]]
    BY <1>2 DEF FetchProducts, Batch
  <2>2. /\ \A q \in Requests \ {r} : thunks'[q] = thunks[q]
        /\ \A key \in Keys \ Queue(r, "product") : thunks'[r][key] = thunks[r][key]
        /\ \A key \in Queue(r, "product") : thunks'[r][key] = ProductFound(key[2])
    BY <2>1 DEF Inv, Shape, Queue
  <2>3. \A key \in Queue(r, "product") : key[1] # "user"
    BY DEF Queue
  <2>4. \A p \in Products : Row(p) \in RowObject
    BY RowTypes DEF Typed
  <2>5. \A ref : ProductFound(ref).code = "OK" => ProductFound(ref).row \in RowObject
    BY <2>4 DEF ProductFound, Got
  <2>6. \A key \in Queue(r, "product") :
            thunks'[r][key].code = "OK" =>
                thunks'[r][key].row \in IF key[1] = "user" THEN [id : Users] ELSE RowObject
    BY <2>2, <2>3, <2>5
  <2> QED
    BY <2>1, <2>2, <2>6, BatchTypes
<1>3. CASE FetchFails(r, kind)
  <2>1. /\ UNCHANGED <<db, request, root, during>>
        /\ thunks' = [thunks EXCEPT ![r] =
              [key \in Keys |-> IF key \in Queue(r, kind) THEN NothingFound(key[2])
                                                          ELSE thunks[r][key]]]
    BY <1>3 DEF FetchFails, Batch
  <2>2. /\ \A q \in Requests \ {r} : thunks'[q] = thunks[q]
        /\ \A key \in Keys \ Queue(r, kind) : thunks'[r][key] = thunks[r][key]
        /\ \A key \in Queue(r, kind) : thunks'[r][key] = NothingFound(key[2])
    BY <2>1 DEF Inv, Shape, Queue
  <2>3. \A ref : NothingFound(ref).code # "OK"
    BY DEF NothingFound, Got
  <2>6. \A key \in Queue(r, kind) :
            thunks'[r][key].code = "OK" =>
                thunks'[r][key].row \in IF key[1] = "user" THEN [id : Users] ELSE RowObject
    BY <2>2, <2>3
  <2> QED
    BY <2>1, <2>2, <2>6, BatchTypes
<1> QED
  BY <1>1, <1>2, <1>3

LEMMA ReceiveTypes ==
    ASSUME Inv, Typed, NEW r \in Requests, Receive(r)
    PROVE  Typed'
<1>1. PICK d \in Documents[r], c \in Callers[r] :
          /\ doc' = [doc EXCEPT ![r] = d]
          /\ caller' = [caller EXCEPT ![r] = c]
          /\ pc' = [pc EXCEPT ![r] = IF Complexity(d) > Limit THEN "refused" ELSE "running"]
  BY DEF Receive
<1>2. /\ pc[r] = "idle" /\ UNCHANGED <<db, root>>
      /\ thunks' = [thunks EXCEPT ![r] = NewLoaders(r)]
      /\ during' = [during EXCEPT ![r] = CurrentRows]
  BY DEF Receive
<1>3. doc'[r] = d /\ caller'[r] = c /\ during'[r] = CurrentRows
  BY <1>1, <1>2 DEF Inv, Shape
<1>4. /\ thunks'[r] = [k \in Keys |-> Unasked]
      /\ \A q \in Requests \ {r} : /\ thunks'[q] = thunks[q] /\ pc'[q] = pc[q]
                                   /\ doc'[q] = doc[q] /\ caller'[q] = caller[q]
                                   /\ during'[q] = during[q]
  BY <1>1, <1>2 DEF Inv, Shape, NewLoaders
<1>5. ThunkTyped(r)'
  BY <1>4 DEF ThunkTyped, Unasked, Keys
<1>6. RequestTyped(r)'
  BY <1>3, <1>5, RowTypes DEF RequestTyped, Typed, RowObject
<1>7. \A i \in 1..MaxRoots : ~root[r][i].done
  BY <1>2 DEF Inv, RootInv, NotRun
<1> QED
  BY <1>2, <1>4, <1>6, <1>7, RequestStepTypes

LEMMA AnswerTypes ==
    ASSUME Inv, Typed, NEW r \in Requests, Answer(r)
    PROVE  Typed'
<1>1. /\ pc[r] = "running" /\ UNCHANGED <<db, root>>
      /\ pc' = [pc EXCEPT ![r] = "done"]
      /\ during' = [during EXCEPT ![r] = {}]
      /\ doc' = doc /\ caller' = caller /\ thunks' = thunks
  BY DEF Answer
<1>2. /\ during'[r] = {}
      /\ \A q \in Requests \ {r} : pc'[q] = pc[q] /\ during'[q] = during[q]
  BY <1>1 DEF Inv, Shape
<1>3. RequestTyped(r)
  BY DEF Typed
<1>4. ThunkTyped(r)'
  BY <1>1, <1>3 DEF RequestTyped, ThunkTyped, RowObject, Keys
<1>5. RequestTyped(r)'
  BY <1>1, <1>2, <1>3, <1>4 DEF RequestTyped
<1> QED
  BY <1>1, <1>2, <1>5, RequestStepTypes

LEMMA ElsewhereTypes ==
    ASSUME Inv, Typed, Elsewhere
    PROVE  Typed'
<1>1. Noted /\ pc' = pc /\ doc' = doc /\ caller' = caller /\ root' = root /\ thunks' = thunks
  BY DEF Elsewhere, request, Noted
<1>2. BookShape /\ BookTypes /\ Earlier \subseteq OrderIds
  BY DEF Inv, Shape, Typed, OrderIds
<1>3. BookTypes'
  <2>1. CASE \E o \in Earlier, u \in Users, quantity \in Purchases : Book!Place(o, u, quantity)
    <3>1. PICK o \in Earlier, u \in Users, quantity \in Purchases : Book!Place(o, u, quantity)
      BY <2>1
    <3>2. quantity \in [Products -> Nat]
      BY GraphQLAssumption
    <3> QED
      BY <1>2, <3>1, <3>2, PlaceTypes
  <2>2. CASE \E o \in Earlier : Book!Confirm(o) \/ Book!Cancel(o) \/ CancelWithoutItems(o)
    <3>1. PICK o \in Earlier : \E status : Settles(o, status)
      BY <2>2 DEF Settles
    <3> QED
      BY <1>2, <3>1, SettleTypes
  <2>3. CASE \E p \in Products : Book!Reprice(p) /\ price' # price
    BY <1>2, <2>3, RepriceTypes
  <2> QED
    BY <2>1, <2>2, <2>3 DEF Elsewhere
<1>4. ASSUME NEW q \in Requests PROVE RequestTyped(q)'
  <2>1. RequestTyped(q) /\ during'[q] \subseteq RowObject
    BY <1>1, <1>3, HistoryTypes DEF Typed
  <2>2. ThunkTyped(q)'
    BY <1>1, <2>1 DEF RequestTyped, ThunkTyped, RowObject, Keys
  <2> QED
    BY <1>1, <2>1, <2>2 DEF RequestTyped, RowObject
<1>5. ASSUME NEW q \in Requests, NEW i \in 1..MaxRoots PROVE RootTyped(q, i)'
  <2>1. RootTyped(q, i)
    BY DEF Typed
  <2> QED
    BY <1>1, <2>1 DEF RootTyped, Fits, FieldType, ObjectOf, OrderObject, OrderPageObject, OrderIds
<1> QED
  BY <1>3, <1>4, <1>5 DEF Typed

LEMMA FieldKnown ==
    ASSUME NEW r \in Requests, Carried(r), pc[r] # "idle", NEW i \in Roots(r)
    PROVE  /\ doc[r].roots[i].field \in SessionFields \cup {"createOrder", "confirmOrder",
              "cancelOrder", "me", "products", "product", "myOrders", "order"}
           /\ FieldType(r, i) \in
                 {"Order", "OrderPage", "ProductPage", "Product", "User", "AuthPayload"}
<1>1. doc[r] \in UNION {Documents[q] : q \in Requests}
  BY DEF Carried
<1>2. doc[r].roots[i].field \in DOMAIN QueryFields \cup DOMAIN SessionMutations
          \cup DOMAIN OrderMutations
  BY <1>1, DocumentAssumption DEF Roots
<1> QED
  BY <1>2, Domains, FieldTypes DEF FieldType

LEMMA InitTypes == Init => Typed
<1> SUFFICES ASSUME Init PROVE Typed
  OBVIOUS
<1>1. /\ stock = InitStock /\ price \in [Products -> Prices]
      /\ orders = [o \in OrderIds |-> Book!NoOrder]
  BY DEF Init, Book!Init
<1>2. BookTypes
  BY <1>1, GraphQLAssumption DEF BookTypes
<1>3. /\ pc = [r \in Requests |-> "idle"] /\ during = [r \in Requests |-> {}]
      /\ root = [r \in Requests |-> [i \in 1..MaxRoots |-> NotRun]]
      /\ thunks = [r \in Requests |-> [k \in Keys |-> Unasked]]
  BY DEF Init
<1>4. \A r \in Requests : RequestTyped(r) /\ \A i \in 1..MaxRoots : RootTyped(r, i)
  BY <1>3 DEF RequestTyped, ThunkTyped, RootTyped, Unasked, NotRun
<1> QED
  BY <1>2, <1>4 DEF Typed

LEMMA NextTypes == Inv /\ Typed /\ [Next]_vars => Typed'
<1> SUFFICES ASSUME Inv, Typed, [Next]_vars PROVE Typed'
  OBVIOUS
<1>1. CASE UNCHANGED vars
  <2>1. UNCHANGED <<db, root>> /\ UNCHANGED <<pc, doc, caller, thunks, during>>
    BY <1>1 DEF vars, request
  <2>2. BookTypes'
    BY <2>1, SameTypes DEF Typed
  <2>3. ASSUME NEW q \in Requests PROVE RequestTyped(q)'
    <3>1. RequestTyped(q)
      BY DEF Typed
    <3>2. ThunkTyped(q)'
      BY <2>1, <3>1 DEF RequestTyped, ThunkTyped, RowObject, Keys
    <3> QED
      BY <2>1, <3>1, <3>2 DEF RequestTyped, RowObject
  <2>4. ASSUME NEW q \in Requests, NEW i \in 1..MaxRoots PROVE RootTyped(q, i)'
    <3>1. RootTyped(q, i)
      BY DEF Typed
    <3> QED
      BY <2>1, <3>1
      DEF RootTyped, Fits, FieldType, ObjectOf, OrderObject, OrderPageObject, OrderIds
  <2> QED
    BY <2>2, <2>3, <2>4 DEF Typed
<1>2. ASSUME NEW r \in Requests, NEW i \in 1..MaxRoots, Resolve(r, i) PROVE Typed'
  BY <1>2, AuthenticateTypes, CreateOrderTypes, SettleOrderTypes, MeTypes, ProductTypes,
     ProductsPageTypes, MyOrdersTypes, GetOrderTypes DEF Resolve
<1>3. ASSUME NEW r \in Requests, Serve(r) PROVE Typed'
  BY <1>2, <1>3, LoadTypes, FetchTypes, AnswerTypes DEF Serve
<1>4. CASE Next
  BY <1>3, <1>4, ReceiveTypes, ResolverFailsTypes, FetchTypes, ElsewhereTypes DEF Next
<1> QED
  BY <1>1, <1>4

LEMMA TypesHold == Spec => [](Inv /\ Typed)
<1>1. Init => Inv /\ Typed
  BY InitInv, InitTypes
<1>2. Inv /\ Typed /\ [Next]_vars => Inv' /\ Typed'
  BY NextInv, NextTypes
<1> QED
  BY <1>1, <1>2, PTL DEF Spec

(* Whatever the operations ask for, the values that the resolvers return and the rows that the
   loaders keep have the shape the schema gives them. *)
THEOREM TypesTheorem == Spec => []TypeOK
<1>1. Inv /\ Typed => TypeOK
  <2> SUFFICES ASSUME Inv, Typed PROVE TypeOK
    OBVIOUS
  <2>1. ASSUME NEW r \in Requests
        PROVE  /\ pc[r] \in {"idle", "running", "refused", "done"}
               /\ pc[r] # "idle" => doc[r] \in Documents[r] /\ caller[r] \in Callers[r]
               /\ during[r] \subseteq RowObject
               /\ ThunkTyped(r)
    BY DEF Inv, Shape, Typed, RequestTyped
  <2>2. ASSUME NEW r \in Requests, pc[r] # "idle", NEW i \in Roots(r), NEW object \in root[r][i].value
        PROVE  object \in ObjectOf(FieldType(r, i))
    <3>1. i \in 1..MaxRoots
      BY <2>2, RootsBounded DEF Inv
    <3>2. root[r][i].done
      BY <2>2, <3>1 DEF Inv, RootInv, NotRun, Null
    <3> QED
      BY <2>2, <3>1, <3>2 DEF Typed, RootTyped, Fits, Null
  <2>3. stock \in [Products -> Nat]
    BY DEF Typed, BookTypes
  <2>4. ASSUME NEW r \in Requests, pc[r] # "idle", NEW i \in Roots(r), NEW object \in root[r][i].value
        PROVE  CASE FieldType(r, i) = "Order" -> object \in OrderObject
                 [] FieldType(r, i) = "OrderPage" -> object.items \subseteq OrderObject
                 [] FieldType(r, i) = "ProductPage" -> object.items \subseteq RowObject
                 [] FieldType(r, i) = "Product" -> object \in RowObject
                 [] FieldType(r, i) = "User" -> object \in [id : Users]
                 [] FieldType(r, i) = "AuthPayload" -> object \in [user : [id : Users]]
    <3>1. FieldType(r, i) \in {"Order", "OrderPage", "ProductPage", "Product", "User", "AuthPayload"}
      BY <2>4, FieldKnown DEF Inv
    <3> QED
      BY <2>2, <2>4, <3>1 DEF ObjectOf, OrderPageObject
  <2> QED
    BY <2>1, <2>3, <2>4 DEF TypeOK, ThunkTyped
<1> QED
  BY <1>1, TypesHold, PTL

-----------------------------------------------------------------------------
(* The keys that a root field asks the loaders for *)

(* The orders whose nested fields a root field selects. *)
OrdersBelow(r, i) ==
    Objects(r, i, "Order")
    \cup (IF Selects(r, "OrderPage", "items")
          THEN UNION {page.items : page \in Objects(r, i, "OrderPage")} ELSE {})

(* What the items of an order ask for, and what it asks for when they are complete. *)
ItemsKeys(r, order) ==
    IF Selects(r, "Order", "items") THEN UNION {ItemKeys(r, item) : item \in order.items} ELSE {}

OwnerKeys(r, order) == IF Selects(r, "Order", "user") THEN {<<"user", order.user>>} ELSE {}

LEMMA OrderKeysAre ==
    ASSUME NEW r, NEW order
    PROVE  OrderKeys(r, order) = IF Ready(r, ItemsKeys(r, order))
                                 THEN ItemsKeys(r, order) \cup OwnerKeys(r, order)
                                 ELSE ItemsKeys(r, order)
BY DEF OrderKeys, ItemsKeys, OwnerKeys

LEMMA RootKeysAre ==
    ASSUME NEW r, NEW i
    PROVE  RootKeys(r, i) = UNION {OrderKeys(r, order) : order \in OrdersBelow(r, i)}
<1>1. ASSUME NEW key, key \in RootKeys(r, i)
      PROVE  \E order \in OrdersBelow(r, i) : key \in OrderKeys(r, order)
  BY <1>1 DEF RootKeys, PageKeys, OrdersBelow
<1>2. ASSUME NEW order \in OrdersBelow(r, i), NEW key \in OrderKeys(r, order)
      PROVE  key \in RootKeys(r, i)
  <2>1. CASE order \in Objects(r, i, "Order")
    BY <1>2, <2>1 DEF RootKeys
  <2>2. CASE order \notin Objects(r, i, "Order")
    <3>1. PICK page \in Objects(r, i, "OrderPage") :
              Selects(r, "OrderPage", "items") /\ order \in page.items
      BY <1>2, <2>2 DEF OrdersBelow
    <3>2. key \in PageKeys(r, page)
      BY <1>2, <3>1 DEF PageKeys
    <3> QED
      BY <3>1, <3>2 DEF RootKeys
  <2> QED
    BY <2>1, <2>2
<1> QED
  BY <1>1, <1>2

KeysOfOrders ==
    \A r, i : RootKeys(r, i) = UNION {OrderKeys(r, order) : order \in OrdersBelow(r, i)}

LEMMA KeysAreOfOrders == KeysOfOrders
BY RootKeysAre DEF KeysOfOrders

LEMMA OrdersBelowTypes ==
    ASSUME Inv, Typed, NEW r \in Requests, pc[r] # "idle", NEW i \in Roots(r)
    PROVE  OrdersBelow(r, i) \subseteq OrderObject
<1>1. i \in 1..MaxRoots
  BY RootsBounded DEF Inv
<1>2. ASSUME NEW object \in root[r][i].value PROVE object \in ObjectOf(FieldType(r, i))
  <2>1. root[r][i].done
    BY <1>1, <1>2 DEF Inv, RootInv, NotRun, Null
  <2> QED
    BY <1>1, <1>2, <2>1 DEF Typed, RootTyped, Fits, Null
<1>3. \A order \in Objects(r, i, "Order") : order \in OrderObject
  BY <1>2 DEF Objects, ObjectOf
<1>4. ASSUME NEW page \in Objects(r, i, "OrderPage") PROVE page.items \subseteq OrderObject
  <2>1. FieldType(r, i) = "OrderPage" /\ page \in root[r][i].value
    BY <1>4 DEF Objects
  <2>2. page \in OrderPageObject
    BY <1>2, <2>1 DEF ObjectOf
  <2> QED
    BY <2>2 DEF OrderPageObject
<1> QED
  BY <1>3, <1>4 DEF OrdersBelow

LEMMA OrderKeyTypes ==
    ASSUME NEW r, NEW order \in OrderObject
    PROVE  /\ ItemsKeys(r, order) \subseteq Keys /\ OwnerKeys(r, order) \subseteq Keys
           /\ OrderKeys(r, order) \subseteq Keys
<1>1. order.user \in Users /\ \A item \in order.items : item.product \in ProductRefs
  BY DEF OrderObject
<1>2. ItemsKeys(r, order) \subseteq Keys
  BY <1>1 DEF ItemsKeys, ItemKeys, Keys
<1>3. OwnerKeys(r, order) \subseteq Keys
  BY <1>1 DEF OwnerKeys, Keys
<1> QED
  BY <1>2, <1>3, OrderKeysAre

LEMMA RootKeyTypes ==
    ASSUME Inv, Typed, NEW r \in Requests, pc[r] # "idle", NEW i \in Roots(r)
    PROVE  RootKeys(r, i) \subseteq Keys
BY OrdersBelowTypes, OrderKeyTypes, RootKeysAre

(* No value, no keys. *)
LEMMA NoKeys ==
    ASSUME NEW r, NEW i, root[r][i].value = Null
    PROVE  RootKeys(r, i) = {}
BY RootKeysAre DEF OrdersBelow, Objects, Null

(* A loader never forgets: the keys that an order has asked for it has asked for ever after, and
   when they are all there it asks for no other. *)
Remembered(r) ==
    \A key \in Keys : thunks[r][key].state = "ready" => thunks'[r][key].state = "ready"

LEMMA OrderKeysGrow ==
    ASSUME NEW r \in Requests, NEW order \in OrderObject, doc'[r] = doc[r], Remembered(r)
    PROVE  /\ OrderKeys(r, order) \subseteq OrderKeys(r, order)'
           /\ Ready(r, OrderKeys(r, order)) => OrderKeys(r, order)' = OrderKeys(r, order)
<1> DEFINE items == ItemsKeys(r, order)
           owner == OwnerKeys(r, order)
<1>1. ItemsKeys(r, order)' = items /\ OwnerKeys(r, order)' = owner
  BY DEF ItemsKeys, OwnerKeys, ItemKeys, Selects
<1>2. OrderKeys(r, order) = IF Ready(r, items) THEN items \cup owner ELSE items
  BY OrderKeysAre
<1>3. OrderKeys(r, order)' = IF Ready(r, ItemsKeys(r, order))'
                             THEN (items \cup owner) ELSE items
  BY <1>1 DEF OrderKeys, ItemsKeys, OwnerKeys
<1>4. Ready(r, items) => Ready(r, ItemsKeys(r, order))'
  BY <1>1, OrderKeyTypes DEF Ready, Remembered
<1>5. Ready(r, OrderKeys(r, order)) => Ready(r, items)
  BY <1>2 DEF Ready
<1> HIDE DEF items, owner
<1> QED
  BY <1>2, <1>3, <1>4, <1>5

LEMMA RootKeysGrow ==
    ASSUME Inv, Typed, NEW r \in Requests, pc[r] # "idle", NEW i \in Roots(r),
           doc'[r] = doc[r], root'[r][i] = root[r][i], Remembered(r)
    PROVE  /\ RootKeys(r, i) \subseteq RootKeys(r, i)'
           /\ Complete(r, i) => RootKeys(r, i)' = RootKeys(r, i) /\ Complete(r, i)'
<1>1. OrdersBelow(r, i)' = OrdersBelow(r, i)
  BY DEF OrdersBelow, Objects, FieldType, Selects
<1>2. RootKeys(r, i)' = UNION {OrderKeys(r, order)' : order \in OrdersBelow(r, i)}
  <2>1. KeysOfOrders'
    BY KeysAreOfOrders, PTL
  <2> QED
    BY <1>1, <2>1 DEF KeysOfOrders
<1>3. \A order \in OrdersBelow(r, i) :
          /\ OrderKeys(r, order) \subseteq OrderKeys(r, order)'
          /\ Ready(r, OrderKeys(r, order)) => OrderKeys(r, order)' = OrderKeys(r, order)
  BY OrdersBelowTypes, OrderKeysGrow
<1>4. RootKeys(r, i) \subseteq RootKeys(r, i)'
  BY <1>2, <1>3, RootKeysAre
<1>5. ASSUME Complete(r, i) PROVE RootKeys(r, i)' = RootKeys(r, i) /\ Complete(r, i)'
  <2>1. \A order \in OrdersBelow(r, i) : Ready(r, OrderKeys(r, order))
    BY <1>5, RootKeysAre DEF Complete, Ready
  <2>2. RootKeys(r, i)' = RootKeys(r, i)
    BY <1>2, <1>3, <2>1, RootKeysAre
  <2> QED
    BY <1>5, <2>2, RootKeyTypes DEF Complete, Ready, Remembered
<1> QED
  BY <1>4, <1>5

-----------------------------------------------------------------------------
(* The fields of a mutation take their turns *)

(* A key was read for root field m of request r: no earlier one asks for it, and the query saw
   the orders of the fields up to m and of none after it. *)
ReadFor(r, key, m) ==
    /\ key \in RootKeys(r, m)
    /\ \A j \in 1..(m - 1) : key \notin RootKeys(r, j)
    /\ \A i \in Roots(r) :
          IF i <= m
          THEN doc[r].roots[i].field = "createOrder" /\ root[r][i].code = "OK" =>
                   NewId(r, i) \in thunks[r][key].saw
          ELSE NewId(r, i) \notin thunks[r][key].saw

TurnsTaken(r) == \A i \in Roots(r) : root[r][i].done => \A j \in 1..(i - 1) : Complete(r, j)

KeysQueued(r) ==
    \A key \in Keys : thunks[r][key].state = "queued" => \E m \in Roots(r) : key \in RootKeys(r, m)

KeysRead(r) ==
    \A key \in Keys : thunks[r][key].state = "ready" => \E m \in Roots(r) : ReadFor(r, key, m)

Serial(r) ==
    /\ pc[r] \in {"running", "done"} /\ doc[r].kind = "mutation" =>
          TurnsTaken(r) /\ KeysQueued(r) /\ KeysRead(r)
    /\ pc[r] = "done" => AllComplete(r)

InOrder == \A r \in Requests : Serial(r)

LEMMA EarlierRoots ==
    ASSUME NEW r \in Requests, Carried(r), pc[r] # "idle", NEW i \in Roots(r)
    PROVE  i \in Nat /\ \A j \in 1..(i - 1) : j \in Roots(r) /\ j \in Nat /\ j < i
<1>1. doc[r] \in UNION {Documents[q] : q \in Requests}
  BY DEF Carried
<1>2. Roots(r) = 1..Len(doc[r].roots) /\ Len(doc[r].roots) \in 1..MaxRoots
  BY <1>1, DocumentAssumption DEF Roots
<1> QED
  BY <1>2, GraphQLAssumption

LEMMA SameKeys ==
    ASSUME NEW r \in Requests, NEW i, doc'[r] = doc[r], root'[r][i] = root[r][i],
           thunks'[r] = thunks[r]
    PROVE  RootKeys(r, i)' = RootKeys(r, i) /\ (Complete(r, i)' <=> Complete(r, i))
<1>1. RootKeys(r, i)' = RootKeys(r, i)
  BY DEF RootKeys, PageKeys, OrderKeys, ItemKeys, Ready, Objects, FieldType, Selects
<1> QED
  BY <1>1 DEF Complete, Ready

(* A step that leaves the request alone, or only answers it. *)
LEMMA SameSerial ==
    ASSUME NEW r \in Requests, Serial(r),
           pc'[r] \in {"running", "done"} =>
               /\ pc[r] \in {"running", "done"} /\ doc'[r] = doc[r]
               /\ root'[r] = root[r] /\ thunks'[r] = thunks[r],
           pc'[r] = "done" => pc[r] = "done" \/ AllComplete(r)
    PROVE  Serial(r)'
<1> SUFFICES ASSUME pc'[r] \in {"running", "done"} PROVE Serial(r)'
  BY DEF Serial
<1>1. pc[r] \in {"running", "done"} /\ doc'[r] = doc[r] /\ root'[r] = root[r]
      /\ thunks'[r] = thunks[r] /\ Roots(r)' = Roots(r)
  BY DEF Roots
<1>2. \A i : RootKeys(r, i)' = RootKeys(r, i) /\ (Complete(r, i)' <=> Complete(r, i))
  BY <1>1, SameKeys
<1>3. pc'[r] = "done" => AllComplete(r)'
  BY <1>1, <1>2 DEF Serial, AllComplete
<1>4. ASSUME doc[r].kind = "mutation" PROVE TurnsTaken(r)' /\ KeysQueued(r)' /\ KeysRead(r)'
  <2>1. TurnsTaken(r) /\ KeysQueued(r) /\ KeysRead(r)
    BY <1>1, <1>4 DEF Serial
  <2>2. TurnsTaken(r)'
    BY <1>1, <1>2, <2>1 DEF TurnsTaken
  <2>3. KeysQueued(r)'
    BY <1>1, <1>2, <2>1 DEF KeysQueued, Keys
  <2>4. \A key, m : ReadFor(r, key, m) => ReadFor(r, key, m)'
    BY <1>1, <1>2 DEF ReadFor, NewId
  <2>5. KeysRead(r)'
    BY <1>1, <2>1, <2>4 DEF KeysRead, Keys
  <2> QED
    BY <2>2, <2>3, <2>5
<1> QED
  BY <1>1, <1>3, <1>4 DEF Serial

(* A root field returns at its turn: the fields before it are complete, those after it have not
   run, so whatever the loaders know was read for an earlier field. *)
LEMMA ReturnSerial ==
    ASSUME Inv, Typed, InOrder, NEW r \in Requests, NEW i \in 1..MaxRoots, NEW fields,
           Starts(r, i, fields), NEW code, NEW value, Returns(r, i, code, value),
           UNCHANGED <<request, thunks>>
    PROVE  InOrder'
<1>1. pc' = pc /\ doc' = doc /\ caller' = caller /\ thunks' = thunks
  BY DEF request
<1>2. \A q \in Requests, j \in 1..MaxRoots : q # r \/ j # i => root'[q][j] = root[q][j]
  BY Returned DEF Inv
<1>3. /\ pc[r] = "running" /\ i \in Roots(r) /\ ~root[r][i].done /\ Roots(r)' = Roots(r)
      /\ Carried(r) /\ Roots(r) \subseteq 1..MaxRoots /\ i \in Nat
  BY <1>1, RootsBounded, GraphQLAssumption DEF Starts, Roots, Inv
<1>4. ASSUME NEW q \in Requests, q # r PROVE Serial(q)'
  <2>1. root'[q] = root[q]
    BY <1>4 DEF Returns, Inv, Shape
  <2>2. Serial(q)
    BY DEF InOrder
  <2> QED
    BY <1>1, <2>1, <2>2, SameSerial
<1>5. ASSUME doc[r].kind = "mutation" PROVE TurnsTaken(r)' /\ KeysQueued(r)' /\ KeysRead(r)'
  <2>1. TurnsTaken(r) /\ KeysQueued(r) /\ KeysRead(r)
    BY <1>3, <1>5 DEF InOrder, Serial
  <2>2. \A j \in Roots(r) \ {i} :
            RootKeys(r, j)' = RootKeys(r, j) /\ (Complete(r, j)' <=> Complete(r, j))
    BY <1>1, <1>2, <1>3, SameKeys
  <2>3. RootKeys(r, i) = {}
    BY <1>3, NoKeys DEF Inv, RootInv, NotRun
  <2>4. ASSUME NEW m \in Roots(r), RootKeys(r, m) # {} PROVE m < i
    <3>1. root[r][m].done
      BY <1>3, <2>4, NoKeys DEF Inv, RootInv, NotRun
    <3>2. ~ (i \in 1..(m - 1))
      BY <1>3, <2>1, <3>1 DEF TurnsTaken, Complete
    <3>3. m # i /\ m \in 1..MaxRoots
      BY <1>3, <2>3, <2>4
    <3> QED
      BY <3>2, <3>3, GraphQLAssumption
  <2>5. TurnsTaken(r)'
    <3>1. SUFFICES ASSUME NEW m \in Roots(r), root'[r][m].done, NEW j \in 1..(m - 1)
                   PROVE  Complete(r, j)'
      BY <1>3 DEF TurnsTaken
    <3>2. j \in Roots(r) /\ j < m
      BY <1>3, EarlierRoots
    <3>3. CASE m = i
      BY <1>5, <2>2, <3>2, <3>3, EarlierRoots DEF Starts, Turn
    <3>4. CASE m # i
      <4>1. Complete(r, j)
        BY <1>2, <1>3, <2>1, <3>1, <3>4 DEF TurnsTaken
      <4>2. j # i
        BY <1>3, <4>1 DEF Complete
      <4> QED
        BY <2>2, <3>2, <4>1, <4>2
    <3> QED
      BY <3>3, <3>4
  <2>6. KeysQueued(r)'
    BY <1>1, <1>3, <2>1, <2>2, <2>3 DEF KeysQueued, Keys
  <2>7. KeysRead(r)'
    <3>1. SUFFICES ASSUME NEW key \in Keys, NEW m \in Roots(r), ReadFor(r, key, m)
                   PROVE  ReadFor(r, key, m)'
      BY <1>1, <1>3, <2>1 DEF KeysRead, Keys
    <3>2. m < i /\ m \in 1..MaxRoots /\ m \in Nat
      BY <1>3, <2>4, <3>1, GraphQLAssumption DEF ReadFor
    <3>3. \A j \in 1..(m - 1) : j \in Roots(r) /\ j # i
      BY <1>3, <3>2, EarlierRoots
    <3>4. key \in RootKeys(r, m)' /\ \A j \in 1..(m - 1) : key \notin RootKeys(r, j)'
      BY <2>2, <3>1, <3>2, <3>3 DEF ReadFor
    <3>5. \A j \in Roots(r) : j <= m => root'[r][j] = root[r][j]
      BY <1>2, <1>3, <3>2
    <3> QED
      BY <1>1, <1>3, <3>1, <3>4, <3>5 DEF ReadFor, NewId
  <2> QED
    BY <2>5, <2>6, <2>7
<1>6. Serial(r)'
  BY <1>1, <1>3, <1>5 DEF Serial
<1> QED
  BY <1>4, <1>6 DEF InOrder

PlacedIds == {o \in OrderIds : orders[o] # Book!NoOrder}

(* A loader is asked for a key of a root field, or answers a key that was asked for. *)
LoaderMoves(r) ==
    \A key \in Keys :
        \/ thunks'[r][key] = thunks[r][key]
        \/ /\ thunks[r][key].state = "none" /\ thunks'[r][key].state = "queued"
           /\ \E m \in Roots(r) : key \in RootKeys(r, m)
        \/ /\ thunks[r][key].state = "queued" /\ thunks'[r][key].state = "ready"
           /\ thunks'[r][key].saw = PlacedIds

(* A key of a field that has run is read before the next field starts: the fields before it are
   complete, the query sees their orders, and those after it have placed none. *)
LEMMA LoaderSerial ==
    ASSUME Inv, Typed, InOrder, NEW r \in Requests, pc[r] = "running",
           UNCHANGED <<db, request, root, during>>,
           \A q \in Requests \ {r} : thunks'[q] = thunks[q], LoaderMoves(r)
    PROVE  InOrder'
<1>1. pc' = pc /\ doc' = doc /\ caller' = caller /\ root' = root /\ Roots(r)' = Roots(r)
  BY DEF request, Roots
<1>2. ASSUME NEW q \in Requests, q # r PROVE Serial(q)'
  BY <1>1, <1>2, SameSerial DEF InOrder
<1>3. Remembered(r)
  BY DEF Remembered, LoaderMoves
<1>4. Carried(r) /\ Roots(r) \subseteq 1..MaxRoots
  BY RootsBounded DEF Inv
<1>5. \A m \in Roots(r) :
          /\ RootKeys(r, m) \subseteq Keys /\ RootKeys(r, m) \subseteq RootKeys(r, m)'
          /\ Complete(r, m) => RootKeys(r, m)' = RootKeys(r, m) /\ Complete(r, m)'
  BY <1>1, <1>3, RootKeysGrow, RootKeyTypes
<1>6. ASSUME doc[r].kind = "mutation" PROVE TurnsTaken(r)' /\ KeysQueued(r)' /\ KeysRead(r)'
  <2>1. TurnsTaken(r) /\ KeysQueued(r) /\ KeysRead(r)
    BY <1>6 DEF InOrder, Serial
  <2>2. TurnsTaken(r)'
    BY <1>1, <1>4, <1>5, <2>1, EarlierRoots DEF TurnsTaken
  <2>3. KeysQueued(r)'
    <3>1. SUFFICES ASSUME NEW key \in Keys, thunks'[r][key].state = "queued"
                   PROVE  \E m \in Roots(r) : key \in RootKeys(r, m)'
      BY <1>1 DEF KeysQueued, Keys
    <3>2. \E m \in Roots(r) : key \in RootKeys(r, m)
      BY <2>1, <3>1 DEF LoaderMoves, KeysQueued
    <3> QED
      BY <1>5, <3>2
  <2>4. ASSUME NEW m \in Roots(r), RootKeys(r, m) # {}
        PROVE  /\ m \in Nat /\ root[r][m].done
               /\ \A j \in 1..(m - 1) : Complete(r, j) /\ RootKeys(r, j)' = RootKeys(r, j)
    <3>1. root[r][m].done
      BY <1>4, <2>4, NoKeys DEF Inv, RootInv, NotRun
    <3> QED
      BY <1>4, <1>5, <2>1, <3>1, EarlierRoots DEF TurnsTaken
  <2>5. ASSUME NEW key \in Keys, NEW m \in Roots(r), ReadFor(r, key, m),
               thunks'[r][key] = thunks[r][key]
        PROVE  ReadFor(r, key, m)'
    <3>1. key \in RootKeys(r, m)' /\ \A j \in 1..(m - 1) : key \notin RootKeys(r, j)'
      BY <1>5, <2>4, <2>5 DEF ReadFor
    <3> QED
      BY <1>1, <2>5, <3>1 DEF ReadFor, NewId
  <2>6. ASSUME NEW key \in Keys, NEW m \in Roots(r), key \in RootKeys(r, m),
               thunks[r][key].state = "queued", thunks'[r][key].saw = PlacedIds
        PROVE  ReadFor(r, key, m)'
    <3>1. m \in Nat /\ root[r][m].done /\ \A j \in 1..(m - 1) :
              Complete(r, j) /\ RootKeys(r, j)' = RootKeys(r, j)
      BY <2>4, <2>6
    <3>2. key \in RootKeys(r, m)'
      BY <1>5, <2>6
    <3>3. \A j \in 1..(m - 1) : key \notin RootKeys(r, j)'
      BY <2>6, <3>1 DEF Complete, Ready
    <3>4. ASSUME NEW i \in Roots(r)
          PROVE  IF i <= m
                 THEN doc[r].roots[i].field = "createOrder" /\ root[r][i].code = "OK" =>
                          NewId(r, i) \in PlacedIds
                 ELSE NewId(r, i) \notin PlacedIds
      <4>1. i \in 1..MaxRoots /\ i \in Nat /\ NewId(r, i) \in OrderIds
        BY <1>4, NewIds, GraphQLAssumption
      <4>2. CASE root[r][i] = NotRun /\ orders[NewId(r, i)] = Book!NoOrder
        BY <4>2 DEF NotRun, PlacedIds
      <4>3. CASE root[r][i].done /\ Tells(r, i, root[r][i].code)
        <5>1. ~ (m \in 1..(i - 1))
          BY <2>1, <2>6, <4>3 DEF TurnsTaken, Complete, Ready
        <5>2. m \in 1..MaxRoots
          BY <1>4
        <5>3. i <= m
          BY <3>1, <4>1, <5>1, <5>2
        <5>4. doc[r].roots[i].field = "createOrder" /\ root[r][i].code = "OK" =>
                  orders[NewId(r, i)].status # "NONE"
          BY <4>3 DEF Tells
        <5> QED
          BY <4>1, <5>3, <5>4 DEF PlacedIds, Book!NoOrder
      <4> QED
        BY <4>1, <4>2, <4>3 DEF Inv, RootInv
    <3> QED
      BY <1>1, <2>6, <3>2, <3>3, <3>4 DEF ReadFor, NewId
  <2>7. KeysRead(r)'
    <3>1. SUFFICES ASSUME NEW key \in Keys, thunks'[r][key].state = "ready"
                   PROVE  \E m \in Roots(r) : ReadFor(r, key, m)'
      BY <1>1 DEF KeysRead, Keys
    <3>2. CASE thunks'[r][key] = thunks[r][key]
      BY <2>1, <2>5, <3>1, <3>2 DEF KeysRead
    <3>3. CASE thunks[r][key].state = "queued" /\ thunks'[r][key].saw = PlacedIds
      BY <2>1, <2>6, <3>3 DEF KeysQueued
    <3> QED
      BY <3>1, <3>2, <3>3 DEF LoaderMoves
  <2> QED
    BY <2>2, <2>3, <2>7
<1>7. Serial(r)'
  BY <1>1, <1>6 DEF Serial
<1> QED
  BY <1>2, <1>7 DEF InOrder

LEMMA ResolveSerial ==
    ASSUME Inv, Typed, InOrder, NEW r \in Requests, NEW i \in 1..MaxRoots,
           Resolve(r, i) \/ ResolverFails(r, i)
    PROVE  InOrder'
<1>1. CASE Authenticate(r, i)
  BY <1>1, ReturnSerial DEF Authenticate, Quiet
<1>2. CASE CreateOrder(r, i)
  <2>1. Starts(r, i, {"createOrder"}) /\ UNCHANGED <<request, thunks>>
    BY <1>2 DEF CreateOrder, Quiet
  <2>2. PICK code, value : Returns(r, i, code, value)
    BY <1>2 DEF CreateOrder
  <2> QED
    BY <2>1, <2>2, ReturnSerial
<1>3. CASE SettleOrder(r, i)
  <2>1. Starts(r, i, {"confirmOrder", "cancelOrder"}) /\ UNCHANGED <<request, thunks>>
    BY <1>3 DEF SettleOrder, Quiet
  <2>2. PICK code, value : Returns(r, i, code, value)
    BY <1>3 DEF SettleOrder
  <2> QED
    BY <2>1, <2>2, ReturnSerial
<1>4. CASE Me(r, i)
  BY <1>4, ReturnSerial DEF Me, Quiet
<1>5. CASE Product(r, i)
  BY <1>5, ReturnSerial DEF Product, Quiet
<1>6. CASE ProductsPage(r, i)
  BY <1>6, ReturnSerial DEF ProductsPage, Quiet
<1>7. CASE MyOrders(r, i)
  BY <1>7, ReturnSerial DEF MyOrders, Quiet
<1>8. CASE GetOrder(r, i)
  BY <1>8, ReturnSerial DEF GetOrder, Quiet
<1>9. CASE ResolverFails(r, i)
  BY <1>9, ReturnSerial DEF ResolverFails, Quiet
<1> QED
  BY <1>1, <1>2, <1>3, <1>4, <1>5, <1>6, <1>7, <1>8, <1>9 DEF Resolve

LEMMA LoadSerial ==
    ASSUME Inv, Typed, InOrder, NEW r \in Requests, NEW key \in Keys, Load(r, key)
    PROVE  InOrder'
<1>1. /\ pc[r] = "running" /\ UNCHANGED <<db, request, root, during>>
      /\ thunks' = [thunks EXCEPT ![r][key] = Asked]
  BY DEF Load
<1>2. /\ \A q \in Requests \ {r} : thunks'[q] = thunks[q]
      /\ thunks'[r][key] = Asked /\ Asked.state = "queued"
      /\ \A k \in Keys \ {key} : thunks'[r][k] = thunks[r][k]
  BY <1>1 DEF Inv, Shape, Asked, Unasked
<1>3. LoaderMoves(r)
  BY <1>2 DEF LoaderMoves, Load
<1> QED
  BY <1>1, <1>2, <1>3, LoaderSerial

LEMMA FetchSerial ==
    ASSUME Inv, Typed, InOrder, NEW r \in Requests, NEW kind \in {"user", "product"},
           FetchUsers(r) \/ FetchProducts(r) \/ FetchFails(r, kind)
    PROVE  InOrder'
<1>1. /\ \A u : UserFound(u).state = "ready" /\ UserFound(u).saw = PlacedIds
      /\ \A ref : ProductFound(ref).state = "ready" /\ ProductFound(ref).saw = PlacedIds
      /\ \A ref : NothingFound(ref).state = "ready" /\ NothingFound(ref).saw = PlacedIds
  BY DEF UserFound, ProductFound, NothingFound, Got, PlacedIds
<1>2. pc[r] = "running" /\ UNCHANGED <<db, request, root, during>>
  BY DEF FetchUsers, FetchProducts, FetchFails, Batch
<1>3. \A q \in Requests \ {r} : thunks'[q] = thunks[q]
  BY DEF FetchUsers, FetchProducts, FetchFails, Batch, Inv, Shape
<1>4. CASE FetchUsers(r)
  <2>1. thunks'[r] = [key \in Keys |-> IF key \in Queue(r, "user") THEN UserFound(key[2])
                                                                   ELSE thunks[r][key]]
    BY <1>4 DEF FetchUsers, Batch, Inv, Shape
  <2>2. LoaderMoves(r)
    BY <1>1, <2>1 DEF LoaderMoves, Queue
  <2> QED
    BY <1>2, <1>3, <2>2, LoaderSerial
<1>5. CASE FetchProducts(r)
  <2>1. thunks'[r] = [key \in Keys |-> IF key \in Queue(r, "product") THEN ProductFound(key[2])
                                                                      ELSE thunks[r][key]]
    BY <1>5 DEF FetchProducts, Batch, Inv, Shape
  <2>2. LoaderMoves(r)
    BY <1>1, <2>1 DEF LoaderMoves, Queue
  <2> QED
    BY <1>2, <1>3, <2>2, LoaderSerial
<1>6. CASE FetchFails(r, kind)
  <2>1. thunks'[r] = [key \in Keys |-> IF key \in Queue(r, kind) THEN NothingFound(key[2])
                                                                 ELSE thunks[r][key]]
    BY <1>6 DEF FetchFails, Batch, Inv, Shape
  <2>2. LoaderMoves(r)
    BY <1>1, <2>1 DEF LoaderMoves, Queue
  <2> QED
    BY <1>2, <1>3, <2>2, LoaderSerial
<1> QED
  BY <1>4, <1>5, <1>6

LEMMA ReceiveSerial ==
    ASSUME Inv, Typed, InOrder, NEW r \in Requests, Receive(r)
    PROVE  InOrder'
<1>1. PICK d \in Documents[r], c \in Callers[r] :
          /\ doc' = [doc EXCEPT ![r] = d]
          /\ caller' = [caller EXCEPT ![r] = c]
          /\ pc' = [pc EXCEPT ![r] = IF Complexity(d) > Limit THEN "refused" ELSE "running"]
  BY DEF Receive
<1>2. /\ pc[r] = "idle" /\ root' = root
      /\ thunks' = [thunks EXCEPT ![r] = NewLoaders(r)]
      /\ pc'[r] \in {"refused", "running"} /\ doc'[r] = d
  BY <1>1 DEF Receive, Inv, Shape
<1>3. /\ thunks'[r] = [k \in Keys |-> Unasked]
      /\ \A q \in Requests \ {r} : thunks'[q] = thunks[q] /\ pc'[q] = pc[q] /\ doc'[q] = doc[q]
  BY <1>1, <1>2 DEF Inv, Shape, NewLoaders
<1>4. ASSUME NEW q \in Requests, q # r PROVE Serial(q)'
  BY <1>2, <1>3, <1>4, SameSerial DEF InOrder
<1>5. \A i \in 1..MaxRoots : root[r][i] = NotRun /\ ~NotRun.done
  BY <1>2 DEF Inv, RootInv, NotRun
<1>6. Roots(r)' \subseteq 1..MaxRoots
  <2>1. d \in UNION {Documents[q] : q \in Requests}
    OBVIOUS
  <2>2. DOMAIN d.roots = 1..Len(d.roots) /\ Len(d.roots) \in 1..MaxRoots
    BY <2>1, DocumentAssumption
  <2> QED
    BY <1>2, <2>2, GraphQLAssumption DEF Roots
<1>7. TurnsTaken(r)'
  BY <1>2, <1>5, <1>6 DEF TurnsTaken
<1>8. KeysQueued(r)' /\ KeysRead(r)'
  BY <1>3 DEF KeysQueued, KeysRead, Unasked, Keys
<1>9. Serial(r)'
  BY <1>2, <1>7, <1>8 DEF Serial
<1> QED
  BY <1>4, <1>9 DEF InOrder

LEMMA AnswerSerial ==
    ASSUME Inv, Typed, InOrder, NEW r \in Requests, Answer(r)
    PROVE  InOrder'
<1>1. /\ pc[r] = "running" /\ AllComplete(r) /\ pc' = [pc EXCEPT ![r] = "done"]
      /\ doc' = doc /\ root' = root /\ thunks' = thunks
  BY DEF Answer
<1>2. pc'[r] = "done" /\ \A q \in Requests \ {r} : pc'[q] = pc[q]
  BY <1>1 DEF Inv, Shape
<1>3. ASSUME NEW q \in Requests PROVE Serial(q)'
  BY <1>1, <1>2, SameSerial DEF InOrder
<1> QED
  BY <1>3 DEF InOrder

LEMMA InitSerial == Init => InOrder
BY DEF Init, InOrder, Serial

LEMMA NextSerial == Inv /\ Typed /\ InOrder /\ [Next]_vars => InOrder'
<1> SUFFICES ASSUME Inv, Typed, InOrder, [Next]_vars PROVE InOrder'
  OBVIOUS
<1>1. CASE UNCHANGED vars \/ Elsewhere
  <2>1. UNCHANGED <<pc, doc, root, thunks>>
    BY <1>1 DEF vars, request, Elsewhere
  <2> QED
    BY <2>1, SameSerial DEF InOrder
<1>2. ASSUME NEW r \in Requests, Serve(r) PROVE InOrder'
  BY <1>2, ResolveSerial, LoadSerial, FetchSerial, AnswerSerial DEF Serve
<1>3. CASE Next
  BY <1>1, <1>2, <1>3, ReceiveSerial, ResolveSerial, FetchSerial DEF Next
<1> QED
  BY <1>1, <1>3

LEMMA SerialHolds == Spec => [](Inv /\ Typed /\ InOrder)
<1>1. Init => Inv /\ Typed /\ InOrder
  BY InitInv, InitTypes, InitSerial
<1>2. Inv /\ Typed /\ InOrder /\ [Next]_vars => Inv' /\ Typed' /\ InOrder'
  BY NextInv, NextTypes, NextSerial
<1> QED
  BY <1>1, <1>2, PTL DEF Spec

(* The fields of a mutation are serial to the last nested read, whatever its fields, its selection
   and the steps of the other requests: what a loader reads for a field shows the mutations up to
   that field and none after it (generated.go:3708-3787, loaders.go:58-81). *)
THEOREM NestedReadsTheorem == Spec => []NestedReadsAreSerial
<1>1. Inv /\ Typed /\ InOrder => NestedReadsAreSerial
  <2> SUFFICES ASSUME Inv, Typed, InOrder, NEW r \in Requests, pc[r] \in {"running", "done"},
                      doc[r].kind = "mutation", NEW i \in Roots(r), NEW j \in Roots(r),
                      NEW key \in RootKeys(r, j), thunks[r][key].state = "ready",
                      \A k \in 1..(j - 1) : key \notin RootKeys(r, k),
                      doc[r].roots[i].field = "createOrder", root[r][i].code = "OK"
               PROVE  NewId(r, i) \in thunks[r][key].saw <=> i <= j
    BY DEF NestedReadsAreSerial
  <2>1. key \in Keys
    BY RootKeyTypes
  <2>2. PICK m \in Roots(r) : ReadFor(r, key, m)
    BY <2>1 DEF InOrder, Serial, KeysRead
  <2>3. m \in 1..MaxRoots /\ j \in 1..MaxRoots /\ i \in 1..MaxRoots /\ MaxRoots \in Nat
    BY RootsBounded, GraphQLAssumption DEF Inv
  <2>4. ~ (m < j)
    <3>1. m < j => m \in 1..(j - 1)
      BY <2>3
    <3> QED
      BY <2>2, <3>1 DEF ReadFor
  <2>5. ~ (j < m)
    <3>1. j < m => j \in 1..(m - 1)
      BY <2>3
    <3> QED
      BY <2>2, <3>1 DEF ReadFor
  <2>6. m = j
    BY <2>3, <2>4, <2>5
  <2> QED
    BY <2>2, <2>6 DEF ReadFor
<1> QED
  BY <1>1, SerialHolds, PTL

-----------------------------------------------------------------------------
(* Nulls and errors *)

AnyFailed(r, keys) == \E key \in keys : Failed(r, key)

Blamed(r, i) == \E e \in Errors(r) : e.root = i

LEMMA BlamedAt ==
    ASSUME NEW r \in Requests, NEW i \in Roots(r)
    PROVE  Blamed(r, i) <=> root[r][i].code \notin {"OK", "NONE"} \/ AnyFailed(r, RootKeys(r, i))
<1>1. ASSUME NEW e \in Errors(r), e.root = i
      PROVE  root[r][i].code \notin {"OK", "NONE"} \/ AnyFailed(r, RootKeys(r, i))
  <2>1. CASE \E j \in Roots(r) : /\ root[r][j].code \notin {"OK", "NONE"}
                                 /\ e = [root |-> j, below |-> FALSE, code |-> root[r][j].code]
    BY <1>1, <2>1
  <2>2. CASE \E j \in Roots(r) : \E key \in RootKeys(r, j) :
                 /\ Failed(r, key)
                 /\ e = [root |-> j, below |-> TRUE, code |-> thunks[r][key].code]
    BY <1>1, <2>2 DEF AnyFailed
  <2> QED
    BY <2>1, <2>2 DEF Errors
<1>2. ASSUME root[r][i].code \notin {"OK", "NONE"} PROVE Blamed(r, i)
  <2> DEFINE e == [root |-> i, below |-> FALSE, code |-> root[r][i].code]
  <2>1. e \in Errors(r) /\ e.root = i
    BY <1>2 DEF Errors
  <2> QED
    BY <2>1 DEF Blamed
<1>3. ASSUME NEW key \in RootKeys(r, i), Failed(r, key) PROVE Blamed(r, i)
  <2> DEFINE e == [root |-> i, below |-> TRUE, code |-> thunks[r][key].code]
             below == {[root |-> i, below |-> TRUE, code |-> thunks[r][k].code] :
                           k \in {x \in RootKeys(r, i) : Failed(r, x)}}
  <2>1. e \in below /\ e.root = i
    BY <1>3
  <2>2. below \subseteq Errors(r)
    BY DEF Errors
  <2> HIDE DEF e, below
  <2> QED
    BY <2>1, <2>2 DEF Blamed
<1> QED
  BY <1>1, <1>2, <1>3 DEF Blamed, AnyFailed

LEMMA ItemNull ==
    ASSUME NEW r, NEW item
    PROVE  OrderItemValue(r, item) = Null <=> AnyFailed(r, ItemKeys(r, item))
BY DEF OrderItemValue, ItemKeys, AnyFailed, Null

LEMMA ListNull ==
    ASSUME NEW values
    PROVE  ListValue(values) = Null <=> Null \in values
BY DEF ListValue, Null

(* An order is null exactly when something that it asked for has failed. *)
LEMMA OrderNull ==
    ASSUME NEW r, NEW order, Ready(r, OrderKeys(r, order))
    PROVE  OrderValue(r, order) = Null <=> AnyFailed(r, OrderKeys(r, order))
<1> DEFINE key == <<"user", order.user>>
           items == IF Selects(r, "Order", "items")
                    THEN ListValue({OrderItemValue(r, item) : item \in order.items}) ELSE {{}}
           owner == IF Selects(r, "Order", "user")
                    THEN IF Failed(r, key) THEN Null ELSE {UserValue(r, thunks[r][key].row)}
                    ELSE {{}}
<1>1. OrderKeys(r, order) = ItemsKeys(r, order) \cup OwnerKeys(r, order)
  BY OrderKeysAre DEF Ready
<1>2. items = Null <=> AnyFailed(r, ItemsKeys(r, order))
  <2>1. Null \in {OrderItemValue(r, item) : item \in order.items}
            <=> \E item \in order.items : AnyFailed(r, ItemKeys(r, item))
    BY ItemNull
  <2>2. (\E item \in order.items : AnyFailed(r, ItemKeys(r, item)))
            <=> AnyFailed(r, UNION {ItemKeys(r, item) : item \in order.items})
    BY DEF AnyFailed
  <2>3. {{}} # Null /\ ~AnyFailed(r, {})
    BY DEF Null, AnyFailed
  <2> QED
    BY <2>1, <2>2, <2>3, ListNull DEF ItemsKeys
<1>3. owner = Null <=> AnyFailed(r, OwnerKeys(r, order))
  BY DEF Null, AnyFailed, OwnerKeys
<1>4. OrderValue(r, order) = Null <=> items = Null \/ owner = Null
  BY DEF OrderValue, Null
<1> HIDE DEF items, owner
<1> QED
  BY <1>1, <1>2, <1>3, <1>4 DEF AnyFailed

LEMMA PageNull ==
    ASSUME NEW r, NEW page, Ready(r, PageKeys(r, page))
    PROVE  /\ OrderPageValue(r, page) = Null <=> AnyFailed(r, PageKeys(r, page))
           /\ page \in OrderPageObject /\ Selects(r, "OrderPage", "items") =>
                 \A shown \in OrderPageValue(r, page) : \A list \in shown.items : Null \notin list
<1> DEFINE values == {OrderValue(r, order) : order \in page.items}
           items == IF Selects(r, "OrderPage", "items") THEN ListValue(values) ELSE {{}}
           object == [page EXCEPT !.items = items]
<1>1. OrderPageValue(r, page) = IF items = Null THEN Null ELSE {Shown(r, "OrderPage", object)}
  BY DEF OrderPageValue
<1>2. CASE Selects(r, "OrderPage", "items")
  <2>1. PageKeys(r, page) = UNION {OrderKeys(r, order) : order \in page.items}
    BY <1>2 DEF PageKeys
  <2>2. \A order \in page.items :
            OrderValue(r, order) = Null <=> AnyFailed(r, OrderKeys(r, order))
    BY <2>1, OrderNull DEF Ready
  <2>3. items = Null <=> Null \in values
    BY <1>2, ListNull
  <2>4. Null \in values <=> AnyFailed(r, PageKeys(r, page))
    BY <2>1, <2>2 DEF AnyFailed
  <2>5. OrderPageValue(r, page) = Null <=> AnyFailed(r, PageKeys(r, page))
    BY <1>1, <2>3, <2>4 DEF Null
  <2>6. ASSUME page \in OrderPageObject, NEW shown \in OrderPageValue(r, page),
               NEW list \in shown.items
        PROVE  Null \notin list
    <3>1. items # Null /\ shown = Shown(r, "OrderPage", object)
      BY <1>1, <2>6 DEF Null
    <3>2. DOMAIN object = {"items"} /\ object.items = items
      BY <2>6 DEF OrderPageObject
    <3>3. shown.items = items
      BY <1>2, <3>1, <3>2 DEF Shown, Selects
    <3>4. items = {values} /\ Null \notin values
      BY <1>2, <2>3, <3>1 DEF ListValue
    <3> QED
      BY <2>6, <3>3, <3>4
  <2> QED
    BY <2>5, <2>6
<1>3. CASE ~Selects(r, "OrderPage", "items")
  BY <1>1, <1>3 DEF PageKeys, AnyFailed, Null
<1> QED
  BY <1>2, <1>3

(* What a root field shows in an answer: null exactly when it, or something that it asked for, has
   failed, unless it is me. *)
LEMMA RootNull ==
    ASSUME Inv, Typed, InOrder, NEW r \in Requests, pc[r] = "done", NEW i \in Roots(r)
    PROVE  /\ Blamed(r, i) => RootValue(r, i) = Null
           /\ RootValue(r, i) = Null => Blamed(r, i) \/ doc[r].roots[i].field = "me"
           /\ FieldType(r, i) = "OrderPage" /\ Selects(r, "OrderPage", "items") =>
                 \A page \in RootValue(r, i) : \A list \in page.items : Null \notin list
<1>1. i \in 1..MaxRoots /\ Carried(r)
  BY RootsBounded DEF Inv
<1>2. Complete(r, i)
  BY DEF InOrder, Serial, AllComplete
<1> DEFINE code == root[r][i].code
           value == root[r][i].value
           type == FieldType(r, i)
           keys == RootKeys(r, i)
<1>3. root[r][i].done /\ code # "NONE" /\ Fits(r, i, code, value)
  BY <1>1, <1>2 DEF Complete, Inv, RootInv, NotRun, Typed, RootTyped
<1>4. Blamed(r, i) <=> code # "OK" \/ AnyFailed(r, keys)
  BY <1>3, BlamedAt
<1>5. type \in {"Order", "OrderPage", "ProductPage", "Product", "User", "AuthPayload"}
  BY <1>1, FieldKnown
<1>6. CASE value = Null
  <2>1. code # "OK" \/ doc[r].roots[i].field = "me"
    BY <1>3, <1>6 DEF Fits
  <2>2. RootValue(r, i) = Null
    BY <1>5, <1>6 DEF RootValue, Null
  <2> QED
    BY <1>4, <2>1, <2>2 DEF Null
<1>7. CASE value # Null
  <2>1. PICK v \in ObjectOf(type) : value = {v}
    BY <1>3, <1>7 DEF Fits
  <2>2. code = "OK"
    BY <1>3, <1>7 DEF Fits
  <2>3. Ready(r, keys)
    BY <1>2 DEF Complete
  <2>4. CASE type = "Order"
    <3>1. OrdersBelow(r, i) = {v}
      BY <2>1, <2>4 DEF OrdersBelow, Objects
    <3>2. keys = OrderKeys(r, v)
      BY <3>1, RootKeysAre
    <3>3. RootValue(r, i) = OrderValue(r, v)
      BY <2>1, <2>4 DEF RootValue
    <3> QED
      BY <1>4, <2>2, <2>3, <2>4, <3>2, <3>3, OrderNull
  <2>5. CASE type = "OrderPage"
    <3>1. keys = PageKeys(r, v)
      BY <2>1, <2>5 DEF RootKeys, Objects
    <3>2. RootValue(r, i) = OrderPageValue(r, v)
      BY <2>1, <2>5 DEF RootValue
    <3>3. v \in OrderPageObject
      BY <2>1, <2>5 DEF ObjectOf
    <3> QED
      BY <1>4, <2>2, <2>3, <3>1, <3>2, <3>3, PageNull
  <2>6. CASE type \notin {"Order", "OrderPage"}
    <3>1. keys = {}
      BY <2>6 DEF RootKeys, Objects
    <3>2. RootValue(r, i) # Null
      BY <1>5, <2>1, <2>6 DEF RootValue, Null
    <3> QED
      BY <1>4, <2>2, <2>6, <3>1, <3>2 DEF AnyFailed
  <2> QED
    BY <2>4, <2>5, <2>6
<1> QED
  BY <1>6, <1>7

LEMMA MeMayBeNull == ~RootFields["me"].nonNull
<1>1. RootFields["me"] = Optional("User")
  BY Domains DEF RootFields, QueryFields, SessionFields
<1>2. Optional("User").nonNull = FALSE
  BY DEF Optional, Leaf
<1> QED
  BY <1>1, <1>2

(* No null where the schema forbids it and none without a reason, for every operation and every
   failure of its resolvers and loaders (generated.go:3773-3775, 3869-3871). *)
THEOREM NullsTheorem == Spec => []NullsAreExplained
<1>1. Inv /\ Typed /\ InOrder => NullsAreExplained
  <2> SUFFICES ASSUME Inv, Typed, InOrder, NEW r \in Requests, pc[r] = "done"
               PROVE  /\ Data(r) = Null <=>
                            \E i \in Roots(r) :
                                RootFields[doc[r].roots[i].field].nonNull /\ Blamed(r, i)
                      /\ \A shown \in Data(r), i \in Roots(r) :
                            /\ shown[i] = Null => Blamed(r, i) \/ doc[r].roots[i].field = "me"
                            /\ RootFields[doc[r].roots[i].field].nonNull => shown[i] # Null
                            /\ FieldType(r, i) = "OrderPage" /\ Selects(r, "OrderPage", "items") =>
                                  \A page \in shown[i] : \A list \in page.items : Null \notin list
    BY DEF NullsAreExplained, Blamed
  <2> DEFINE nonNull(i) == RootFields[doc[r].roots[i].field].nonNull
             whole == [i \in Roots(r) |-> RootValue(r, i)]
  <2>1. \A i \in Roots(r) : nonNull(i) => (Blamed(r, i) <=> RootValue(r, i) = Null)
    BY RootNull, MeMayBeNull
  <2>2. Data(r) = IF \E i \in Roots(r) : nonNull(i) /\ RootValue(r, i) = Null
                  THEN Null ELSE {whole}
    BY DEF Data
  <2>3. Data(r) = Null <=> \E i \in Roots(r) : nonNull(i) /\ Blamed(r, i)
    BY <2>1, <2>2 DEF Null
  <2>4. ASSUME NEW shown \in Data(r), NEW i \in Roots(r)
        PROVE  shown[i] = RootValue(r, i) /\ (nonNull(i) => shown[i] # Null)
    BY <2>2, <2>4 DEF Null
  <2> HIDE DEF nonNull, whole
  <2>5. ASSUME NEW shown \in Data(r), NEW i \in Roots(r)
        PROVE  /\ shown[i] = Null => Blamed(r, i) \/ doc[r].roots[i].field = "me"
               /\ nonNull(i) => shown[i] # Null
               /\ FieldType(r, i) = "OrderPage" /\ Selects(r, "OrderPage", "items") =>
                     \A page \in shown[i] : \A list \in page.items : Null \notin list
    BY <2>4, RootNull
  <2> QED
    BY <2>3, <2>5 DEF nonNull
<1> QED
  BY <1>1, SerialHolds, PTL

-----------------------------------------------------------------------------
(* What a loader does not find *)

(* FindByIDs leaves out the ids that are no product's id as the server writes it. *)
MissingOnly ==
    \A r \in Requests, ref \in ProductRefs :
        thunks[r][<<"product", ref>>].code = "PRODUCT_NOT_FOUND" => ref \notin Products

LEMMA ThunkStep ==
    ASSUME Inv, [Next]_vars, NEW r \in Requests, NEW ref \in ProductRefs
    PROVE  LET key == <<"product", ref>> IN
           \/ thunks'[r][key].code = thunks[r][key].code
           \/ thunks'[r][key].code = "PRODUCT_NOT_FOUND" => ref \notin Products
<1> DEFINE key == <<"product", ref>>
<1>1. key \in Keys /\ key[2] = ref
  BY DEF Keys
<1>2. ASSUME NEW q \in Requests, Receive(q)
      PROVE  thunks'[r][key] = thunks[r][key] \/ thunks'[r][key] = Unasked
  BY <1>1, <1>2 DEF Receive, NewLoaders, Inv, Shape
<1>3. ASSUME NEW q \in Requests, NEW k \in Keys, Load(q, k)
      PROVE  thunks'[r][key] = thunks[r][key] \/ thunks'[r][key] = Asked
  BY <1>1, <1>3 DEF Load, Inv, Shape
<1>4. ASSUME NEW q \in Requests, FetchUsers(q)
      PROVE  thunks'[r][key] = thunks[r][key]
  <2>1. key \notin Queue(q, "user")
    BY DEF Queue
  <2> QED
    BY <1>1, <1>4, <2>1 DEF FetchUsers, Batch, Inv, Shape
<1>5. ASSUME NEW q \in Requests, FetchProducts(q)
      PROVE  thunks'[r][key] = thunks[r][key] \/ thunks'[r][key] = ProductFound(ref)
  BY <1>1, <1>5 DEF FetchProducts, Batch, Inv, Shape
<1>6. ASSUME NEW q \in Requests, NEW kind, FetchFails(q, kind)
      PROVE  thunks'[r][key] = thunks[r][key] \/ thunks'[r][key] = NothingFound(ref)
  BY <1>1, <1>6 DEF FetchFails, Batch, Inv, Shape
<1>7. ASSUME NEW q \in Requests, NEW i \in 1..MaxRoots, Resolve(q, i) \/ ResolverFails(q, i)
      PROVE  thunks' = thunks
  BY <1>7 DEF Resolve, ResolverFails, Authenticate, CreateOrder, SettleOrder, Me, Product,
       ProductsPage, MyOrders, GetOrder, Quiet
<1>8. /\ Unasked.code # "PRODUCT_NOT_FOUND" /\ Asked.code # "PRODUCT_NOT_FOUND"
      /\ NothingFound(ref).code # "PRODUCT_NOT_FOUND"
      /\ ProductFound(ref).code = "PRODUCT_NOT_FOUND" => ref \notin Products
  BY DEF Unasked, Asked, NothingFound, ProductFound, Got
<1> HIDE DEF key
<1>9. CASE UNCHANGED vars
  BY <1>9 DEF vars
<1>10. CASE Elsewhere
  BY <1>10 DEF Elsewhere
<1>11. ASSUME NEW q \in Requests, Answer(q) PROVE thunks' = thunks
  BY <1>11 DEF Answer
<1>12. ASSUME Next, ~Elsewhere
       PROVE  \/ thunks'[r][key].code = thunks[r][key].code
              \/ thunks'[r][key].code = "PRODUCT_NOT_FOUND" => ref \notin Products
  BY <1>2, <1>3, <1>4, <1>5, <1>6, <1>7, <1>8, <1>11, <1>12 DEF Next, Serve
<1> QED
  BY <1>9, <1>10, <1>12 DEF key

(* A client has one name for each product if it only uses the ids as the server writes them. *)
OneName == \A ref \in ProductRefs : ProductOf[ref] # None => ref \in Products

(* Where every product has one name, the loaders find every product that exists
   (domain/ports.go:39-40). *)
THEOREM ExistingProductTheorem ==
    ASSUME OneName
    PROVE  Spec => []ExistingProductIsFound
<1>1. Init => MissingOnly
  BY DEF Init, MissingOnly, Unasked, Keys
<1>2. Inv /\ MissingOnly /\ [Next]_vars => MissingOnly'
  BY ThunkStep DEF MissingOnly
<1>3. MissingOnly => ExistingProductIsFound
  BY DEF MissingOnly, ExistingProductIsFound, OneName
<1> QED
  BY <1>1, <1>2, <1>3, Invariance, PTL DEF Spec

-----------------------------------------------------------------------------
(* What was shown of an order *)

(* The orders in what a root field of this type returned. *)
OrdersIn(type, value) ==
    (IF type = "Order" THEN value ELSE {})
    \cup UNION {page.items : page \in IF type = "OrderPage" THEN value ELSE {}}

(* The items, with the products their ids name. *)
Lines(items) == {[item EXCEPT !.product = ProductOf[@]] : item \in items}

(* The book agrees with an order that root field i of request r shows. *)
BookSays(r, i, order) ==
    LET entry == orders[order.id] IN
    /\ order.id \in OrderIds /\ entry.status # "NONE"
    /\ entry.user = order.user
    /\ order.status # "PENDING" => entry.status = order.status
    /\ Lines(order.items) = IF AskedByServersId(r, i) THEN StoredItems(entry) ELSE {}

Truthful(r, i) ==
    root[r][i].done =>
        \A order \in OrdersIn(FieldType(r, i), root[r][i].value) : BookSays(r, i, order)

Truth == \A r \in Requests, i \in 1..MaxRoots : Truthful(r, i)

(* What the book says of an order it goes on saying: that is why the invariant names the owner, the
   final status and the items, and not the status of an order that is pending. *)
LEMMA SaysStill ==
    ASSUME NEW P, Moved(P), NEW r, NEW i, doc'[r] = doc[r], NEW order, BookSays(r, i, order)
    PROVE  BookSays(r, i, order)'
<1> DEFINE entry == orders[order.id]
<1>1. order.id \in OrderIds /\ entry.status # "NONE"
  BY DEF BookSays
<1>2. /\ entry'.user = entry.user /\ entry'.status # "NONE"
      /\ entry'.quantity = entry.quantity /\ entry'.unitPrice = entry.unitPrice
      /\ entry.status # "PENDING" => entry'.status = entry.status
  BY <1>1 DEF Moved
<1>3. StoredItems(entry') = StoredItems(entry)
  BY <1>2 DEF StoredItems
<1>4. AskedByServersId(r, i)' <=> AskedByServersId(r, i)
  BY DEF AskedByServersId, OrderIds
<1>5. /\ entry.user = order.user
      /\ order.status # "PENDING" => entry.status = order.status
      /\ Lines(order.items) = IF AskedByServersId(r, i) THEN StoredItems(entry) ELSE {}
  BY DEF BookSays
<1> HIDE DEF entry
<1>6. /\ order.id \in OrderIds /\ entry'.status # "NONE" /\ entry'.user = order.user
      /\ order.status # "PENDING" => entry'.status = order.status
      /\ Lines(order.items) = IF AskedByServersId(r, i)' THEN StoredItems(entry') ELSE {}
  BY <1>1, <1>2, <1>3, <1>4, <1>5
<1> QED
  BY <1>6 DEF BookSays, Lines, OrderIds, StoredItems, entry

(* The items of an order as they are stored carry the ids that the server writes. *)
LEMMA StoredLines ==
    ASSUME NEW entry
    PROVE  Lines(StoredItems(entry)) = StoredItems(entry)
<1>1. ASSUME NEW p \in Products, NEW quantity, NEW unitPrice
      PROVE  [Line(p, quantity, unitPrice) EXCEPT !.product = ProductOf[@]]
                 = Line(p, quantity, unitPrice)
  BY GraphQLAssumption DEF Line
<1>2. \A item \in StoredItems(entry) : [item EXCEPT !.product = ProductOf[@]] = item
  BY <1>1 DEF StoredItems
<1> QED
  BY <1>2 DEF Lines

(* An order that was read, by whatever id, and perhaps settled since. *)
LEMMA SaysRead ==
    ASSUME NEW P, Moved(P), NEW r, NEW i, doc'[r] = doc[r],
           doc[r].roots[i].field \in {"confirmOrder", "cancelOrder", "order"},
           NEW ref \in OrderRefs, ref = doc[r].roots[i].arg, orders[OrderOf[ref]].status # "NONE",
           NEW order, order = OrderModel(OrderOf[ref], orders'[OrderOf[ref]], ItemsRead(ref))
    PROVE  BookSays(r, i, order)'
<1> DEFINE o == OrderOf[ref]
<1>1. o \in OrderIds /\ (ref \in OrderIds => o = ref)
  BY SpellingAssumption
<1>2. /\ orders'[o].status # "NONE"
      /\ orders'[o].quantity = orders[o].quantity /\ orders'[o].unitPrice = orders[o].unitPrice
  BY <1>1 DEF Moved
<1>3. /\ order.id = o /\ order.user = orders'[o].user /\ order.status = orders'[o].status
      /\ order.items = ItemsRead(ref)
  BY DEF OrderModel
<1>4. StoredItems(orders'[o]) = StoredItems(orders[o])
  BY <1>2 DEF StoredItems
<1>5. AskedByServersId(r, i)' <=> ref \in OrderIds
  BY DEF AskedByServersId, OrderIds
<1>6. Lines(ItemsRead(ref)) = IF ref \in OrderIds THEN StoredItems(orders'[o]) ELSE {}
  <2>1. CASE ref \in OrderIds
    BY <1>1, <1>4, <2>1, StoredLines DEF ItemsRead
  <2>2. CASE ref \notin OrderIds
    BY <2>2 DEF ItemsRead, Lines
  <2> QED
    BY <2>1, <2>2
<1> HIDE DEF o
<1>7. /\ order.id \in OrderIds /\ orders'[order.id].status # "NONE"
      /\ orders'[order.id].user = order.user
      /\ order.status # "PENDING" => orders'[order.id].status = order.status
      /\ Lines(order.items) =
             IF AskedByServersId(r, i)' THEN StoredItems(orders'[order.id]) ELSE {}
  BY <1>1, <1>2, <1>3, <1>5, <1>6
<1> QED
  BY <1>7 DEF BookSays, Lines, OrderIds, StoredItems

(* The lines of a new order are the stored ones, but for the spelling of their products. *)
LEMMA NewLines ==
    ASSUME NEW r, NEW i, Basket(r, i) \in Baskets, ~SameProductTwice(r, i),
           \A ref \in BasketRefs(r, i) : ProductOf[ref] # None,
           NEW entry, entry.quantity = Quantity(r, i),
           entry.unitPrice = [p \in Products |-> IF Quantity(r, i)[p] > 0 THEN price[p] ELSE 0]
    PROVE  Lines({Line(ref, Basket(r, i)[ref], price[ProductOf[ref]]) : ref \in BasketRefs(r, i)})
               = StoredItems(entry)
<1> DEFINE refs == BasketRefs(r, i)
           n(ref) == Basket(r, i)[ref]
           items == {Line(ref, n(ref), price[ProductOf[ref]]) : ref \in refs}
<1>1. ASSUME NEW ref \in refs
      PROVE  /\ ProductOf[ref] \in Products /\ n(ref) \in Nat \ {0}
             /\ Quantity(r, i)[ProductOf[ref]] = n(ref)
  <2>1. ref \in ProductRefs /\ n(ref) \in Int /\ n(ref) > 0
    BY DEF BasketRefs, Baskets
  <2>2. ProductOf[ref] \in Products
    BY <2>1, GraphQLAssumption
  <2>3. {x \in refs : ProductOf[x] = ProductOf[ref]} = {ref}
    BY DEF SameProductTwice
  <2>4. Units(r, i, ProductOf[ref], refs) = {ref} \X (1..n(ref))
    BY <2>3 DEF Units
  <2>5. Cardinality({ref} \X (1..n(ref))) = n(ref)
    <3>1. 1 \in Int /\ n(ref) \in Int
      BY <2>1
    <3>2. /\ IsFiniteSet(1..n(ref))
          /\ Cardinality(1..n(ref)) = IF 1 > n(ref) THEN 0 ELSE n(ref) - 1 + 1
      BY <3>1, FS_Interval
    <3>3. IsFiniteSet({ref}) /\ Cardinality({ref}) = 1
      BY FS_Singleton
    <3>4. Cardinality({ref} \X (1..n(ref))) = Cardinality({ref}) * Cardinality(1..n(ref))
      BY <3>2, <3>3, FS_Product
    <3>5. Cardinality(1..n(ref)) = n(ref)
      BY <2>1, <3>2
    <3> HIDE DEF n
    <3> QED
      BY <2>1, <3>3, <3>4, <3>5
  <2>6. Quantity(r, i)[ProductOf[ref]] = Cardinality(Units(r, i, ProductOf[ref], refs))
    BY <2>2 DEF Quantity
  <2> QED
    BY <2>1, <2>2, <2>4, <2>5, <2>6
<1>2. ASSUME NEW p \in Products, \A ref \in refs : ProductOf[ref] # p
      PROVE  Quantity(r, i)[p] = 0
  <2>1. Units(r, i, p, refs) = {}
    BY <1>2 DEF Units
  <2> QED
    BY <2>1, FS_EmptySet DEF Quantity
<1>3. ASSUME NEW ref \in refs
      PROVE  [Line(ref, n(ref), price[ProductOf[ref]]) EXCEPT !.product = ProductOf[@]]
                 = Line(ProductOf[ref], entry.quantity[ProductOf[ref]],
                        entry.unitPrice[ProductOf[ref]])
  <2>1. /\ entry.quantity[ProductOf[ref]] = n(ref)
        /\ entry.unitPrice[ProductOf[ref]] = price[ProductOf[ref]]
    BY <1>1
  <2> QED
    BY <2>1 DEF Line
<1>4. Lines(items) = {Line(ProductOf[ref], entry.quantity[ProductOf[ref]],
                           entry.unitPrice[ProductOf[ref]]) : ref \in refs}
  <2> DEFINE written(ref) == Line(ref, n(ref), price[ProductOf[ref]])
             stored(ref) == Line(ProductOf[ref], entry.quantity[ProductOf[ref]],
                                 entry.unitPrice[ProductOf[ref]])
             named(item) == [item EXCEPT !.product = ProductOf[@]]
  <2>1. \A ref \in refs : named(written(ref)) = stored(ref)
    BY <1>3
  <2>2. Lines(items) = {named(item) : item \in {written(ref) : ref \in refs}}
    BY DEF Lines
  <2> HIDE DEF written, stored, named, refs
  <2>3. Lines(items) = {stored(ref) : ref \in refs}
    BY <2>1, <2>2
  <2> QED
    BY <2>3 DEF stored
<1>5. {ProductOf[ref] : ref \in refs} = {p \in Products : entry.quantity[p] > 0}
  <2>1. ASSUME NEW ref \in refs PROVE ProductOf[ref] \in {p \in Products : entry.quantity[p] > 0}
    BY <1>1
  <2>2. ASSUME NEW p \in Products, entry.quantity[p] > 0 PROVE \E ref \in refs : ProductOf[ref] = p
    BY <1>2, <2>2
  <2> QED
    BY <2>1, <2>2
<1>6. {Line(ProductOf[ref], entry.quantity[ProductOf[ref]], entry.unitPrice[ProductOf[ref]]) :
          ref \in refs} = StoredItems(entry)
  BY <1>5 DEF StoredItems
<1> QED
  BY <1>4, <1>6

(* A new order, shown as it is in memory. *)
LEMMA SaysNew ==
    ASSUME Inv, NEW r \in Requests, NEW i \in 1..MaxRoots, CreateOrder(r, i),
           Accepted(r, i, caller[r]), Book!Place(NewId(r, i), caller[r], Quantity(r, i)),
           doc'[r] = doc[r], NEW order, order = NewOrder(r, i)
    PROVE  BookSays(r, i, order)'
<1> DEFINE o == NewId(r, i)
           entry == orders'[o]
<1>1. o \in OrderIds /\ Basket(r, i) \in Baskets
  BY NewIds, CreateBasket
<1>2. entry = [status |-> "PENDING", user |-> caller[r], quantity |-> Quantity(r, i),
           unitPrice |-> [p \in Products |-> IF Quantity(r, i)[p] > 0 THEN price[p] ELSE 0],
           cancelledAt |-> FALSE]
  BY <1>1 DEF Book!Place, Inv, Shape, BookShape
<1>3. ~SameProductTwice(r, i) /\ \A ref \in BasketRefs(r, i) : ProductOf[ref] # None
  BY DEF Accepted, Faulty, Fault
<1>4. Lines({Line(ref, Basket(r, i)[ref], price[ProductOf[ref]]) : ref \in BasketRefs(r, i)})
          = StoredItems(entry)
  <2>1. /\ entry.quantity = Quantity(r, i)
        /\ entry.unitPrice = [p \in Products |-> IF Quantity(r, i)[p] > 0 THEN price[p] ELSE 0]
    BY <1>2
  <2> HIDE DEF entry
  <2> QED
    BY <1>1, <1>3, <2>1, NewLines
<1>5. /\ order.id = o /\ order.user = entry.user /\ order.status = entry.status
      /\ Lines(order.items) = StoredItems(entry)
  BY <1>4 DEF NewOrder, OrderModel
<1>6. AskedByServersId(r, i)'
  BY DEF AskedByServersId, CreateOrder, Starts
<1>7. entry.status # "NONE"
  BY <1>2
<1> HIDE DEF entry, o
<1>8. order.id \in OrderIds
  BY <1>1, <1>5
<1>9. orders'[order.id] = entry
  BY <1>5 DEF entry
<1> QED
  BY <1>5, <1>6, <1>7, <1>8, <1>9 DEF BookSays, Lines, OrderIds, StoredItems

(* A step that resolves nothing: what was shown was true, and stays true. *)
LEMMA SameTruth ==
    ASSUME Inv, NEW r \in Requests, NEW i \in 1..MaxRoots, Truthful(r, i), NEW P, Moved(P),
           root'[r][i] = root[r][i], pc[r] # "idle" => doc'[r] = doc[r]
    PROVE  Truthful(r, i)'
<1>1. CASE ~root[r][i].done
  BY <1>1 DEF Truthful
<1>2. CASE root[r][i].done
  <2>1. doc'[r] = doc[r]
    BY <1>2 DEF Inv, RootInv, NotRun
  <2>2. FieldType(r, i)' = FieldType(r, i)
    BY <2>1 DEF FieldType
  <2>3. SUFFICES ASSUME NEW order \in OrdersIn(FieldType(r, i), root[r][i].value)
                 PROVE  BookSays(r, i, order)'
    BY <2>2 DEF Truthful, OrdersIn
  <2>4. BookSays(r, i, order)
    BY <1>2 DEF Truthful
  <2> QED
    BY <2>1, <2>4, SaysStill
<1> QED
  BY <1>1, <1>2

(* A root field returns: the book agrees with the orders in the value. *)
LEMMA ReturnTruth ==
    ASSUME Inv, Truth, NEW r \in Requests, NEW i \in 1..MaxRoots, NEW code, NEW value,
           Returns(r, i, code, value), NEW P, Moved(P), UNCHANGED request,
           \A order \in OrdersIn(FieldType(r, i), value) : BookSays(r, i, order)'
    PROVE  Truth'
<1>1. doc' = doc
  BY DEF request
<1>2. /\ root'[r][i] = Outcome(code, value)
      /\ \A q \in Requests, j \in 1..MaxRoots : q # r \/ j # i => root'[q][j] = root[q][j]
  BY Returned DEF Inv
<1>3. Truthful(r, i)'
  <2>1. root'[r][i].value = value
    BY <1>2 DEF Outcome
  <2>2. FieldType(r, i)' = FieldType(r, i)
    BY <1>1 DEF FieldType
  <2> QED
    BY <2>1, <2>2 DEF Truthful, OrdersIn
<1>4. ASSUME NEW q \in Requests, NEW j \in 1..MaxRoots, q # r \/ j # i
      PROVE  Truthful(q, j)'
  <2>1. Truthful(q, j) /\ root'[q][j] = root[q][j]
    BY <1>2, <1>4 DEF Truth
  <2> QED
    BY <1>1, <2>1, SameTruth
<1> QED
  BY <1>3, <1>4 DEF Truth

LEMMA NoOrders == \A type : OrdersIn(type, Null) = {}
BY DEF OrdersIn, Null

(* A resolver returns no order, and changes nothing. *)
LEMMA NothingShown ==
    ASSUME Inv, Truth, NEW r \in Requests, NEW i \in 1..MaxRoots, NEW code, NEW value,
           Returns(r, i, code, value), Quiet, OrdersIn(FieldType(r, i), value) = {}
    PROVE  Truth'
<1>1. Moved({}) /\ UNCHANGED request
  BY NothingMoves DEF Quiet, db, Inv, Shape
<1> QED
  BY <1>1, ReturnTruth

LEMMA OtherFieldsTruth ==
    ASSUME Inv, Truth, NEW r \in Requests, NEW i \in 1..MaxRoots,
           \/ Authenticate(r, i) \/ Me(r, i) \/ Product(r, i) \/ ProductsPage(r, i)
           \/ ResolverFails(r, i)
    PROVE  Truth'
<1>1. CASE ResolverFails(r, i)
  BY <1>1, NoOrders, NothingShown DEF ResolverFails
<1>2. CASE Authenticate(r, i) \/ Me(r, i) \/ Product(r, i) \/ ProductsPage(r, i)
  <2>1. doc[r].roots[i].field \in SessionFields \cup {"me", "product", "products"}
    BY <1>2, Domains DEF Authenticate, Me, Product, ProductsPage, Starts
  <2>2. FieldType(r, i) \notin {"Order", "OrderPage"}
    BY <2>1, FieldTypes DEF FieldType
  <2>3. \A value : OrdersIn(FieldType(r, i), value) = {}
    BY <2>2 DEF OrdersIn
  <2>4. Quiet /\ \E code, value : Returns(r, i, code, value)
    BY <1>2 DEF Authenticate, Me, Product, ProductsPage
  <2> QED
    BY <2>3, <2>4, NothingShown
<1> QED
  BY <1>1, <1>2

LEMMA MyOrdersTruth ==
    ASSUME Inv, Truth, NEW r \in Requests, NEW i \in 1..MaxRoots, MyOrders(r, i)
    PROVE  Truth'
<1> DEFINE own == {x \in OrderIds : orders[x].user = caller[r]}
           page == [items |-> {Stored(o) : o \in own}]
<1>1. Quiet /\ doc[r].roots[i].field = "myOrders"
  BY DEF MyOrders, Starts
<1>2. FieldType(r, i) = "OrderPage"
  BY <1>1, FieldTypes DEF FieldType
<1>3. CASE Returns(r, i, "UNAUTHENTICATED", Null)
  BY <1>1, <1>3, NoOrders, NothingShown
<1>4. CASE caller[r] # None /\ Returns(r, i, "OK", {page})
  <2>1. ASSUME NEW o \in own PROVE BookSays(r, i, Stored(o))
    <3>1. orders[o].status # "NONE"
      BY <1>4 DEF Inv, Shape, BookShape, Book!NoOrder
    <3>2. AskedByServersId(r, i)
      BY <1>1 DEF AskedByServersId
    <3>3. /\ Stored(o).id = o /\ Stored(o).user = orders[o].user
          /\ Stored(o).status = orders[o].status /\ Stored(o).items = StoredItems(orders[o])
      BY DEF Stored, OrderModel
    <3> QED
      BY <3>1, <3>2, <3>3, StoredLines DEF BookSays
  <2>2. Moved({}) /\ UNCHANGED request
    BY <1>1, NothingMoves DEF Quiet, db, Inv, Shape
  <2>3. OrdersIn(FieldType(r, i), {page}) = {Stored(o) : o \in own}
    BY <1>2 DEF OrdersIn
  <2>4. doc'[r] = doc[r]
    BY <2>2 DEF request
  <2>5. \A order \in OrdersIn(FieldType(r, i), {page}) : BookSays(r, i, order)'
    BY <2>1, <2>2, <2>3, <2>4, SaysStill
  <2> HIDE DEF page
  <2> QED
    BY <1>4, <2>2, <2>5, ReturnTruth
<1> QED
  BY <1>3, <1>4 DEF MyOrders

LEMMA GetOrderTruth ==
    ASSUME Inv, Truth, NEW r \in Requests, NEW i \in 1..MaxRoots, GetOrder(r, i)
    PROVE  Truth'
<1> DEFINE ref == doc[r].roots[i].arg
           o == OrderOf[ref]
           denial == Denial(o, caller[r])
           shown == OrderModel(o, orders[o], ItemsRead(ref))
<1>1. Starts(r, i, {"order"}) /\ Quiet
  BY DEF GetOrder
<1>2. ref \in OrderRefs /\ o \in OrderIds /\ FieldType(r, i) = "Order"
  BY <1>1, RootsBounded, FieldTypes DEF Starts, Inv, FieldType
<1>3. CASE Returns(r, i, denial, Null)
  BY <1>1, <1>3, NoOrders, NothingShown
<1>4. CASE denial = "NONE" /\ Returns(r, i, "OK", {shown})
  <2>1. Moved({}) /\ UNCHANGED request /\ orders' = orders /\ doc' = doc
    BY <1>1, NothingMoves DEF Quiet, db, Inv, Shape, request
  <2>2. orders[o].status # "NONE"
    BY <1>2, <1>4, DenialIsTrue DEF Inv, Shape, BookShape
  <2>3. doc[r].roots[i].field \in {"confirmOrder", "cancelOrder", "order"}
    BY <1>1 DEF Starts
  <2>4. shown = OrderModel(o, orders'[o], ItemsRead(ref))
    BY <2>1
  <2>5. \A order : order = OrderModel(o, orders'[o], ItemsRead(ref)) => BookSays(r, i, order)'
    BY <1>2, <2>1, <2>2, <2>3, SaysRead
  <2>6. OrdersIn(FieldType(r, i), {shown}) = {shown}
    BY <1>2 DEF OrdersIn
  <2>7. \A order \in OrdersIn(FieldType(r, i), {shown}) : BookSays(r, i, order)'
    BY <2>4, <2>5, <2>6
  <2> HIDE DEF shown
  <2> QED
    BY <1>4, <2>1, <2>7, ReturnTruth
<1> QED
  BY <1>3, <1>4 DEF GetOrder

LEMMA CreateOrderTruth ==
    ASSUME Inv, Truth, NEW r \in Requests, NEW i \in 1..MaxRoots, CreateOrder(r, i)
    PROVE  Truth'
<1>1. FieldType(r, i) = "Order"
  BY FieldTypes DEF CreateOrder, Starts, FieldType
<1>2. CASE Quiet /\ \E code : Returns(r, i, code, Null)
  BY <1>2, NoOrders, NothingShown
<1>3. CASE /\ Accepted(r, i, caller[r])
           /\ Book!Place(NewId(r, i), caller[r], Quantity(r, i))
           /\ \/ Returns(r, i, "OK", {NewOrder(r, i)})
              \/ Returns(r, i, "INTERNAL_ERROR", Null)
           /\ UNCHANGED request
  <2>1. Moved({NewId(r, i)}) /\ doc' = doc
    BY <1>3, NewIds, PlaceMoves DEF Inv, Shape, request
  <2>2. CASE Returns(r, i, "INTERNAL_ERROR", Null)
    BY <1>3, <2>1, <2>2, NoOrders, ReturnTruth
  <2>3. CASE Returns(r, i, "OK", {NewOrder(r, i)})
    <3> DEFINE shown == NewOrder(r, i)
    <3>1. \A order : order = NewOrder(r, i) => BookSays(r, i, order)'
      BY <1>3, <2>1, SaysNew
    <3>2. OrdersIn(FieldType(r, i), {shown}) = {shown}
      BY <1>1 DEF OrdersIn
    <3>3. \A order \in OrdersIn(FieldType(r, i), {shown}) : BookSays(r, i, order)'
      BY <3>1, <3>2
    <3>4. Returns(r, i, "OK", {shown})
      BY <2>3
    <3> HIDE DEF shown
    <3> QED
      BY <1>3, <2>1, <3>3, <3>4, ReturnTruth
  <2> QED
    BY <1>3, <2>2, <2>3
<1> QED
  BY <1>2, <1>3 DEF CreateOrder

LEMMA SettleOrderTruth ==
    ASSUME Inv, Truth, NEW r \in Requests, NEW i \in 1..MaxRoots, SettleOrder(r, i)
    PROVE  Truth'
<1> DEFINE ref == doc[r].roots[i].arg
           o == OrderOf[ref]
           field == doc[r].roots[i].field
           denial == Denial(o, caller[r])
           shown == OrderModel(o, orders'[o], ItemsRead(ref))
<1>1. Starts(r, i, {"confirmOrder", "cancelOrder"})
  BY DEF SettleOrder
<1>2. /\ field \in {"confirmOrder", "cancelOrder"} /\ ref \in OrderRefs /\ o \in OrderIds
      /\ FieldType(r, i) = "Order"
  BY <1>1, RootsBounded, FieldTypes DEF Starts, Inv, FieldType
<1>3. CASE Quiet /\ \E code : Returns(r, i, code, Null)
  BY <1>3, NoOrders, NothingShown
<1>4. CASE /\ denial = "NONE" /\ Settle(ref, field)
           /\ Returns(r, i, "OK", {shown}) \/ Returns(r, i, "INTERNAL_ERROR", Null)
           /\ UNCHANGED request
  <2>1. PICK status : Settles(o, status)
    BY <1>4, SpellingAssumption DEF Settle, Settles
  <2>2. Moved({}) /\ doc' = doc
    BY <1>2, <1>4, <2>1, SettleMoves DEF Inv, Shape, request
  <2>3. orders[o].status # "NONE"
    BY <1>2, <1>4, DenialIsTrue DEF Inv, Shape, BookShape
  <2>4. CASE Returns(r, i, "INTERNAL_ERROR", Null)
    BY <1>4, <2>2, <2>4, NoOrders, ReturnTruth
  <2>5. CASE Returns(r, i, "OK", {shown})
    <3>1. \A order : order = OrderModel(o, orders'[o], ItemsRead(ref)) => BookSays(r, i, order)'
      BY <1>2, <2>2, <2>3, SaysRead
    <3>2. OrdersIn(FieldType(r, i), {shown}) = {shown}
      BY <1>2 DEF OrdersIn
    <3>3. \A order \in OrdersIn(FieldType(r, i), {shown}) : BookSays(r, i, order)'
      BY <3>1, <3>2
    <3> HIDE DEF shown
    <3> QED
      BY <1>4, <2>2, <2>5, <3>3, ReturnTruth
  <2> QED
    BY <1>4, <2>4, <2>5
<1> QED
  BY <1>3, <1>4 DEF SettleOrder

(* The loaders, the arrival of a request, its answer and other requests resolve nothing. *)
LEMMA RestTruth ==
    ASSUME Inv, Truth, NEW P, Moved(P), root' = root,
           \A r \in Requests : pc[r] # "idle" => doc'[r] = doc[r]
    PROVE  Truth'
<1>1. ASSUME NEW r \in Requests, NEW i \in 1..MaxRoots PROVE Truthful(r, i)'
  <2>1. Truthful(r, i) /\ root'[r][i] = root[r][i]
    BY DEF Truth
  <2> QED
    BY <2>1, SameTruth
<1> QED
  BY <1>1 DEF Truth

LEMMA InitTruth == Init => Truth
BY DEF Init, Truth, Truthful, NotRun

LEMMA NextTruth == Inv /\ Truth /\ [Next]_vars => Truth'
<1> SUFFICES ASSUME Inv, Truth, [Next]_vars PROVE Truth'
  OBVIOUS
<1>1. orders' = orders => Moved({})
  BY NothingMoves DEF Inv, Shape
<1>2. ASSUME NEW r \in Requests, Receive(r) PROVE Truth'
  <2>1. orders' = orders /\ root' = root
    BY <1>2 DEF Receive, db
  <2>2. \A q \in Requests : pc[q] # "idle" => doc'[q] = doc[q]
    BY <1>2 DEF Receive, Inv, Shape
  <2> QED
    BY <1>1, <2>1, <2>2, RestTruth
<1>3. ASSUME NEW r \in Requests,
             \/ \E key \in Keys : Load(r, key)
             \/ FetchUsers(r) \/ FetchProducts(r) \/ Answer(r)
             \/ \E kind \in {"user", "product"} : FetchFails(r, kind)
      PROVE  Truth'
  <2>1. orders' = orders /\ root' = root /\ doc' = doc
    BY <1>3 DEF Load, FetchUsers, FetchProducts, FetchFails, Batch, Answer, db, request
  <2> QED
    BY <1>1, <2>1, RestTruth
<1>4. CASE Elsewhere
  <2>1. Moved(Earlier) /\ root' = root /\ doc' = doc
    BY <1>4, ElsewhereMoves DEF Inv, Shape, Elsewhere, request
  <2> QED
    BY <2>1, RestTruth
<1>5. ASSUME NEW r \in Requests, NEW i \in 1..MaxRoots, Resolve(r, i) PROVE Truth'
  BY <1>5, OtherFieldsTruth, CreateOrderTruth, SettleOrderTruth, MyOrdersTruth, GetOrderTruth
  DEF Resolve
<1>6. ASSUME NEW r \in Requests, NEW i \in 1..MaxRoots, ResolverFails(r, i) PROVE Truth'
  BY <1>6, OtherFieldsTruth
<1>7. CASE UNCHANGED vars
  <2>1. orders' = orders /\ root' = root /\ doc' = doc
    BY <1>7 DEF vars, db, request
  <2> QED
    BY <1>1, <2>1, RestTruth
<1> QED
  BY <1>2, <1>3, <1>4, <1>5, <1>6, <1>7 DEF Next, Serve

(* What a client was shown of an order, new, read or settled, stays true of its rows for ever: its
   owner, its items by the products that their ids name, and its final status (order.go:13-31,
   60-78), whatever anybody does in any spelling of its id. *)
THEOREM ShownOrdersTheorem == Spec => []ShownOrdersStayTrue
<1>1. Inv /\ Truth => ShownOrdersStayTrue
  <2> SUFFICES ASSUME Inv, Truth, NEW r \in Requests, pc[r] \in {"running", "done"},
                      NEW i \in Roots(r), NEW order \in OrdersShown(r, i)
               PROVE  BookSays(r, i, order)
    BY DEF ShownOrdersStayTrue, BookSays, Lines
  <2>1. i \in 1..MaxRoots
    BY RootsBounded DEF Inv
  <2>2. order \in OrdersIn(FieldType(r, i), root[r][i].value)
    BY DEF OrdersShown, Objects, OrdersIn
  <2>3. root[r][i].done
    BY <2>1, <2>2, NoOrders DEF Inv, RootInv, NotRun
  <2> QED
    BY <2>1, <2>2, <2>3 DEF Truth, Truthful
<1>2. Spec => [](Inv /\ Truth)
  <2>1. Inv /\ Truth /\ [Next]_vars => (Inv /\ Truth)'
    BY NextInv, NextTruth
  <2> QED
    BY <2>1, InitInv, InitTruth, PTL DEF Spec
<1> QED
  BY <1>1, <1>2, PTL

=============================================================================
