------------------------------- MODULE GraphQL --------------------------------
(***************************************************************************)
(* How one HTTP request becomes calls and an answer: the generated         *)
(* executor (internal/delivery/graphql/generated/generated.go), the        *)
(* resolvers (schema.resolvers.go) and the data loaders (loaders.go), over *)
(* the order book that OrderService implements.  A resolver of a root      *)
(* field is one step here, the instant at which its transaction or its     *)
(* statement takes effect; a loader's query is one step for all the keys   *)
(* it has collected.  Between two steps of one request the requests of     *)
(* other clients take theirs.                                              *)
(*                                                                         *)
(* The executor of gqlgen and dataloadgen are external: the model keeps    *)
(* that a panic of a resolver is an error of its field, that a loader      *)
(* remembers the outcome of every key it was asked for, errors included,   *)
(* and that a query takes all the keys asked for since the last one.       *)
(***************************************************************************)
EXTENDS Integers, Sequences, FiniteSetsExt

CONSTANTS
    Requests,      \* HTTP requests
    Documents,     \* bound: the operations that each of them may carry
    MaxRoots,      \* bound: how many root fields they have
    Users,         \* the accounts
    Callers,       \* bound: whom it may act for: accounts, removed accounts, nobody (None)
    Products,      \* the products, and their ids as the server writes them
    ProductRefs,   \* what a client may write as the id of a product, in the order of the text
    ProductOf,     \* the product each of those names, None if it names none
    Earlier,       \* the ids of orders placed by other requests, as the server writes them
    OrderRefs,     \* what a client may write as the id of an order
    OrderOf,       \* the order each of those names (one that is never placed if there is none)
    InitStock,     \* the stock of each product when the run starts
    Prices,        \* the prices a product may have
    Int4Max,       \* the largest value of an INTEGER column
    Purchases,     \* bound: what other requests buy
    Limit,         \* queryComplexityLimit
    None           \* nobody, no product, no row

ASSUME GraphQLAssumption ==
    /\ None \notin Users
    /\ Products \subseteq ProductRefs /\ ProductRefs \subseteq Int /\ None \notin ProductRefs
    /\ ProductOf \in [ProductRefs -> Products \cup {None}]
    /\ \A p \in Products : ProductOf[p] = p
    /\ IsFiniteSet(Requests) /\ IsFiniteSet(Earlier)
    /\ InitStock \in [Products -> 0..Int4Max] /\ Prices \subseteq Nat
    /\ MaxRoots \in Nat /\ Earlier \cap (Requests \X (1..MaxRoots)) = {}
    /\ Int4Max \in Nat /\ Purchases \subseteq [Products -> 0..Int4Max] /\ Limit \in Nat

VARIABLES
    stock, price, orders,   \* the database, as OrderBook sees it
    pc,                     \* where each request is
    doc,                    \* the operation of each request
    caller,                 \* the user middleware.Auth found in its token
    root,                   \* what the resolvers of its root fields returned
    thunks,                 \* what its loaders know of each key
    during                  \* the product rows that were current since it arrived (history)

db == <<stock, price, orders>>
request == <<pc, doc, caller>>
vars == <<db, request, root, thunks, during>>

(* newID() of root field i of request r. *)
NewId(r, i) == <<r, i>>
OrderIds == Earlier \cup (Requests \X (1..MaxRoots))

ASSUME SpellingAssumption ==
    /\ OrderIds \subseteq OrderRefs
    /\ OrderOf \in [OrderRefs -> OrderIds]
    /\ \A o \in OrderIds : OrderOf[o] = o

Book == INSTANCE OrderBook

-----------------------------------------------------------------------------
(* The schema: the type of every field, whether it is a list, and whether null is an error there. *)

Leaf == [type |-> "scalar", list |-> FALSE, nonNull |-> TRUE]
Object(type) == [Leaf EXCEPT !.type = type]
ListOf(type) == [Leaf EXCEPT !.type = type, !.list = TRUE]
Optional(type) == [Leaf EXCEPT !.type = type, !.nonNull = FALSE]

UserFields == [id |-> Leaf, email |-> Leaf, createdAt |-> Leaf]

ProductFields ==
    [id |-> Leaf, name |-> Leaf, price |-> Leaf, stock |-> Leaf, createdAt |-> Leaf]

ProductPageFields ==
    [items |-> ListOf("Product"), total |-> Leaf, page |-> Leaf, pageSize |-> Leaf,
     hasNextPage |-> Leaf]

OrderItemFields == [product |-> Object("Product"), quantity |-> Leaf, unitPrice |-> Leaf]

OrderFields ==
    [id |-> Leaf, user |-> Object("User"), items |-> ListOf("OrderItem"), total |-> Leaf,
     status |-> Leaf, createdAt |-> Leaf]

OrderPageFields == [ProductPageFields EXCEPT !.items = ListOf("Order")]

AuthPayloadFields == [accessToken |-> Leaf, refreshToken |-> Leaf, user |-> Object("User")]

SessionMutations ==
    [register |-> Object("AuthPayload"), login |-> Object("AuthPayload"),
     refreshToken |-> Object("AuthPayload")]

OrderMutations ==
    [createOrder |-> Object("Order"), confirmOrder |-> Object("Order"),
     cancelOrder |-> Object("Order")]

QueryFields ==
    [me |-> Optional("User"), products |-> Object("ProductPage"),
     product |-> Optional("Product"), myOrders |-> Object("OrderPage"),
     order |-> Optional("Order")]

RootFields == [f \in DOMAIN SessionMutations \cup DOMAIN OrderMutations \cup DOMAIN QueryFields |->
    IF f \in DOMAIN SessionMutations THEN SessionMutations[f]
    ELSE IF f \in DOMAIN OrderMutations THEN OrderMutations[f] ELSE QueryFields[f]]

FieldsOf ==
    [User |-> UserFields, Product |-> ProductFields, ProductPage |-> ProductPageFields,
     OrderItem |-> OrderItemFields, Order |-> OrderFields, OrderPage |-> OrderPageFields,
     AuthPayload |-> AuthPayloadFields]

(* What a root field is asked with: an id, or the basket of an order.  A basket has finitely many
   lines, added up for each id (sums that wrap are the subject of OrderService); a negative number
   stands for lines one of which is for nothing or less. *)
Baskets ==
    {basket \in [ProductRefs -> Int] : IsFiniteSet({ref \in ProductRefs : basket[ref] > 0})}

Arguments(field) ==
    CASE field = "createOrder" -> Baskets
      [] field \in {"confirmOrder", "cancelOrder", "order"} -> OrderRefs
      [] field = "product" -> ProductRefs
      [] OTHER -> {None}

(* A document is what the validator of the executor lets through. *)
ASSUME DocumentAssumption ==
    \A d \in UNION {Documents[r] : r \in Requests} :
        /\ DOMAIN d.roots = 1..Len(d.roots) /\ Len(d.roots) \in 1..MaxRoots
        /\ \A i \in DOMAIN d.roots :
              /\ d.roots[i].field \in IF d.kind = "query" THEN DOMAIN QueryFields
                                      ELSE DOMAIN SessionMutations \cup DOMAIN OrderMutations
              /\ d.roots[i].arg \in Arguments(d.roots[i].field)
        /\ \A type \in DOMAIN FieldsOf : d.select[type] \subseteq DOMAIN FieldsOf[type]

(* A field costs one and what is selected below it; how long a list is does not count. *)
TypeCost(d) ==
    LET cost[type \in DOMAIN FieldsOf] ==
            MapThenSumSet(LAMBDA f : LET t == FieldsOf[type][f].type IN
                              IF t = "scalar" THEN 1 ELSE 1 + cost[t], d.select[type])
    IN cost

Complexity(d) ==
    MapThenSumSet(LAMBDA i : 1 + TypeCost(d)[RootFields[d.roots[i].field].type],
                  DOMAIN d.roots)

-----------------------------------------------------------------------------
(* What the resolvers return *)

(* null; a value that is not null is {v}, for some v. *)
Null == {}

Outcome(code, value) == [done |-> TRUE, code |-> code, value |-> value]
NotRun == [done |-> FALSE, code |-> "NONE", value |-> Null]

Row(p) == [id |-> p, stock |-> stock[p], price |-> price[p]]
CurrentRows == {Row(p) : p \in Products}

(* toOrderModel: the items carry the id of their product as the use case has it. *)
OrderModel(o, order, items) ==
    [id |-> o, user |-> order.user, status |-> order.status, items |-> items]

Line(ref, quantity, unitPrice) ==
    [product |-> ref, quantity |-> quantity, unitPrice |-> unitPrice]

(* Variant: products that the order does not have are among its items. *)
ItemsOfEveryProduct(order) ==
    {Line(p, order.quantity[p], order.unitPrice[p]) : p \in Products}

StoredItems(order) ==
    {Line(p, order.quantity[p], order.unitPrice[p]) :
        p \in {q \in Products : order.quantity[q] > 0}}

Stored(o) == OrderModel(o, orders[o], StoredItems(orders[o]))

(* order.Items = items[id]: the map has the ids as the server writes them. *)
ItemsRead(ref) == IF ref \in OrderIds THEN StoredItems(orders[ref]) ELSE {}

-----------------------------------------------------------------------------
(* The loaders *)

Keys == ({"user"} \X Users) \cup ({"product"} \X ProductRefs)

Unasked == [state |-> "none", code |-> "NONE", row |-> None, saw |-> {}]
Asked == [Unasked EXCEPT !.state = "queued"]
Got(code, row) ==
    [state |-> "ready", code |-> code, row |-> row,
     saw |-> {o \in OrderIds : orders[o] # Book!NoOrder}]

Selects(r, type, field) == field \in doc[r].select[type]

(* Variant: only a row wakes those who wait for it. *)
ReadyWithRows(r, keys) ==
    \A k \in keys : thunks[r][k].state = "ready" /\ thunks[r][k].code = "OK"

Ready(r, keys) == \A k \in keys : thunks[r][k].state = "ready"

(* The keys asked for so far on behalf of an item, an order and a page.  An order's user is asked
   for when its plain fields, its items among them, are complete. *)
ItemKeys(r, item) ==
    IF Selects(r, "OrderItem", "product") THEN {<<"product", item.product>>} ELSE {}

OrderKeys(r, order) ==
    LET below == IF Selects(r, "Order", "items")
                 THEN UNION {ItemKeys(r, item) : item \in order.items} ELSE {}
        owner == IF Selects(r, "Order", "user") THEN {<<"user", order.user>>} ELSE {}
    IN IF Ready(r, below) THEN below \cup owner ELSE below

PageKeys(r, page) ==
    IF Selects(r, "OrderPage", "items") THEN UNION {OrderKeys(r, order) : order \in page.items}
    ELSE {}

FieldType(r, i) == RootFields[doc[r].roots[i].field].type

(* What root field i returned, if it is of this type. *)
Objects(r, i, type) == IF FieldType(r, i) = type THEN root[r][i].value ELSE {}

RootKeys(r, i) ==
    UNION ({OrderKeys(r, order) : order \in Objects(r, i, "Order")}
           \cup {PageKeys(r, page) : page \in Objects(r, i, "OrderPage")})

Complete(r, i) == root[r][i].done /\ Ready(r, RootKeys(r, i))

-----------------------------------------------------------------------------
(* The answer: null climbs from a field that may not be null to the nearest one that may. *)

Failed(r, key) == thunks[r][key].code # "OK"

(* Variant: the null elements of a list stay in it. *)
ListWithNulls(values) == {values}

ListValue(values) == IF Null \in values THEN Null ELSE {values}

Shown(r, type, object) == [f \in doc[r].select[type] \cap DOMAIN object |-> object[f]]

UserValue(r, user) == Shown(r, "User", user)
ProductValue(r, product) == Shown(r, "Product", product)

OrderItemValue(r, item) ==
    LET key == <<"product", item.product>> IN
    IF Selects(r, "OrderItem", "product")
    THEN IF Failed(r, key) THEN Null
         ELSE {Shown(r, "OrderItem",
                     [item EXCEPT !.product = ProductValue(r, thunks[r][key].row)])}
    ELSE {Shown(r, "OrderItem", item)}

OrderValue(r, order) ==
    LET key == <<"user", order.user>>
        items == IF Selects(r, "Order", "items")
                 THEN ListValue({OrderItemValue(r, item) : item \in order.items}) ELSE {{}}
        owner == IF Selects(r, "Order", "user")
                 THEN IF Failed(r, key) THEN Null ELSE {UserValue(r, thunks[r][key].row)} ELSE {{}}
    IN IF items = Null \/ owner = Null THEN Null
       ELSE {Shown(r, "Order", [order EXCEPT !.items = items, !.user = owner])}

OrderPageValue(r, page) ==
    LET items == IF Selects(r, "OrderPage", "items")
                 THEN ListValue({OrderValue(r, order) : order \in page.items}) ELSE {{}}
    IN IF items = Null THEN Null ELSE {Shown(r, "OrderPage", [page EXCEPT !.items = items])}

ProductPageValue(r, page) ==
    Shown(r, "ProductPage", [page EXCEPT !.items = {ProductValue(r, p) : p \in page.items}])

AuthPayloadValue(r, payload) ==
    Shown(r, "AuthPayload", [payload EXCEPT !.user = UserValue(r, payload.user)])

RootValue(r, i) ==
    LET value == root[r][i].value
        type == FieldType(r, i)
    IN CASE type = "Order" -> UNION {OrderValue(r, v) : v \in value}
         [] type = "OrderPage" -> UNION {OrderPageValue(r, v) : v \in value}
         [] type = "ProductPage" -> {ProductPageValue(r, v) : v \in value}
         [] type = "Product" -> {ProductValue(r, v) : v \in value}
         [] type = "User" -> {UserValue(r, v) : v \in value}
         [] type = "AuthPayload" -> {AuthPayloadValue(r, v) : v \in value}

Roots(r) == DOMAIN doc[r].roots

Data(r) ==
    IF \E i \in Roots(r) : RootFields[doc[r].roots[i].field].nonNull /\ RootValue(r, i) = Null
    THEN Null
    ELSE {[i \in Roots(r) |-> RootValue(r, i)]}

(* The errors of the answer: at the path of a root field, or below it. *)
Errors(r) ==
    {[root |-> i, below |-> FALSE, code |-> root[r][i].code] :
        i \in {j \in Roots(r) : root[r][j].code \notin {"OK", "NONE"}}}
    \cup UNION {{[root |-> i, below |-> TRUE, code |-> thunks[r][key].code] :
                    key \in {k \in RootKeys(r, i) : Failed(r, k)}} : i \in Roots(r)}

-----------------------------------------------------------------------------
(* Specification *)

Init ==
    /\ Book!Init
    /\ pc = [r \in Requests |-> "idle"]
    /\ doc = [r \in Requests |-> None]
    /\ caller = [r \in Requests |-> None]
    /\ root = [r \in Requests |-> [i \in 1..MaxRoots |-> NotRun]]
    /\ thunks = [r \in Requests |-> [k \in Keys |-> Unasked]]
    /\ during = [r \in Requests |-> {}]

(* Variant: one set of loaders serves every request. *)
SharedLoaders(r) ==
    [k \in Keys |-> IF \E s \in Requests : thunks[s][k].state = "ready"
                   THEN thunks[CHOOSE s \in Requests : thunks[s][k].state = "ready"][k]
                   ELSE Unasked]

NewLoaders(r) == [k \in Keys |-> Unasked]

(* The request passes the middlewares; an operation that is too complex goes no further. *)
Receive(r) ==
    /\ pc[r] = "idle"
    /\ \E d \in Documents[r], c \in Callers[r] :
          /\ doc' = [doc EXCEPT ![r] = d]
          /\ caller' = [caller EXCEPT ![r] = c]
          /\ pc' = [pc EXCEPT ![r] = IF Complexity(d) > Limit THEN "refused" ELSE "running"]
    /\ thunks' = [thunks EXCEPT ![r] = NewLoaders(r)]
    /\ during' = [during EXCEPT ![r] = CurrentRows]
    /\ UNCHANGED <<db, root>>

(* Variant: the fields of a mutation run like those of a query. *)
AtOnce(r, i) == TRUE

(* The fields of a mutation run one after the other, whether or not the one before failed; those
   of a query run concurrently. *)
Turn(r, i) == doc[r].kind = "mutation" => \A j \in 1..(i - 1) : Complete(r, j)

Starts(r, i, fields) ==
    /\ pc[r] = "running"
    /\ i \in Roots(r) /\ ~root[r][i].done
    /\ doc[r].roots[i].field \in fields
    /\ Turn(r, i)

Returns(r, i, code, value) == root' = [root EXCEPT ![r][i] = Outcome(code, value)]

(* The product rows change: history. *)
Observe ==
    during' = [s \in Requests |-> IF pc[s] = "running" THEN during[s] \cup CurrentRows'
                                   ELSE during[s]]

(* A resolver that reads, or that fails without having changed anything. *)
Quiet == UNCHANGED <<db, request, thunks, during>>

(* register, login and refreshToken: what they do is the subject of Auth. *)
Authenticate(r, i) ==
    /\ Starts(r, i, DOMAIN SessionMutations)
    /\ \/ \E u \in Users : Returns(r, i, "OK", {[user |-> [id |-> u]]})
       \/ Returns(r, i, "INVALID_CREDENTIALS", Null)
    /\ Quiet

Basket(r, i) == doc[r].roots[i].arg
BasketRefs(r, i) == {ref \in ProductRefs : Basket(r, i)[ref] > 0}

(* The units of product p that lines S of the basket ask for, however they name it. *)
Units(r, i, p, S) ==
    UNION {{ref} \X (1..Basket(r, i)[ref]) : ref \in {x \in S : ProductOf[x] = p}}

Quantity(r, i) == [p \in Products |-> Cardinality(Units(r, i, p, BasketRefs(r, i)))]

(* Two lines of one product break the primary key of order_items. *)
SameProductTwice(r, i) ==
    \E a, b \in BasketRefs(r, i) : a # b /\ ProductOf[a] = ProductOf[b]

(* The foreign key of an order: its user has an account. *)
Account(c) == c \in Users

OrderErrors == {"UNAUTHENTICATED", "INVALID_QUANTITY", "EMPTY_ORDER", "PRODUCT_NOT_FOUND",
                "INSUFFICIENT_STOCK", "INTERNAL_ERROR"}

(* Why a basket of user c does not get as far as a transaction, "NONE" if it does. *)
Rejection(r, i, c) ==
    IF c = None THEN "UNAUTHENTICATED"
    ELSE IF \E ref \in ProductRefs : Basket(r, i)[ref] < 0 THEN "INVALID_QUANTITY"
    ELSE IF BasketRefs(r, i) = {} THEN "EMPTY_ORDER"
    ELSE "NONE"

(* Why the statements for this line fail when those before it have taken their units. *)
Fault(r, i, ref) ==
    LET p == ProductOf[ref]
        taken == Units(r, i, p, {x \in BasketRefs(r, i) : x <= ref})
    IN IF p = None THEN "PRODUCT_NOT_FOUND"
       ELSE IF Basket(r, i)[ref] > Int4Max THEN "INTERNAL_ERROR"
       ELSE IF Cardinality(taken) > stock[p] THEN "INSUFFICIENT_STOCK"
       ELSE "NONE"

Faulty(r, i) == {ref \in BasketRefs(r, i) : Fault(r, i, ref) # "NONE"}

(* The use case refuses the basket of user c: the first line that fails decides. *)
Refused(r, i, c, code) ==
    \/ /\ Rejection(r, i, c) # "NONE"
       /\ code = Rejection(r, i, c)
    \/ /\ Rejection(r, i, c) = "NONE"
       /\ \E ref \in Faulty(r, i) :
             /\ \A other \in Faulty(r, i) : ref <= other
             /\ code = Fault(r, i, ref)
    \/ /\ Rejection(r, i, c) = "NONE" /\ Faulty(r, i) = {}
       /\ ~Account(c) \/ SameProductTwice(r, i)
       /\ code = "INTERNAL_ERROR"

Accepted(r, i, c) ==
    /\ Rejection(r, i, c) = "NONE" /\ Faulty(r, i) = {}
    /\ Account(c) /\ ~SameProductTwice(r, i)

(* The items of a new order keep the ids that the client wrote. *)
NewOrder(r, i) ==
    OrderModel(NewId(r, i), orders'[NewId(r, i)],
               {Line(ref, Basket(r, i)[ref], price[ProductOf[ref]]) : ref \in BasketRefs(r, i)})

CreateOrder(r, i) ==
    /\ Starts(r, i, {"createOrder"})
    /\ \/ /\ \E code \in OrderErrors :
                Refused(r, i, caller[r], code) /\ Returns(r, i, code, Null)
          /\ Quiet
       \/ /\ Accepted(r, i, caller[r])
          /\ Book!Place(NewId(r, i), caller[r], Quantity(r, i))
          /\ \/ Returns(r, i, "OK", {NewOrder(r, i)})
             \/ Returns(r, i, "INTERNAL_ERROR", Null)
          /\ Observe
          /\ UNCHANGED <<request, thunks>>

(* Variant: the owner of the order is not compared with the caller. *)
AnyOwner(o, c) == TRUE

Owns(o, c) == orders[o].user = c

(* Why user c does not get order o, "NONE" if he does. *)
Denial(o, c) ==
    CASE c = None -> "UNAUTHENTICATED"
      [] c # None /\ orders[o] = Book!NoOrder -> "ORDER_NOT_FOUND"
      [] c # None /\ orders[o] # Book!NoOrder /\ ~Owns(o, c) -> "ORDER_NOT_OWNED"
      [] OTHER -> "NONE"

(* Variant: the order is saved as it was read. *)
SaveAsRead(o) ==
    /\ orders[o].status = "PENDING"
    /\ orders' = [orders EXCEPT ![o] = [@ EXCEPT !.status = "CANCELLED", !.cancelledAt = TRUE,
                          !.quantity = Book!NoItems, !.unitPrice = Book!NoItems]]
    /\ UNCHANGED <<stock, price>>

(* An order that was read without its items is cancelled, and nothing goes back to the shelf. *)
CancelWithoutItems(o) ==
    /\ orders[o].status = "PENDING"
    /\ orders' = [orders EXCEPT ![o].status = "CANCELLED", ![o].cancelledAt = TRUE]
    /\ UNCHANGED <<stock, price>>

Settle(ref, field) ==
    \/ field = "confirmOrder" /\ Book!Confirm(OrderOf[ref])
    \/ field = "cancelOrder" /\ ref \in OrderIds /\ Book!Cancel(ref)
    \/ field = "cancelOrder" /\ ref \notin OrderIds /\ CancelWithoutItems(OrderOf[ref])

SettleOrder(r, i) ==
    LET ref == doc[r].roots[i].arg
        o == OrderOf[ref]
        field == doc[r].roots[i].field
        denial == Denial(o, caller[r])
    IN
    /\ Starts(r, i, {"confirmOrder", "cancelOrder"})
    /\ \/ /\ denial # "NONE"
          /\ Returns(r, i, denial, Null)
          /\ Quiet
       \/ /\ denial = "NONE"
          /\ orders[o].status # "PENDING"
          /\ Returns(r, i, "ORDER_NOT_PENDING", Null)
          /\ Quiet
       \/ /\ denial = "NONE"
          /\ Settle(ref, field)
          /\ \/ Returns(r, i, "OK", {OrderModel(o, orders'[o], ItemsRead(ref))})
             \/ Returns(r, i, "INTERNAL_ERROR", Null)
          /\ Observe
          /\ UNCHANGED <<request, thunks>>

(* me is null for nobody and for a removed account. *)
Me(r, i) ==
    /\ Starts(r, i, {"me"})
    /\ Returns(r, i, "OK", IF caller[r] \in Users THEN {[id |-> caller[r]]} ELSE Null)
    /\ Quiet

(* An id that names no product has no row. *)
Product(r, i) ==
    LET p == ProductOf[doc[r].roots[i].arg] IN
    /\ Starts(r, i, {"product"})
    /\ IF p = None THEN Returns(r, i, "PRODUCT_NOT_FOUND", Null)
                  ELSE Returns(r, i, "OK", {Row(p)})
    /\ Quiet

(* The pages themselves are the subject of Pages: here they hold everything. *)
ProductsPage(r, i) ==
    /\ Starts(r, i, {"products"})
    /\ Returns(r, i, "OK", {[items |-> CurrentRows]})
    /\ Quiet

MyOrders(r, i) ==
    /\ Starts(r, i, {"myOrders"})
    /\ IF caller[r] = None THEN Returns(r, i, "UNAUTHENTICATED", Null)
       ELSE Returns(r, i, "OK",
                {[items |-> {Stored(o) : o \in {x \in OrderIds : orders[x].user = caller[r]}}]})
    /\ Quiet

GetOrder(r, i) ==
    LET ref == doc[r].roots[i].arg
        o == OrderOf[ref]
        denial == Denial(o, caller[r])
    IN
    /\ Starts(r, i, {"order"})
    /\ IF denial # "NONE" THEN Returns(r, i, denial, Null)
       ELSE Returns(r, i, "OK", {OrderModel(o, orders[o], ItemsRead(ref))})
    /\ Quiet

(* A statement of the resolver fails, the resolver panics, or the client has gone. *)
ResolverFails(r, i) ==
    /\ Starts(r, i, DOMAIN RootFields)
    /\ Returns(r, i, "INTERNAL_ERROR", Null)
    /\ Quiet

-----------------------------------------------------------------------------

(* A goroutine of the executor asks a loader for a key: at its turn, unless the key is known. *)
Load(r, key) ==
    /\ pc[r] = "running"
    /\ thunks[r][key].state = "none"
    /\ \E i \in Roots(r) : key \in RootKeys(r, i)
    /\ thunks' = [thunks EXCEPT ![r][key] = Asked]
    /\ UNCHANGED <<db, request, root, during>>

Queue(r, kind) == {key \in Keys : key[1] = kind /\ thunks[r][key].state = "queued"}

Batch(r, kind, Result(_)) ==
    /\ pc[r] = "running"
    /\ Queue(r, kind) # {}
    /\ thunks' = [thunks EXCEPT ![r] =
          [key \in Keys |-> IF key \in Queue(r, kind) THEN Result(key[2]) ELSE thunks[r][key]]]
    /\ UNCHANGED <<db, request, root, during>>

(* FindByIDs: a map whose keys are the ids as the server writes them. *)
UserFound(u) == Got("OK", [id |-> u])
ProductFound(ref) ==
    IF ref \in Products THEN Got("OK", Row(ref)) ELSE Got("PRODUCT_NOT_FOUND", None)
NothingFound(ref) == Got("INTERNAL_ERROR", None)

FetchUsers(r) == Batch(r, "user", UserFound)
FetchProducts(r) == Batch(r, "product", ProductFound)
FetchFails(r, kind) == Batch(r, kind, NothingFound)

(* Variant: the answer is written as soon as a field has failed. *)
CompleteUpToFailure(r) ==
    \A i \in Roots(r) : Complete(r, i) \/ \E j \in 1..(i - 1) : root[r][j].value = Null

AllComplete(r) == \A i \in Roots(r) : Complete(r, i)

(* Exec: the data and the errors are written. *)
Answer(r) ==
    /\ pc[r] = "running"
    /\ AllComplete(r)
    /\ pc' = [pc EXCEPT ![r] = "done"]
    /\ during' = [during EXCEPT ![r] = {}]
    /\ UNCHANGED <<db, doc, caller, root, thunks>>

(* Other requests place orders and settle them (bound: not those of the requests modelled). *)
Elsewhere ==
    /\ \/ \E o \in Earlier, u \in Users, quantity \in Purchases :
             Book!Place(o, u, quantity)
       \/ \E o \in Earlier : Book!Confirm(o) \/ Book!Cancel(o) \/ CancelWithoutItems(o)
       \/ \E p \in Products : Book!Reprice(p) /\ price' # price
    /\ Observe
    /\ UNCHANGED <<request, root, thunks>>

(* What the server does of its own accord once a request has arrived. *)
Resolve(r, i) ==
    \/ Authenticate(r, i) \/ CreateOrder(r, i) \/ SettleOrder(r, i)
    \/ Me(r, i) \/ Product(r, i) \/ ProductsPage(r, i) \/ MyOrders(r, i) \/ GetOrder(r, i)

Serve(r) ==
    \/ \E i \in 1..MaxRoots : Resolve(r, i)
    \/ \E key \in Keys : Load(r, key)
    \/ FetchUsers(r)
    \/ FetchProducts(r)
    \/ Answer(r)

Next ==
    \/ \E r \in Requests :
          \/ Receive(r)
          \/ Serve(r)
          \/ \E i \in 1..MaxRoots : ResolverFails(r, i)
          \/ \E kind \in {"user", "product"} : FetchFails(r, kind)
    \/ Elsewhere

(* A goroutine that can run is run, and a loader does not wait for ever before its query. *)
Fairness == \A r \in Requests : WF_vars(Serve(r))

Spec == Init /\ [][Next]_vars /\ Fairness

-----------------------------------------------------------------------------
(* Properties *)

OrderObject ==
    [id : OrderIds, user : Users, status : {"PENDING", "CONFIRMED", "CANCELLED"},
     items : SUBSET [product : ProductRefs, quantity : Nat \ {0}, unitPrice : Prices]]

RowObject == [id : Products, stock : Nat, price : Prices]

TypeOK ==
    /\ stock \in [Products -> Nat]
    /\ \A r \in Requests :
          /\ pc[r] \in {"idle", "running", "refused", "done"}
          /\ pc[r] # "idle" => doc[r] \in Documents[r] /\ caller[r] \in Callers[r]
          /\ during[r] \subseteq RowObject
          /\ pc[r] # "idle" => \A i \in Roots(r) :
                \A object \in root[r][i].value :
                    CASE FieldType(r, i) = "Order" -> object \in OrderObject
                      [] FieldType(r, i) = "OrderPage" -> object.items \subseteq OrderObject
                      [] FieldType(r, i) = "ProductPage" -> object.items \subseteq RowObject
                      [] FieldType(r, i) = "Product" -> object \in RowObject
                      [] FieldType(r, i) = "User" -> object \in [id : Users]
                      [] FieldType(r, i) = "AuthPayload" -> object \in [user : [id : Users]]
          /\ \A key \in Keys : thunks[r][key].code = "OK" =>
                thunks[r][key].row \in IF key[1] = "user" THEN [id : Users] ELSE RowObject

(* Loaders live as long as their request (loaders.go:19-20): every product row an answer shows was
   current at some instant of that very request, never before it. *)
RowsWereCurrent ==
    \A r \in Requests : pc[r] = "running" =>
        \A ref \in ProductRefs :
            LET thunk == thunks[r][<<"product", ref>>] IN
            thunk.code = "OK" => thunk.row \in during[r]

(* The loaders do not authorize (loaders.go:55-57): they rely on the resolvers to let no order of
   somebody else through, so a request never asks for a user other than its own, and whatever it
   asks for, in one field or many, it is shown only its own orders. *)
OnlyOwnOrders ==
    \A r \in Requests :
        /\ \A u \in Users : thunks[r][<<"user", u>>].state # "none" => u = caller[r]
        /\ pc[r] \in {"running", "done"} => \A i \in Roots(r) :
              /\ \A order \in Objects(r, i, "Order") : order.user = caller[r]
              /\ \A page \in Objects(r, i, "OrderPage") : \A order \in page.items :
                    order.user = caller[r]

ErrorAt(r, i) ==
    LET errors == {e \in Errors(r) : e.root = i /\ ~e.below} IN
    IF errors = {} THEN "NONE" ELSE (CHOOSE e \in errors : TRUE).code

(* What became of a mutation can be told from the errors of the answer alone, even when its data
   is null because another field failed: a root field without an error at its own path has taken
   effect, one with an error of the domain has not (generated.go:3708-3787, errors.go:48-64). *)
ClientKnowsWhatCommitted ==
    \A r \in Requests : pc[r] = "done" => \A i \in Roots(r) :
        LET field == doc[r].roots[i].field
            code == ErrorAt(r, i)
        IN
        /\ field = "createOrder" =>
              /\ code = "NONE" => orders[NewId(r, i)].user = caller[r]
              /\ code \notin {"NONE", "INTERNAL_ERROR"} => orders[NewId(r, i)] = Book!NoOrder
        /\ field \in {"confirmOrder", "cancelOrder"} =>
              LET order == orders[OrderOf[doc[r].roots[i].arg]] IN
              /\ code = "NONE" =>
                    order.status = IF field = "confirmOrder" THEN "CONFIRMED" ELSE "CANCELLED"
              /\ code = "ORDER_NOT_PENDING" => order.status \in {"CONFIRMED", "CANCELLED"}

(* The fields of a mutation are serial to the last nested read: the product of a line is read
   after the mutation that first shows it and before the next one starts.  (A later mutation of
   the same request that shows the product again shows what was read then.) *)
NestedReadsAreSerial ==
    \A r \in Requests : pc[r] \in {"running", "done"} /\ doc[r].kind = "mutation" =>
        \A i, j \in Roots(r) : \A key \in RootKeys(r, j) :
            /\ thunks[r][key].state = "ready"
            /\ \A k \in 1..(j - 1) : key \notin RootKeys(r, k)
            /\ doc[r].roots[i].field = "createOrder" /\ root[r][i].code = "OK"
            => (NewId(r, i) \in thunks[r][key].saw <=> i <= j)

(* No null where the schema forbids it, and no null without a reason: an answer whose data is null
   has an error, at or below a root field that may not be null. *)
NullsAreExplained ==
    \A r \in Requests : pc[r] = "done" =>
        LET data == Data(r)
            blamed(i) == \E e \in Errors(r) : e.root = i
            nonNull(i) == RootFields[doc[r].roots[i].field].nonNull
        IN
        /\ data = Null <=> \E i \in Roots(r) : nonNull(i) /\ blamed(i)
        /\ \A shown \in data, i \in Roots(r) :
              /\ shown[i] = Null => blamed(i) \/ doc[r].roots[i].field = "me"
              /\ nonNull(i) => shown[i] # Null
              /\ FieldType(r, i) = "OrderPage" /\ Selects(r, "OrderPage", "items") =>
                    \A page \in shown[i] : \A list \in page.items : Null \notin list

(* The orders that root field i has returned, alone or on a page. *)
OrdersShown(r, i) ==
    Objects(r, i, "Order") \cup UNION {page.items : page \in Objects(r, i, "OrderPage")}

(* The order was not asked for by an id in another spelling than the server's. *)
AskedByServersId(r, i) ==
    LET asked == doc[r].roots[i] IN
    asked.field \in {"confirmOrder", "cancelOrder", "order"} => asked.arg \in OrderIds

(* What a client was shown of an order stays true for ever: who owns it, for which product each
   line is, how many at which price, and that it is confirmed or cancelled (order.go:13-31, 60-78;
   README "Soft delete").  A new order is shown from memory, with the ids the client wrote; later
   it is read from its rows; in between anybody may settle it, under any spelling of its id, and
   prices change.  Only who asks by another spelling is shown no lines (order_repo.go:64). *)
ShownOrdersStayTrue ==
    \A r \in Requests : pc[r] \in {"running", "done"} => \A i \in Roots(r) :
        \A order \in OrdersShown(r, i) :
            LET entry == orders[order.id]
                lines == {[item EXCEPT !.product = ProductOf[@]] : item \in order.items}
            IN
            /\ entry.user = order.user
            /\ order.status # "PENDING" => entry.status = order.status
            /\ lines = IF AskedByServersId(r, i) THEN StoredItems(entry) ELSE {}

(* Every operation is answered: no field waits for ever for its turn or for a loader. *)
EveryOperationAnswered == \A r \in Requests : pc[r] = "running" ~> pc[r] = "done"

(* A loader misses a product only if there is none: FindByIDs returns every product that exists
   for the given ids, and leaves out those that do not exist (domain/ports.go:39-40). *)
ExistingProductIsFound ==
    \A r \in Requests, ref \in ProductRefs :
        thunks[r][<<"product", ref>>].code = "PRODUCT_NOT_FOUND" => ProductOf[ref] = None

=============================================================================
