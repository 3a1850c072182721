--------------------------------- MODULE Pages --------------------------------
(***************************************************************************)
(* The two listings, myOrders and products (internal/usecase/pagination.go *)
(* and the List operations of the repositories).  A listing is three       *)
(* statements outside any transaction: it counts the rows, selects a page  *)
(* of them and, for orders, loads the items of that page.  Between two of  *)
(* them, and between the pages that a client asks for one after the other, *)
(* orders are placed and prices change.  Orders and products are never     *)
(* deleted.  A cancellation changes no column that a listing depends on.   *)
(***************************************************************************)
EXTENDS Integers, FiniteSets, SequencesExt

CONSTANTS
    Clients,      \* clients, each with one request at a time
    Users,        \* whose orders there are
    OrderIds,     \* bound: the orders ever placed, integers in the order of their ids
    Times,        \* bound: the instants at which they are placed
    Products,     \* integers in the order of the products' names
    Prices,       \* the prices a product may have
    Filters,      \* bound: the filters a client may send
    PageArgs,     \* bound: the pages a client may ask for, None if it names none
    SizeArgs,     \* bound: the page sizes, in the same way
    DefaultSize,  \* defaultPageSize
    MaxSize,      \* maxPageSize
    IntMax,       \* the largest value of a Go int
    None          \* null, nobody

(* A filter names the products whose names match it; a bound of the price may be missing. *)
Filter == [named : SUBSET Products, minPrice : Int \cup {None}, maxPrice : Int \cup {None}]

ASSUME PagesAssumption ==
    /\ None \notin Users /\ None \notin Int
    /\ OrderIds \subseteq Int /\ IsFiniteSet(OrderIds) /\ Cardinality(OrderIds) <= IntMax
    /\ Products \subseteq Int /\ IsFiniteSet(Products) /\ Cardinality(Products) <= IntMax
    /\ Times \subseteq Int /\ Prices \subseteq Nat /\ Filters \subseteq Filter
    /\ IntMax \in Nat \ {0}
    /\ PageArgs \subseteq (-IntMax - 1)..IntMax \cup {None}
    /\ SizeArgs \subseteq (-IntMax - 1)..IntMax \cup {None}
    /\ DefaultSize \in 1..MaxSize /\ MaxSize \in Nat

VARIABLES
    orders,  \* the committed rows of orders
    items,   \* the orders that have their rows in order_items
    price,   \* the committed price of each product
    pc,      \* where the request of each client is
    query,   \* what it asks for
    total,   \* what it has counted
    rows,    \* the ids it has selected
    answer,  \* the page that its client got last
    walk     \* the pages its client asked for one after the other (history)

db == <<orders, items, price>>
request == <<pc, query, total, rows>>
vars == <<db, request, answer, walk>>

-----------------------------------------------------------------------------
(* Page numbers and sizes *)

(* A Go int wraps around. *)
Wrapped(n) == ((n + IntMax + 1) % (2 * (IntMax + 1))) - IntMax - 1

PageOr(arg, default) == IF arg = None THEN default ELSE arg

NormalPage(page) == IF page < 1 THEN 1 ELSE page

(* Variant: a page as large as the client likes. *)
AnySize(size) == IF size < 1 THEN DefaultSize ELSE size

NormalSize(size) ==
    IF size < 1 THEN DefaultSize ELSE IF size > MaxSize THEN MaxSize ELSE size

(* Variant: pages are numbered from zero. *)
FromPageZero(page, size) == Wrapped(page * size)

Offset(page, size) == Wrapped((page - 1) * size)

(* Variant: the division rounds down. *)
WholePages(count, size) == count \div size

TotalPages(count, size) == (count + size - 1) \div size

HasNextPage(count, page, size) == page < TotalPages(count, size)

-----------------------------------------------------------------------------
(* Rows *)

NoOrder == [user |-> None, created |-> 0]

Placed == {o \in OrderIds : orders[o] # NoOrder}

ValidFilter(f) ==
    /\ f.minPrice # None => f.minPrice >= 0
    /\ f.maxPrice # None => f.maxPrice >= 0
    /\ f.minPrice # None /\ f.maxPrice # None => f.minPrice <= f.maxPrice

Satisfies(p, f) ==
    /\ p \in f.named
    /\ f.minPrice # None => price[p] >= f.minPrice
    /\ f.maxPrice # None => price[p] <= f.maxPrice

(* The rows that a query is about. *)
Matching(q) ==
    IF q.list = "myOrders" THEN {o \in Placed : orders[o].user = q.user}
    ELSE {p \in Products : Satisfies(p, q.filter)}

(* ORDER BY created_at DESC, id and ORDER BY name, id *)
Precedes(list, a, b) ==
    IF list = "myOrders"
    THEN \/ orders[a].created > orders[b].created
         \/ orders[a].created = orders[b].created /\ a < b
    ELSE a < b

(* The sequences in which the database may return the rows. *)
Orderings(q) ==
    {s \in SetToSeqs(Matching(q)) :
        \A i, j \in DOMAIN s : i < j => ~Precedes(q.list, s[j], s[i])}

NoFilter == [named |-> Products, minPrice |-> None, maxPrice |-> None]

NoQuery == [list |-> "products", user |-> None, filter |-> NoFilter, page |-> 1, size |-> 1]

NoAnswer == [code |-> "NONE", rows |-> << >>, items |-> {}, total |-> 0, hasNextPage |-> FALSE]

NoWalk == [on |-> FALSE, seen |-> << >>, began |-> {}, since |-> "quiet"]

Init ==
    /\ orders = [o \in OrderIds |-> NoOrder]
    /\ items = {}
    /\ price \in [Products -> Prices]
    /\ pc = [c \in Clients |-> "idle"]
    /\ query = [c \in Clients |-> NoQuery]
    /\ total = [c \in Clients |-> 0]
    /\ rows = [c \in Clients |-> << >>]
    /\ answer = [c \in Clients |-> NoAnswer]
    /\ walk = [c \in Clients |-> NoWalk]

-----------------------------------------------------------------------------
(* Serving a listing *)

(* The variables of a request that has been answered are gone. *)
Forget(c) ==
    /\ total' = [total EXCEPT ![c] = 0]
    /\ rows' = [rows EXCEPT ![c] = << >>]

Refuse(c, code) ==
    /\ pc' = [pc EXCEPT ![c] = "idle"]
    /\ answer' = [answer EXCEPT ![c] = [NoAnswer EXCEPT !.code = code]]
    /\ Forget(c)
    /\ UNCHANGED <<db, query>>

(* A request for page q.page: the first page begins a walk, the page after the last one
   answered continues it, and any other is none. *)
Accept(c, q, continues) ==
    /\ query' = [query EXCEPT ![c] = q]
    /\ pc' = [pc EXCEPT ![c] = "count"]
    /\ walk' = [walk EXCEPT ![c] =
          IF continues THEN @
          ELSE IF q.page = 1 THEN [NoWalk EXCEPT !.on = TRUE, !.began = Matching(q)]
          ELSE NoWalk]
    /\ answer' = [answer EXCEPT ![c] = NoAnswer]
    /\ UNCHANGED <<db, total, rows>>

(* requireUser, pageOr and normalizePagination *)
AskOrders(c) ==
    /\ pc[c] = "idle"
    /\ \E user \in Users \cup {None}, page \in PageArgs, size \in SizeArgs :
          IF user = None THEN /\ Refuse(c, "UNAUTHENTICATED")
                              /\ walk' = [walk EXCEPT ![c] = NoWalk]
          ELSE Accept(c, [NoQuery EXCEPT !.list = "myOrders", !.user = user,
                                         !.page = NormalPage(PageOr(page, 1)),
                                         !.size = NormalSize(PageOr(size, DefaultSize))], FALSE)

(* validateFilter comes before normalizePagination. *)
AskProducts(c) ==
    /\ pc[c] = "idle"
    /\ \E filter \in Filters, page \in PageArgs, size \in SizeArgs :
          IF ~ValidFilter(filter) THEN /\ Refuse(c, "INVALID_FILTER")
                                       /\ walk' = [walk EXCEPT ![c] = NoWalk]
          ELSE Accept(c, [NoQuery EXCEPT !.filter = filter,
                                         !.page = NormalPage(PageOr(page, 1)),
                                         !.size = NormalSize(PageOr(size, DefaultSize))], FALSE)

(* The client asks for the page after the one it got, whatever hasNextPage says. *)
AskNext(c) ==
    /\ pc[c] = "idle" /\ walk[c].on
    /\ answer[c].code = "OK" /\ Len(answer[c].rows) = query[c].size
    /\ query[c].page < IntMax
    /\ Accept(c, [query[c] EXCEPT !.page = @ + 1], TRUE)

(* It asks again for a page that failed. *)
AskAgain(c) ==
    /\ pc[c] = "idle" /\ walk[c].on
    /\ answer[c].code = "INTERNAL_ERROR"
    /\ Accept(c, query[c], TRUE)

(* Variant: the count forgets whose orders it counts. *)
CountedWithoutWhere(q) == IF q.list = "myOrders" THEN Placed ELSE Matching(q)

Counted(q) == Matching(q)

Count(c) ==
    /\ pc[c] = "count"
    /\ total' = [total EXCEPT ![c] = Cardinality(Counted(query[c]))]
    /\ pc' = [pc EXCEPT ![c] = "select"]
    /\ UNCHANGED <<db, query, rows, answer, walk>>

Deliver(c, ids, withItems) ==
    /\ pc' = [pc EXCEPT ![c] = "idle"]
    /\ answer' = [answer EXCEPT ![c] =
          [code |-> "OK", rows |-> ids, items |-> withItems, total |-> total[c],
           hasNextPage |-> HasNextPage(total[c], query[c].page, query[c].size)]]
    /\ walk' = [walk EXCEPT ![c].seen = IF walk[c].on THEN @ \o ids ELSE @]
    /\ Forget(c)
    /\ UNCHANGED <<db, query>>

(* A negative offset is an error of the statement. *)
Select(c) ==
    LET offset == Offset(query[c].page, query[c].size) IN
    /\ pc[c] = "select"
    /\ \/ /\ offset < 0
          /\ Refuse(c, "INTERNAL_ERROR")
          /\ UNCHANGED walk
       \/ /\ offset >= 0
          /\ \E s \in Orderings(query[c]) :
                LET ids == SubSeq(s, offset + 1, Min({offset + query[c].size, Len(s)})) IN
                IF query[c].list = "myOrders" /\ ids # << >>
                THEN /\ pc' = [pc EXCEPT ![c] = "items"]
                     /\ rows' = [rows EXCEPT ![c] = ids]
                     /\ UNCHANGED <<db, query, total, answer, walk>>
                ELSE Deliver(c, ids, {})

(* Variant: the items of one order only. *)
FirstOnly(ids) == items \cap {ids[1]}

(* itemsByOrderIDs: the orders of the page that it finds items for. *)
ItemsOf(ids) == items \cap Range(ids)

LoadItems(c) ==
    /\ pc[c] = "items"
    /\ Deliver(c, rows[c], ItemsOf(rows[c]))

StatementFails(c) ==
    /\ pc[c] # "idle"
    /\ Refuse(c, "INTERNAL_ERROR")
    /\ UNCHANGED walk

-----------------------------------------------------------------------------
(* What others do to the rows meanwhile *)

(* The worst that has happened, since a walk began, to the rows it is about. *)
Worst(q, since) ==
    IF since = "shrunk" \/ ~(Matching(q) \subseteq Matching(q)') THEN "shrunk"
    ELSE IF Matching(q) = Matching(q)' THEN since ELSE "grown"

Disturb ==
    walk' = [c \in Clients |-> [walk[c] EXCEPT !.since = Worst(query[c], @)]]

(* A createOrder commits: the order and its items appear together.  Its created_at is what the
   clock of the process said some time before, so it may be earlier than that of an order which
   has committed already, or the same. *)
PlaceOrder(o) ==
    /\ orders[o] = NoOrder
    /\ \E user \in Users, created \in Times :
          orders' = [orders EXCEPT ![o] = [user |-> user, created |-> created]]
    /\ items' = items \cup {o}
    /\ UNCHANGED <<price, request, answer>>
    /\ Disturb

(* Nothing in the service writes prices; an operator may. *)
Reprice(p) ==
    /\ \E x \in Prices \ {price[p]} : price' = [price EXCEPT ![p] = x]
    /\ UNCHANGED <<orders, items, request, answer>>
    /\ Disturb

Next ==
    \/ \E c \in Clients :
          \/ AskOrders(c)
          \/ AskProducts(c)
          \/ AskNext(c)
          \/ AskAgain(c)
          \/ Count(c)
          \/ Select(c)
          \/ LoadItems(c)
          \/ StatementFails(c)
    \/ \E o \in OrderIds : PlaceOrder(o)
    \/ \E p \in Products : Reprice(p)

(* A request that is being served gets its answer; clients, buyers and operators need not act. *)
Fairness == \A c \in Clients : WF_vars(Count(c) \/ Select(c) \/ LoadItems(c))

Safety == Init /\ [][Next]_vars
Spec == Safety /\ Fairness

-----------------------------------------------------------------------------
(* Properties *)

Query == [list : {"myOrders", "products"}, user : Users \cup {None}, filter : Filters \cup {NoFilter},
          page : 1..IntMax, size : 1..MaxSize]

(* The type of every variable; in particular the page that reaches a repository is at least one,
   and no page is longer than maxPageSize (pagination.go:34-45). *)
TypeOK ==
    /\ orders \in [OrderIds -> {NoOrder} \cup [user : Users, created : Times]]
    /\ items \subseteq OrderIds
    /\ price \in [Products -> Prices]
    /\ pc \in [Clients -> {"idle", "count", "select", "items"}]
    /\ query \in [Clients -> Query]
    /\ \A c \in Clients :
          /\ total[c] \in Nat
          /\ rows[c] \in Seq(OrderIds \cup Products) /\ Len(rows[c]) <= MaxSize
          /\ walk[c].since \in {"quiet", "grown", "shrunk"}

(* The last answer is the page that query[c] asks for. *)
Answered(c) == pc[c] = "idle" /\ answer[c].code = "OK"

(* A client that asks for page after page until one is not full has then seen every order that
   it had when it began, though orders are placed meanwhile and some of them sort before those it
   has seen: offsets (order_repo.go:77-79, product_repo.go:42-44) show a row twice but skip none. *)
WalkMissesNothing ==
    \A c \in Clients :
        /\ Answered(c) /\ walk[c].on /\ Len(answer[c].rows) < query[c].size
        /\ walk[c].since # "shrunk"
        => walk[c].began \subseteq Range(walk[c].seen)

(* While nothing is written the pages partition the rows: each is seen once and in order, the
   total is their number and hasNextPage says exactly whether some are still to come
   (pagination.go:18-30), at the last page and when the total is a multiple of the size too. *)
QuietWalkIsExact ==
    \A c \in Clients :
        /\ Answered(c) /\ walk[c].on /\ walk[c].since = "quiet"
        => /\ IsInjective(walk[c].seen)
           /\ \E s \in Orderings(query[c]) : IsPrefix(walk[c].seen, s)
           /\ answer[c].total = Cardinality(walk[c].began)
           /\ answer[c].hasNextPage <=> Len(walk[c].seen) < answer[c].total

(* A page that announces another is full, and its total counts no more rows than there are: what
   is placed between the count and the select (order_repo.go:73, 77) can only add rows. *)
AnnouncedPageExists ==
    \A c \in Clients :
        /\ Answered(c) /\ walk[c].since # "shrunk"
        /\ answer[c].hasNextPage
        => /\ Len(answer[c].rows) = query[c].size
           /\ query[c].page * query[c].size < Cardinality(Matching(query[c]))

(* An order is listed to nobody but its owner, once in a page, and with its items, though these
   are loaded by a statement of their own (order_repo.go:100). *)
OwnWholeOrders ==
    \A c \in Clients :
        /\ Answered(c) /\ query[c].list = "myOrders"
        => /\ \A o \in Range(answer[c].rows) : orders[o].user = query[c].user
           /\ IsInjective(answer[c].rows)
           /\ answer[c].items = Range(answer[c].rows)

(* What pagination.go:26 says of hasNextPage, for a client that relies on it: where it says that
   there is no next page, the client has seen every order it had when it began. *)
NoNextPageMeansAllSeen ==
    \A c \in Clients :
        /\ Answered(c) /\ query[c].list = "myOrders"
        /\ walk[c].on /\ ~answer[c].hasNextPage
        => walk[c].began \subseteq Range(walk[c].seen)

=============================================================================
