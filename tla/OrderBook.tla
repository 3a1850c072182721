------------------------------ MODULE OrderBook -------------------------------
(***************************************************************************)
(* What the order use case promises, with no requests, transactions or     *)
(* locks: a shelf of products and a book of orders, on which each          *)
(* operation acts in one step.  OrderService implements it.                *)
(***************************************************************************)
EXTENDS Integers

CONSTANTS
    OrderIds, Users, Products,
    InitStock,    \* the stock each product starts with
    Prices,       \* the prices a product may have
    Int4Max,      \* the largest quantity the database can hold
    None          \* no user

VARIABLES
    stock,    \* units of each product on the shelf
    price,    \* the current price of each product
    orders    \* the book

vars == <<stock, price, orders>>

NoItems == [p \in Products |-> 0]

NoOrder == [status |-> "NONE", user |-> None, quantity |-> NoItems,
            unitPrice |-> NoItems, cancelledAt |-> FALSE]

Init ==
    /\ stock = InitStock
    /\ price \in [Products -> Prices]
    /\ orders = [o \in OrderIds |-> NoOrder]

(* A user buys what is on the shelf, at today's prices. *)
Place(o, user, quantity) ==
    /\ orders[o] = NoOrder
    /\ \E p \in Products : quantity[p] > 0
    /\ \A p \in Products : quantity[p] <= stock[p]
    /\ stock' = [p \in Products |-> stock[p] - quantity[p]]
    /\ orders' = [orders EXCEPT ![o] =
          [status |-> "PENDING", user |-> user, quantity |-> quantity,
           unitPrice |-> [p \in Products |-> IF quantity[p] > 0 THEN price[p] ELSE 0],
           cancelledAt |-> FALSE]]
    /\ UNCHANGED price

Confirm(o) ==
    /\ orders[o].status = "PENDING"
    /\ orders' = [orders EXCEPT ![o].status = "CONFIRMED"]
    /\ UNCHANGED <<stock, price>>

(* The units of a cancelled order go back to the shelf. *)
Cancel(o) ==
    /\ orders[o].status = "PENDING"
    /\ orders' = [orders EXCEPT ![o].status = "CANCELLED", ![o].cancelledAt = TRUE]
    /\ stock' = [p \in Products |-> stock[p] + orders[o].quantity[p]]
    /\ UNCHANGED price

Reprice(p) ==
    /\ \E x \in Prices : price' = [price EXCEPT ![p] = x]
    /\ UNCHANGED <<stock, orders>>

Next ==
    \/ \E o \in OrderIds :
          \/ \E user \in Users, quantity \in [Products -> 0..Int4Max] :
                Place(o, user, quantity)
          \/ Confirm(o)
          \/ Cancel(o)
    \/ \E p \in Products : Reprice(p)

Spec == Init /\ [][Next]_vars

=============================================================================
