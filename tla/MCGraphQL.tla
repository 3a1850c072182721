------------------------------- MODULE MCGraphQL ------------------------------
(***************************************************************************)
(* Small instances of GraphQL for TLC.                                     *)
(***************************************************************************)
EXTENDS GraphQL, TLC

CONSTANTS r1, r2, u1, u2, gone

MCStock == 1 :> 2 @@ 2 :> 1
MCOf == 1 :> 1 @@ 2 :> 2 @@ 3 :> None

(* A product that a client may also write in upper case, as 0. *)
SpelledStock == 1 :> 2
SpelledPurchases == {1 :> 1}
SpelledOf == 0 :> 1 @@ 1 :> 1

(* An order that a client may also name in upper case. *)
AnEarlierOrder == <<"earlier", 1>>
InUpperCase == <<"EARLIER", 1>>

MCEarlier == {AnEarlierOrder}
MCOrderRefs == OrderIds \cup {InUpperCase}
MCOrderOf == [ref \in MCOrderRefs |-> IF ref = InUpperCase THEN AnEarlierOrder ELSE ref]

Root(field, arg) == [field |-> field, arg |-> arg]

MCPurchases == {1 :> 1 @@ 2 :> 0}

Nothing == [type \in DOMAIN FieldsOf |-> {}]

Everything == [type \in DOMAIN FieldsOf |-> DOMAIN FieldsOf[type]]

(* Selections of an order: all of it, and the product of its items without its owner. *)
WholeOrder == [Everything EXCEPT !["AuthPayload"] = {}, !["ProductPage"] = {}]
ItemsOnly == [Nothing EXCEPT !["OrderPage"] = {"items"}, !["Order"] = {"items"},
                             !["OrderItem"] = {"product"}, !["Product"] = {"stock"}]

Lines(n1, n2, n3) == 1 :> n1 @@ 2 :> n2 @@ 3 :> n3

One == Lines(1, 0, 0)
Both == Lines(1, 1, 0)
Two == Lines(2, 0, 0)

(* Lines 2 and 3 are for more than there is and for no product: the first decides.  A line for
   less than nothing, and one beyond INTEGER. *)
Unknown == Lines(0, 2, 1)
Negative == Lines(1, -1, 0)
Beyond == Lines(3, 0, 0)

Operations ==
    { [kind |-> "mutation", select |-> ItemsOnly,
       roots |-> << Root("createOrder", One), Root("createOrder", Both) >>],
      [kind |-> "mutation", select |-> ItemsOnly,
       roots |-> << Root("cancelOrder", AnEarlierOrder), Root("createOrder", Two) >>],
      [kind |-> "mutation", select |-> [ItemsOnly EXCEPT !["AuthPayload"] = {"user"},
                                                         !["User"] = {"id"}],
       roots |-> << Root("login", None), Root("confirmOrder", AnEarlierOrder) >>],
      [kind |-> "query", select |-> ItemsOnly,
       roots |-> << Root("order", AnEarlierOrder), Root("myOrders", None) >>],
      [kind |-> "query", select |-> WholeOrder, roots |-> << Root("myOrders", None) >>],
      [kind |-> "query", select |-> [Everything EXCEPT !["Order"] = {}],
       roots |-> << Root("me", None), Root("products", None) >>],
      [kind |-> "query", select |-> [Everything EXCEPT !["Order"] = {}],
       roots |-> << Root("product", 1), Root("product", 3) >>],
      (* an order in another spelling, and baskets that are refused *)
      [kind |-> "mutation", select |-> ItemsOnly,
       roots |-> << Root("cancelOrder", InUpperCase), Root("createOrder", Beyond) >>],
      [kind |-> "mutation", select |-> Nothing,
       roots |-> << Root("createOrder", Unknown), Root("createOrder", Negative) >>],
      (* too complex *)
      [kind |-> "mutation", select |-> Everything,
       roots |-> [i \in 1..3 |-> Root("createOrder", One)]] }

(* A second request that only reads. *)
Reading ==
    { [kind |-> "query", select |-> ItemsOnly, roots |-> << Root("order", AnEarlierOrder) >>] }

MCDocuments == r1 :> Operations @@ r2 :> Reading

MCCallers == r1 :> {u1, gone, None} @@ r2 :> {u1}

SpelledDocuments == r1 :>
    { [kind |-> "mutation", select |-> ItemsOnly,
       roots |-> << Root("createOrder", 0 :> 1 @@ 1 :> 0) >>] }

=============================================================================
