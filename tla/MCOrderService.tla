---------------------------- MODULE MCOrderService ----------------------------
(***************************************************************************)
(* Small instances of OrderService for TLC.                                *)
(***************************************************************************)
EXTENDS OrderService, TLC

CONSTANTS r1, r2, r3, u1, u2

L(ref, quantity) == [ref |-> ref, quantity |-> quantity]

Symmetry == Permutations(Requests) \cup Permutations(Users)

-----------------------------------------------------------------------------
(* Two products that clients name as the server does, one string that names none. *)

CatalogProducts == {1, 2}
CatalogRefs == {1, 2, 3}
CatalogOf == 1 :> 1 @@ 2 :> 2 @@ 3 :> None
CatalogStock == 1 :> 2 @@ 2 :> 1

(* The two products in either order, and one of them twice. *)
CatalogBaskets ==
    { << L(1, 1), L(2, 1) >>, << L(2, 1), L(1, 1) >>, << L(1, 1), L(1, 1) >> }

(* For liveness: every order takes both products. *)
CrossedBaskets == { << L(2, 1), L(1, 1) >> }

CanonicalOnly == {"canonical"}

-----------------------------------------------------------------------------
(* Clients that spell ids as they like, and quantities at the limits.  Strings 1 and 2 are what
   the server sends for the products; 0 also names product 2 (a UUID may be written in upper
   case) and sorts before 1; 3 names no product. *)

SpelledRefs == 0..3
SpelledOf == 0 :> 2 @@ 1 :> 1 @@ 2 :> 2 @@ 3 :> None
SpelledStock == 1 :> 1 @@ 2 :> 2

(* With Int4Max = 3 and IntMax = 7: two baskets that lock the products in opposite orders, one
   product under two spellings, an unknown product after a known one, a quantity beyond INTEGER,
   quantities whose sum wraps to -2 and to 1, a quantity that is refused at once, and no line. *)
SpelledBaskets ==
    { << L(1, 1), L(2, 1) >>, << L(0, 1), L(1, 1) >>, << L(0, 1), L(2, 1) >>,
      << L(2, 1), L(3, 1) >>, << L(1, 5) >>, << L(1, 7), L(1, 7) >>,
      << L(1, 7), L(1, 7), L(1, 3) >>, << L(1, 0) >>, << >> }

AnySpelling == {"canonical", "other"}

(* Three quantities of Go int whose sum wraps to 1. *)
WrappingBaskets == { << L(1, 7), L(1, 7), L(1, 3) >> }

=============================================================================
