-------------------------------- MODULE MCPages -------------------------------
(***************************************************************************)
(* A small instance of Pages for TLC.                                      *)
(***************************************************************************)
EXTENDS Pages, TLC

CONSTANTS c1, u1, u2

MCFilters ==
    {NoFilter,
     [NoFilter EXCEPT !.minPrice = 2],
     [named |-> {1}, minPrice |-> 1, maxPrice |-> 1],
     [NoFilter EXCEPT !.minPrice = 2, !.maxPrice = 1],
     [NoFilter EXCEPT !.maxPrice = -1],
     [NoFilter EXCEPT !.minPrice = -1]}

Accounts == Permutations({u1, u2})

=============================================================================
