SPECIFICATION Safety
CONSTANTS
    r1 = r1
    r2 = r2
    r3 = r3
    u1 = u1
    u2 = u2
    None = None
    Requests = {r1, r2, r3}
    Users = {u1, u2}
    Products <- CatalogProducts
    ProductRefs <- CatalogRefs
    ProductOf <- CatalogOf
    Baskets <- CatalogBaskets
    Spellings <- CanonicalOnly
    InitStock <- CatalogStock
    Prices = {1}
    IntMax = 3
    Int4Max = 2
    MaxConns = 3
SYMMETRY Symmetry
CHECK_DEADLOCK FALSE
INVARIANT StockConserved
INVARIANT NoWaitCycle
INVARIANT OneTransitionWins
INVARIANT OrderAsRequested
INVARIANT AnswerIsTrue
INVARIANT NothingLeaks
PROPERTY ImplementsOrderBook
