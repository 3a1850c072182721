SPECIFICATION Safety
CONSTANTS
    r1 = r1
    r2 = r2
    r3 = r3
    u1 = u1
    u2 = u2
    None = None
    Requests = {r1, r2}
    Users = {u1}
    Products <- CatalogProducts
    ProductRefs <- SpelledRefs
    ProductOf <- SpelledOf
    Baskets <- WrappingBaskets
    Spellings <- AnySpelling
    InitStock <- SpelledStock
    Prices = {1}
    IntMax = 7
    Int4Max = 3
    MaxConns = 2
SYMMETRY Symmetry
CHECK_DEADLOCK FALSE
INVARIANT OrderAsRequested
