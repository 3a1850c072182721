SPECIFICATION Safety
CONSTANTS
    r1 = r1
    r2 = r2
    r3 = r3
    u1 = u1
    u2 = u2
    None = None
    Requests = {r1, r2}
    Users = {u1}
    Products <- CatalogProducts
    ProductRefs <- CatalogRefs
    ProductOf <- CatalogOf
    Baskets <- CatalogBaskets
    Spellings <- AnySpelling
    InitStock <- CatalogStock
    Prices = {1}
    IntMax = 3
    Int4Max = 2
    MaxConns = 2
SYMMETRY Symmetry
CHECK_DEADLOCK FALSE
INVARIANT StockConserved
