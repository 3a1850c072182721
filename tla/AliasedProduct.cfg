SPECIFICATION Spec
CONSTANTS
    r1 = r1
    r2 = r2
    u1 = u1
    u2 = u2
    gone = gone
    None = None
    Requests = {r1}
    Users = {u1, u2}
    Callers <- MCCallers
    Products = {1}
    ProductRefs = {0, 1}
    ProductOf <- SpelledOf
    Documents <- SpelledDocuments
    Earlier <- MCEarlier
    OrderRefs <- MCOrderRefs
    OrderOf <- MCOrderOf
    InitStock <- SpelledStock
    Prices = {1}
    Int4Max = 2
    Purchases <- SpelledPurchases
    MaxRoots = 1
    Limit = 30
CHECK_DEADLOCK FALSE
INVARIANT ExistingProductIsFound
