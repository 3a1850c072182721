SPECIFICATION Spec
CONSTANTS
    r1 = r1
    r2 = r2
    u1 = u1
    u2 = u2
    gone = gone
    None = None
    Requests = {r1, r2}
    Users = {u1, u2}
    Callers <- MCCallers
    Products = {1, 2}
    ProductRefs = {1, 2, 3}
    ProductOf <- MCOf
    Documents <- MCDocuments
    Earlier <- MCEarlier
    OrderRefs <- MCOrderRefs
    OrderOf <- MCOrderOf
    InitStock <- MCStock
    Prices = {1}
    Int4Max = 2
    Purchases <- MCPurchases
    MaxRoots = 3
    Limit = 45
CHECK_DEADLOCK FALSE
INVARIANT TypeOK
INVARIANT RowsWereCurrent
INVARIANT OnlyOwnOrders
INVARIANT ClientKnowsWhatCommitted
INVARIANT NestedReadsAreSerial
INVARIANT NullsAreExplained
PROPERTY EveryOperationAnswered
INVARIANT ShownOrdersStayTrue
