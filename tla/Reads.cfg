SPECIFICATION Spec
CONSTANTS
    c1 = c1
    u1 = u1
    u2 = u2
    None = None
    Clients = {c1}
    Users = {u1, u2}
    OrderIds = {1, 2, 3}
    Times = {1, 2}
    Products = {1, 2}
    Prices = {1, 2}
    Filters <- MCFilters
    PageArgs = {None, 0, 2, 7}
    SizeArgs = {None, 1, 5}
    DefaultSize = 2
    MaxSize = 3
    IntMax = 7
SYMMETRY Accounts
CHECK_DEADLOCK FALSE
INVARIANT TypeOK
INVARIANT WalkMissesNothing
INVARIANT QuietWalkIsExact
INVARIANT AnnouncedPageExists
INVARIANT OwnWholeOrders
