SPECIFICATION Spec
CONSTANTS
    r1 = r1
    r2 = r2
    r3 = r3
    c1 = c1
    c2 = c2
    None = None
    Requests = {r1, r2, r3}
    Clients = {c1, c2}
    Addresses = {c1, c2}
    AddressOf <- MCAddressOf
    Texts <- MCTexts
    Emails <- MCEmails
    Written <- MCWritten
    Normal <- MCNormal
    Passwords = {"p1", "short"}
    GoodPasswords = {"p1"}
    PerMinute = 1
    Minute = 2
    MaxTime = 2
    Second = 2
    AccessTTL = 2
    RefreshTTL = 4
SYMMETRY Symmetry
CHECK_DEADLOCK FALSE
INVARIANT TypeOK
INVARIANT OneAccountPerEmail
INVARIANT NoSessionWithoutAccount
INVARIANT CallerHasProved
INVARIANT GuessesBounded
INVARIANT LoginTellsNothing
INVARIANT WindowBound
INVARIANT RefusedOnlyWhenSpent
