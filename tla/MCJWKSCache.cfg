\* A key that stays and one that is rotated, under overlapping fetches that may fail.
CONSTANTS
    r1 = r1
    r2 = r2
    r3 = r3
    old = old
    new = new
    Request <- MCRequest
    Kid = {old, new}
    KidOf <- MCKidOf
    Steady = {old}
    TTL = 1
    FetchTimeout = 1
    Prompt = TRUE
    Horizon = 3
SPECIFICATION FairSpec
INVARIANTS
    TypeOK
PROPERTIES
    RetiredKeyExpires
    UnknownIsNew
    SteadyKeyServed
    CallReturns
CHECK_DEADLOCK FALSE
