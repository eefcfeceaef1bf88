\* Three requests with one token, whose license ends or is renewed.
CONSTANTS
    r1 = r1
    r2 = r2
    r3 = r3
    gold = gold
    Request <- MCRequest
    Token = {gold}
    TokenOf <- MCTokenOf
    MaxSize = 1
    TTL = 1
    Timeout = 1
    MaxAttempts = 2
    Prompt = TRUE
    Horizon = 3
    Versions = 2
SPECIFICATION FairSpec
INVARIANTS
    TypeOK
PROPERTIES
    ImplementsRecentAnswers
    CheckEnds
CHECK_DEADLOCK FALSE
