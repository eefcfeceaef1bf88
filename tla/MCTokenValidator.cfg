\* Every form of configuration, and tokens that differ from good and forged ones.
CONSTANTS
    mistyped = mistyped
    down = down
    Mistyped = mistyped
    AbsoluteURL <- MCAbsoluteURL
    LookupURL = {}
    SetEnv = {}
    Readable = {}
    Configs <- MCConfigs
    Tokens <- MCTokens
    URLs <- MCURLs
    KeySets <- MCKeySets
    Down = down
    Now <- MCNow
    NoExp <- MCNoExp
SPECIFICATION Spec
INVARIANTS
    TypeOK
    PassesExactlyValid
    ClaimsJudgedAfterSignature
CHECK_DEADLOCK FALSE
