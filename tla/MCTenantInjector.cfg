\* Requests for two principals, the tenant of one changing, on a cache of one.
CONSTANTS
    r1 = r1
    r2 = r2
    r3 = r3
    ann = ann
    bob = bob
    acme = acme
    beta = beta
    none = none
    Request <- MCRequest
    Principal = {ann, bob}
    Tenant = {acme, beta}
    Askings <- MCAskings
    NoPrincipal = none
    NoTenant = NoTenant
    Says <- MCSays
    Allowlist = {acme}
    MaxEntries = 1
    TTL = 1
    NegativeTTL = 0
    Timeout = 1
    Prompt = TRUE
    Horizon = 3
    Versions <- MCVersions
SPECIFICATION FairSpec
INVARIANTS
    TypeOK
    CacheCoherent
    AnswersNeverGoBack
PROPERTIES
    ImplementsRecentAnswers
    MissIsAnswered
CHECK_DEADLOCK FALSE
