\* Violated: the client's correlation id, in main's chain.
CONSTANTS
    r1 = r1
    r2 = r2
    slash = slash
    param = param
    none = none
    get = get
    options = options
    jobs = jobs
    stats = stats
    chat = chat
    id = id
    reader = reader
    writer = writer
    acme = acme
    beta = beta
    evil = evil
    ann = ann
    mallory = mallory
    listed = listed
    foreign = foreign
    theirs = theirs
    fresh1 = fresh1
    k1 = k1
    k2 = k2
    Request <- MCRequest
    Routes <- MCRoutes
    Slash = slash
    Param = param
    None = none
    Configs <- MCConfigs
    Arrivals <- MCArrivals
    Options = options
    Directory <- MCDirectory
    Fresh = fresh1
    Kid = {k1, k2}
    Steady = {k1}
SPECIFICATION Spec
INVARIANTS
    IdsKept
CHECK_DEADLOCK FALSE
