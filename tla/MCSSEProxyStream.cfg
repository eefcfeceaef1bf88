\* Two streams of one tenant compete for one slot; the first one's route has a deadline.
CONSTANTS
    r1 = r1
    r2 = r2
    r3 = r3
    acme = acme
    chat = chat
    feed = feed
    Request <- MCRequest2
    Tenant = {acme}
    Route = {chat}
    TenantOf <- MCTenantOf2
    RouteOf <- MCRouteOf2
    MaxPerTenant = 1
    Timed = {r1}
    Flushable = TRUE
    Chunks = 2
SPECIFICATION FairSpec
INVARIANTS
    FlushedWhileWaiting
    DeliveredInFull
PROPERTIES
    DisconnectFrees
    TimedRequestEnds
CHECK_DEADLOCK FALSE
