\* Violated: flushing, through the dispatcher's responseRecorder.
CONSTANTS
    r1 = r1
    r2 = r2
    r3 = r3
    acme = acme
    chat = chat
    feed = feed
    Request <- MCRequest1
    Tenant = {acme}
    Route = {chat}
    TenantOf <- MCTenantOf1
    RouteOf <- MCRouteOf1
    MaxPerTenant = 1
    Timed = {}
    Flushable = FALSE
    Chunks = 2
SPECIFICATION Spec
INVARIANTS
    FlushedWhileWaiting
CHECK_DEADLOCK FALSE
