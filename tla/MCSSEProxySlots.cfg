\* Three requests of one tenant, on two routes, compete for two slots.
CONSTANTS
    r1 = r1
    r2 = r2
    r3 = r3
    acme = acme
    chat = chat
    feed = feed
    Request <- MCRequest3
    Tenant = {acme}
    Route = {chat, feed}
    TenantOf <- MCTenantOf3
    RouteOf <- MCRouteOf3
    MaxPerTenant = 2
    Timed = {r3}
    Flushable = FALSE
    Chunks = 0
SPECIFICATION Spec
SYMMETRY MCSymmetry12
INVARIANTS
    TypeOK
    SlotLimit
    CountExact
    GaugeExact
    ErrorsExact
PROPERTIES
    ImplementsPool
CHECK_DEADLOCK FALSE
