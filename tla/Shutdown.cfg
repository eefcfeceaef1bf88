\* Three requests and two plugins meet a signal.
CONSTANTS
    Request = {r1, r2, r3}
    Plugins = 2
SPECIFICATION FairSpec
INVARIANTS
    ShutdownTypeOK
    PluginsOutliveRequests
PROPERTIES
    SignalStops
CHECK_DEADLOCK FALSE
