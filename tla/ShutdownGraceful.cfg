\* Violated: main returns while the signal goroutine is still draining.
CONSTANTS
    Request = {r1, r2, r3}
    Plugins = 2
SPECIFICATION ShutdownSpec
INVARIANTS
    GracefulExit
CHECK_DEADLOCK FALSE
