CONSTANTS
    p1 = p1
    p2 = p2
    g1 = g1
    g2 = g2
    None = None
    Pod = {p1, p2}
    PgSlot = {g1, g2}
    PgHome <- MCPgHome
    MaxGoroutines = 1
    MaxEvents = 2
    AutoACK = TRUE
    MaxMessages = 2
    MaxTroubles = 2
    Deployments <- MCDeployments
    Signalled = {p1}
    MaxRequests = 1
    MaxSignals = 2
SPECIFICATION Spec
INVARIANTS OneHandlerPerEvent DetailNotOlder OneStraggler NoMessageSkipped SuccessIsClean CrashOnlyBeforeServe
PROPERTIES SignalEnds
CHECK_DEADLOCK FALSE
