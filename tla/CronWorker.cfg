CONSTANTS
    r1 = r1
    r2 = r2
    j1 = j1
    g1 = g1
    g2 = g2
    NoJob = NoJob
    Runtime = {r1, r2}
    Job = {j1}
    Goroutine = {g1, g2}
    Home <- MCHome
    Repeat <- MCRepeat
    MaxGoroutines = 1
    MaxCrashes = 1
SPECIFICATION FairSpec
INVARIANTS OneHandlerPerJob NoOrphanKey ShutdownDrains
PROPERTIES JobKeepsRunning ShutdownReturns
CHECK_DEADLOCK FALSE
