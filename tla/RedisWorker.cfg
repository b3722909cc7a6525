CONSTANTS
    r1 = r1
    r2 = r2
    m1 = m1
    k1 = k1
    g1 = g1
    g2 = g2
    None = None
    Runtime = {r1, r2}
    Message = {m1}
    Key = {k1}
    Goroutine = {g1, g2}
    Home <- MCHome
    MaxDeletes = 1
    MaxLosses = 1
SPECIFICATION FairSpec
INVARIANTS HandledOnce NoOrphanLock
PROPERTY EventHandled
CHECK_DEADLOCK FALSE
