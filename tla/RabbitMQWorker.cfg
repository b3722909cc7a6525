CONSTANTS
    r1 = r1
    r2 = r2
    m1 = m1
    m2 = m2
    q1 = q1
    g1 = g1
    g2 = g2
    g3 = g3
    None = None
    Runtime = {r1, r2}
    Message = {m1, m2}
    Queue = {q1}
    Goroutine = {g1, g2, g3}
    Home <- MCHome
    QueueOf <- MCQueueOf
    AutoACK <- MCAutoACK
    Prefetch = 2
    MaxStops = 2
SPECIFICATION FairSpec
INVARIANT NoMessageLost
PROPERTY MessageHandled
CHECK_DEADLOCK FALSE
