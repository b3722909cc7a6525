CONSTANTS
    r1 = r1
    r2 = r2
    w1 = w1
    w2 = w2
    c1 = c1
    c2 = c2
    b1 = b1
    b2 = b2
    None = None
    SQL = FALSE
    Runtime = {r1}
    Worker = {w1, w2}
    Client = {c1}
    Boot = {b1}
    Home <- MCHome
    NumJobs = 2
    MaxCalls = 0
    MaxCrashes = 0
    EarlyCalls = FALSE
    Api = {}
    MaxRetry <- MCMaxRetry
    CronJob = {}
    DeleteAfterSuccess = FALSE
SPECIFICATION Spec
INVARIANT NoJobStranded
CHECK_DEADLOCK FALSE
