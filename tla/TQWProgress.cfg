CONSTANTS
    r1 = r1
    r2 = r2
    w1 = w1
    w2 = w2
    c1 = c1
    c2 = c2
    b1 = b1
    b2 = b2
    None = None
    SQL = TRUE
    Runtime = {r1}
    Worker = {w1}
    Client = {c1, c2}
    Boot = {b1}
    Home <- MCHome
    NumJobs = 2
    MaxCalls = 0
    MaxCrashes = 1
    EarlyCalls = FALSE
    Api = {}
    MaxRetry <- MCMaxRetry
    CronJob = {2}
    DeleteAfterSuccess = TRUE
SPECIFICATION FairSpec
INVARIANTS NothingPending SummaryExact
PROPERTIES EveryJobFinishes CronKeepsRunning
CHECK_DEADLOCK FALSE
