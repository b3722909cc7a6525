CONSTANTS
    r1 = r1
    r2 = r2
    w1 = w1
    w2 = w2
    c1 = c1
    c2 = c2
    b1 = b1
    b2 = b2
    None = None
    SQL = TRUE
    Runtime = {r1}
    Worker = {w1, w2}
    Client = {c1}
    Boot = {b1}
    Home <- MCHome
    NumJobs = 1
    MaxCalls = 1
    MaxCrashes = 0
    EarlyCalls = FALSE
    Api <- AllCalls
    MaxRetry <- MCOneAttempt
    CronJob = {}
    DeleteAfterSuccess = FALSE
SPECIFICATION Spec
SYMMETRY WorkerSymmetry
PROPERTY SuccessIsFinal
CHECK_DEADLOCK FALSE
