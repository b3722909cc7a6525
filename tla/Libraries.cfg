CONSTANTS
    Elem = {e1, e2}
    Zero = zero
    MinQueueLen = 2
    MaxLen = 7
    Capacities <- MCCapacities
    BitAnd <- MCBitAnd
    c1 = c1
    c2 = c2
    c3 = c3
    c4 = c4
    Call = {c1, c2, c3, c4}
    Method <- MCMethod
    MaxResets = 1
    m1 = m1
    m2 = m2
    m2x = m2x
    Module = {m1, m2}
    Clean <- MCClean
    UsecaseName <- MCUsecaseName
    Menu <- MCMenu
    Stack <- MCStack
    MaxCommands = 3
    u1 = u1
    u2 = u2
    Request = {r1, r2}
    Url = {u1, u2}
    Buffer = {b1, b2}
    Profile <- MCProfile
    None = none
    ta = ta
    tb = tb
    Task = {ta, tb}
    NumStoreJobs = 2
    TaskOf <- MCTaskOf
    MaxStoreOps = 6
    Null = null
SPECIFICATION LibrariesSpec
INVARIANTS OneHolder NoLostWakeup BuildsExactly AskedIsServed LoggedIsAnswered CachedIsProduced StoresAgree CountersExact AcceptedIsStored
PROPERTIES ImplementsFifo LockReturns
CHECK_DEADLOCK FALSE
