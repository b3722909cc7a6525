CONSTANTS
    None = None
    Worker = worker
    Admin = admin
    c1 = c1
    c2 = c2
    o1 = o1
    o2 = o2
    Conn = {c1, c2}
    Op = {o1, o2}
    Views <- MCViews
    Id = {1}
    MaxClient = 1
SPECIFICATION Spec
INVARIANTS SubscriberLimit NoClosedChannel LoneViewServed
PROPERTY ClosedIsReleased
CHECK_DEADLOCK FALSE
