CONSTANTS
    u1 = u1
    Request = {r1, r2}
    Url = {u1}
    Buffer = {b1, b2}
    Profile <- MCProfile
    None = none
SPECIFICATION RestSpec
INVARIANT BodyIntact
CHECK_DEADLOCK FALSE
