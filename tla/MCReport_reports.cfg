\* Three reports of two users on one floor, two admins in the list, two handlers
\* who deal with reports; MaxInt is small enough for the counter to wrap.
SPECIFICATION Spec
CONSTANTS
    Requests = {r1, r2, r3}
    Dealers = {d1, d2}
    Users = {u1, u2}
    Floors = {f1}
    Admins = 2
    MaxInt = 2
SYMMETRY RequestSymmetry
INVARIANTS
    IInv
    AdminPicked
    DealtSeen
    NoReasonLost
\* Every handler has answered.
CHECK_DEADLOCK FALSE
