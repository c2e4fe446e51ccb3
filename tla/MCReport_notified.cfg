\* Does every handler find an admin?
SPECIFICATION Spec
CONSTANTS
    Requests = {r1, r2, r3}
    Dealers = {}
    Users = {u1}
    Floors = {f1}
    Admins = 2
    MaxInt = 2
SYMMETRY RequestSymmetry
INVARIANTS
    AdminNotified
\* Every handler has answered.
CHECK_DEADLOCK FALSE
