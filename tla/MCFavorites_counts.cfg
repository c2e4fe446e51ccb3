\* One user who sends three requests and deletes two groups, in any overlap.
SPECIFICATION Spec
CONSTANTS
    Users = {u1}
    Holes = {h1, h2}
    Requests = {r1, r2, r3}
    Deleters = {d1, d2}
    MaxGroupPerUser = 3
    None = None
SYMMETRY HandlerSymmetry
INVARIANTS
    IInv
    CountsExact
    RowsReachable
\* Every handler has answered.
CHECK_DEADLOCK FALSE
