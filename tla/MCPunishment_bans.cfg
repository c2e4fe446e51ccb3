\* Three handlers punish one user for two floors and two reports.
SPECIFICATION Spec
CONSTANTS
    u1 = u1
    Users = {u1}
    Divisions = {d1, d2}
    Excluded = {d2}
    Floors = {f1, f2}
    Author <- ByOneUser
    Reports = {p1, p2}
    Reporter <- ReportedByOneUser
    Requests = {r1, r2, r3}
    Days = {0, 1, 2}
    Forever = 5
    MaxTime = 2
    None = None
SYMMETRY HandlerSymmetry
INVARIANTS
    IInv
    BanIsSum
PROPERTIES
    ImplementsLedger
\* The clock stops and every handler has answered.
CHECK_DEADLOCK FALSE
