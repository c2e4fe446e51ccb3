\* Two requests while the hole grows from version 4 to version 8; five of its
\* floors are sent; one replica of the database.
SPECIFICATION SummarySpec
CONSTANTS
    Requests = {r1, r2}
    Replicas = {s1}
    SummarySteps = 2
    SummaryReplyBoundary1 = 4
    SummaryReplyBoundary2 = 8
    SummaryReplyBoundary3 = 20
    MaxSummaryFloors = 5
    FirstReply = 7
    FirstLike <- SomeLikes
    MaxReply = 8
    MaxChange = 1
    Touched = {3, 8}
    MaxServed = 3
SYMMETRY RequestSymmetry
INVARIANTS
    SummaryIInv
    SummaryCurrent
    HeldNotSent
PROPERTIES
    SummaryKept
    VersionsGrow
\* Every request is answered.
CHECK_DEADLOCK FALSE
