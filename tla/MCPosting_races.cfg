\* Two handlers of three users reply, moderate and purge one hole that may
\* change division; every handler answers.
SPECIFICATION FairSpec
CONSTANTS
    u1 = u1
    u2 = u2
    d1 = d1
    Users = {u1, u2, u3}
    Admins = {u2}
    Holes = {h1}
    Requests = {r1, r2}
    Divisions = {d1, d2}
    HolePurgeDivisions = {d1}
    NoPurge = {}
    BanDivision <- BanU2
    AnonyNames = {n1, n2}
    CodedNames = {c1, c2}
    MaxReply = 2
    Purger = Purger
    None = None
INVARIANTS
    IInv
PROPERTIES
    ImplementsThread
    PurgeOnlyTargets
    RequestsEnd
\* The system may stop: every hole deleted or full, no handler running.
CHECK_DEADLOCK FALSE
