\* More requests than the channel holds, for two holes, one of which does not
\* exist; flushes fail, the server stops in order or crashes, and starts again.
SPECIFICATION FairSpec
CONSTANTS
    Holes = {h1, h2}
    Rows = {h1}
    Requests = {r1, r2, r3}
    MaxChan = 1
    None = None
INVARIANTS
    IInv
PROPERTIES
    ImplementsCounter
    NothingWaitsForEver
