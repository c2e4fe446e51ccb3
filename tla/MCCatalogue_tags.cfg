\* Three requests of any kind on two tags, a hole that has one of them and
\* another that may come, two divisions.
SPECIFICATION CatalogueSpec
CONSTANTS
    n1 = n1
    n2 = n2
    n3 = n3
    h1 = h1
    h2 = h2
    Names = {n1, n2, n3}
    MaxTag = 5
    Holes = {h1, h2}
    Divisions = {d1, d2}
    Handlers = {r1, r2, r3}
    Temps = {2}
    FirstTag <- TwoTags
    FirstTags <- OneHole
    FirstDivision = d1
    None = None
SYMMETRY RequestSymmetry
INVARIANTS
    CatalogueIInv
    TemperatureExact
PROPERTIES
    TagsAsAsked
\* Every handler has answered or waits for ever.
CHECK_DEADLOCK FALSE
