\* Two connections append, delete and boot at once, and one may die anywhere.
SPECIFICATION Spec
CONSTANTS
    Clients = {c1, c2}
    Appenders = {c1, c2}
    Janitors = {c1, c2}
    Booters = {c1, c2}
    Keys = {k1}
    NoKey = NoKey
    Projections = {p1}
    MaxSeq = 3
    MaxCrashes = 1
SYMMETRY Symmetric
INVARIANTS TypeOK OneRowPerKey
PROPERTIES OnlyRacesBreakTheChain LoadBearingKept CompactionSpares CursorMonotone
CHECK_DEADLOCK FALSE
