SPECIFICATION Spec
CONSTANTS
    Ids = {i1, i2, i3}
    SeriesIds = {r1, r2}
    Plans <- ShortAndTooLong
    MaxRecurring = 2
    LastDay = 2
    Retention = 0
    Kinds <- AllKinds
    Purges = FALSE
    Handlers = {h1}
    Workers = {}
    MaxFaults = 1
    None = None
INVARIANT SeriesHasRow
CHECK_DEADLOCK FALSE
