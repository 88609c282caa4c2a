SPECIFICATION Spec
CONSTANTS
    Ids = {i1, i2}
    SeriesIds = {r1}
    Plans <- TwoDays
    MaxRecurring = 2
    LastDay = 0
    Retention = 0
    Kinds <- SeriesOnly
    Purges = FALSE
    Handlers = {h1, h2}
    Workers = {}
    MaxFaults = 0
    None = None
INVARIANT FutureBookingsGone
CHECK_DEADLOCK FALSE
