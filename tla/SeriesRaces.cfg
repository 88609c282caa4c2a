SPECIFICATION Spec
CONSTANTS
    Ids = {i1, i2}
    SeriesIds = {r1}
    Plans <- Short
    MaxRecurring = 2
    LastDay = 2
    Retention = 0
    Kinds <- AllButMoves
    Purges = TRUE
    Handlers = {h1, h2}
    Workers = {w1, w2}
    MaxFaults = 0
    None = None
INVARIANTS TypeOK LastBookingTakesSeries
PROPERTY DeletedStaysDeleted
CHECK_DEADLOCK FALSE
