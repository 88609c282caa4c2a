SPECIFICATION Spec
CONSTANTS
    Ids = {i1, i2}
    Spaces = {s1, s2}
    ApprovalSpaces = {s2}
    Users = {u1, u2}
    Admins = {u2}
    CalendarUsers = {}
    NoAdminRestrictions = TRUE
    MaxPerUser = 1
    MaxUpcoming = 2
    MaxConcurrent = 1
    Slots <- WithinAndReversed
    Handlers = {h1}
    Workers = {}
    MaxFaults = 0
    None = None
INVARIANT NoDoubleBooking
PROPERTIES KeepsThePromise ApprovalIsKept
CHECK_DEADLOCK FALSE
