SPECIFICATION Spec
CONSTANTS
    Ids = {i1, i2}
    Spaces = {s1}
    ApprovalSpaces = {}
    Users = {u1}
    Admins = {}
    CalendarUsers = {u1}
    NoAdminRestrictions = FALSE
    MaxPerUser = 0
    MaxUpcoming = 3
    MaxConcurrent = 0
    Slots <- TwoAndBoth
    Handlers = {h1}
    Workers = {w1, w2}
    MaxFaults = 0
    None = None
INVARIANT NoDoubleBooking
CHECK_DEADLOCK FALSE
