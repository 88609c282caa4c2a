SPECIFICATION Spec
CONSTANTS
    Ids = {i1, i2, i3}
    Spaces = {s1, s2, s3}
    ApprovalSpaces = {}
    Users = {u1}
    Admins = {}
    CalendarUsers = {}
    NoAdminRestrictions = FALSE
    MaxPerUser = 0
    MaxUpcoming = 3
    MaxConcurrent = 2
    Slots <- SharedMinute
    Handlers = {h1}
    Workers = {}
    MaxFaults = 0
    None = None
INVARIANT CapacityAtAnyTime
CHECK_DEADLOCK FALSE
