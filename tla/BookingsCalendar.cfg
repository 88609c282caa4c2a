SPECIFICATION FairSpec
CONSTANTS
    Ids = {i1}
    Spaces = {s1}
    ApprovalSpaces = {s1}
    Users = {u1, u2}
    Admins = {u1}
    CalendarUsers = {u1, u2}
    NoAdminRestrictions = FALSE
    MaxPerUser = 0
    MaxUpcoming = 2
    MaxConcurrent = 0
    Slots <- OneSlot
    Handlers = {h1}
    Workers = {w1, w2}
    MaxFaults = 1
    None = None
INVARIANT RecordedEventExists
PROPERTY ReachesCalendar
CHECK_DEADLOCK FALSE
