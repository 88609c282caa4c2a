SPECIFICATION Spec
CONSTANTS
    Ids = {i1, i2, i3}
    Spaces = {s1, s2}
    ApprovalSpaces = {s1, s2}
    Users = {u1, u2}
    Admins = {}
    CalendarUsers = {}
    NoAdminRestrictions = FALSE
    MaxPerUser = 1
    MaxUpcoming = 2
    MaxConcurrent = 1
    Slots <- ShortAndLong
    Handlers = {h1, h2}
    Workers = {}
    MaxFaults = 0
    None = None
SYMMETRY Symmetry
INVARIANTS TypeOK OverlapBound ClaimBound CapacityBound ActiveClaimBound UserBound
PROPERTY GoneStaysGone
CHECK_DEADLOCK FALSE
