SPECIFICATION ClientSpec
CONSTANTS
    a1 = a1
    a2 = a2
    s1 = s1
    s2 = s2
    l1 = l1
    l2 = l2
    MaxClicks = 7
    Areas = {a1, a2}
    NoArea = none
    PrefArea = a1
    SlotsPerDay = 3
    WorkStart = 1
    WorkEnd = 2
    Chains = {1, 2}
    Days = {0, 1}
    MaxSelections = 4
    MaxOverlaps = 1
    Spaces = {s1, s2}
    NoSpace = none
    Options = {1, 2}
    Fits <- AsManyAsAsked
    MaxDialogClicks = 7
    MaxSpaces = 2
    PlanSize = 2
    Attributes = {a1}
    MaxEdits = 5
    HastyEdits = 3
    Points <- Mouse
    NoPoint = none
    Angles = {40, 85}
    Threshold = 2
    MinSize = 1
    Defaults <- Smallest
    MaxElements = 2
    MaxStrokes = 6
    MaxTries = 6
    HastyTries = 4
    CalendarsOf <- TwoAndOne
    LastSlot = 2
    SlotHour = 1
    MaxChanges = 5
    HastyChanges = 3
    MaxUserEdits = 4
    HastyUserEdits = 2
    Locations = {l1, l2}
    NoLocation = none
    SpacesEach = 1
    DaySlots = 4
    Times = {2, 5}
    Now = 1
    MinLength = 1
    MaxLength = 3
    Offset = 1
    MaxBookingEdits = 4
    HastyBookingEdits = 2
    DomainNames = {1, 2}
    DayHours = 4
    Lengths = {0, 3}
    MaxSettingsEdits = 4
    HastySettingsEdits = 2
INVARIANTS ShownAsSelected SingleDay UrlRestores OneAtATime SaysWhatHappens
    NothingLost PageKnowsPlan OppositeCornerStays OneForm PreferencesKept
    UserAsShown BookingAsShown SettingsAsShown
PROPERTIES SpinnerEnds
CHECK_DEADLOCK FALSE
