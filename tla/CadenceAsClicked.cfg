SPECIFICATION Spec
CONSTANTS
    Requests <- AsClicked
    MaxRecurringBookings = 5
INVARIANT ExactlyTheDays
CHECK_DEADLOCK FALSE
