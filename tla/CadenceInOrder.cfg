SPECIFICATION FairSpec
CONSTANTS
    Requests <- InOrder
    MaxRecurringBookings = 5
INVARIANTS ExactlyTheDays InOrderFromStart OnWeekdaysOnly RefusedWhenTooLong
PROPERTY Terminates
CHECK_DEADLOCK FALSE
