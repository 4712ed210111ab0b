CONSTANTS
    None = None
    Batteries <- MCBatteries
    Wakes <- MCWakes
    ParkAt <- MCParkAt
    Noise = {254, 171}
    Changes = {1}
    MaxAsks = 3
    MaxFaults = 2
    Times <- MCTimes
SPECIFICATION MCSpec
INVARIANTS ConfirmedIsHeld ConversionIsCalendar
PROPERTIES AnswerIsTrue QuietLineAnswers
CHECK_DEADLOCK FALSE
