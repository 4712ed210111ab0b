CONSTANTS
    None = None
    Unknown = Unknown
    StaleAfter = 2
    Second = 1
    Delay = 4
    OtherDelays = {5, 6}
    Tolerance = 1
    MaxTime = 3
    ButtonDelay = 2
    Full = TRUE
    Sessions <- MCSessions
    Armed = TRUE
    LogindFails = TRUE
    Lead = 2
    CanWake = {"yes"}
    Hasty = FALSE
    MaxClicks = 1
SPECIFICATION Spec
INVARIANTS NoFalseRelief
PROPERTIES PressSparesOthers NothingUnsaid TrayFollows
CHECK_DEADLOCK FALSE
