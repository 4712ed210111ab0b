\* Reads and commands may fail, poweroffs be cancelled, the daemon restart anywhere.
CONSTANTS
    None = None
    BadDate = BadDate
    ParkAt = 1000
    ParkWindow = 10
    CheckEvery = 5
    MinLead = 15
    PoweroffDelay = 1
    Minute = 2
    LastTime = 2000
    Slack = 2
    Skew = 1
    WakeWrites = TRUE
    Faults <- ReadsAndCommands
    FirstWakes <- BootWakes
    Leads <- AroundMinLead
    Horizon = 20
    MaxRequests = 1
    MaxOthers = 1
    MaxRestarts = 1
SPECIFICATION Spec
CHECK_DEADLOCK FALSE
INVARIANTS
    NeverDue
    NoLiveAfterError
PROPERTIES
    OffWithItsWake
