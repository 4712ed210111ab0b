\* A second request fails while the first one's poweroff is pending.
CONSTANTS
    None = None
    BadDate = BadDate
    ParkAt = 1000
    ParkWindow = 10
    CheckEvery = 5
    MinLead = 15
    PoweroffDelay = 1
    Minute = 2
    LastTime = 2000
    Slack = 2
    Skew = 1
    WakeWrites = TRUE
    Faults <- CommandFaults
    FirstWakes <- NoWake
    Leads <- ShortLeads
    Horizon = 22
    MaxRequests = 2
    MaxOthers = 0
    MaxRestarts = 0
SPECIFICATION Spec
CHECK_DEADLOCK FALSE
PROPERTIES
    OffWithItsWake
