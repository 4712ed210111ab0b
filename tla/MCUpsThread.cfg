\* Polls, ports, questions and commands fail; somebody cancels once; one restart.
CONSTANTS
    None = None
    Delay = 2
    Tolerance = 3
    CallTicks = 1
    DryRun = FALSE
    OtherDelays <- Far
    Faults <- AllFaults
    Races = TRUE
    MaxOthers = 1
    MaxRestarts = 1
    LowPercent = 20
    CriticalPercent = 10
    RecoverMargin = 5
    Confirmations = 2
    MinUptime = 120
    MaxStreak = 2
    Readings <- Supplies
    ReopenAfter = 2
    Ports <- AnyPort
    LinkFaults <- AllLinkFaults
SPECIFICATION FairThreadSpec
CHECK_DEADLOCK FALSE
INVARIANTS
    FileHonest
PROPERTIES
    ActsOnConfirmedReadings
    DrivesCoordinator
    CriticalEndsInPoweroff
