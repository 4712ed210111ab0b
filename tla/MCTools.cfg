CONSTANTS
    None = None
    Implausible = Implausible
    Drift = 1
    Threshold = 2
    CheckInterval = 2
    RetryUnsynced = 1
    MinSpan = 2
    MaxLines = 3
    KeepLines = 2
    Unsynced = 9
    Writes = TRUE
    Wrong = 20
    MaxTime = 5
    MaxFaults = 2
    Configs <- MCConfigs
    Vendors <- MCVendors
    MaxMoves = 2
    Duties = {0, 5, 100, 128, 187, 255}
    CurveDuties = {0, 30, 55, 100}
    SafeDuty = 55
    MaxCommands = 2
    NoUnit = NoUnit
    Units = {"A", "B"}
    ReopenAfter = 2
    RefreshEvery = 2
    MaxTicks = 2
    MaxEvents = 4
    Pages = {"p1", "p2"}
    MaxUpsets = 4
    Socs = {10, 11, 255}
    Currents <- MCCurrents
    GaugeCritical = 10
    GaugeConfirmations = 2
    GaugeMinUptime = 1
    GaugeMaxStreak = 3
    MaxPerturbs = 4
    Boards = {"pi4", "cm5"}
    BootFiles <- MCBootFiles
    Guests = {"ups", "oneup"}
    MaxWhims = 1
SPECIFICATION MCSpec
INVARIANTS RateIsDrift FanIsArgonds PortIsKept DrainIsSeen
PROPERTIES ClockIsKept StartIsRight PanelIsRight FixesFix
CHECK_DEADLOCK FALSE
