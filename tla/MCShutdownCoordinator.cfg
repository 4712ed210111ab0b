\* Everything at once: failing calls, others acting within a call, restarts.
CONSTANTS
    None = None
    Delay = 4
    Tolerance = 3
    CallTicks = 2
    DryRun = FALSE
    OtherDelays <- NearAndFar
    Faults <- AllFaults
    Races = TRUE
    MaxOthers = 3
    MaxRestarts = 2
SPECIFICATION Spec
CHECK_DEADLOCK FALSE
INVARIANTS
    NoOrphan
    RecoveryWithdraws
PROPERTIES
    CancelsOnlyOurs
    NeverPushedBack
    OverrideIsRespected
