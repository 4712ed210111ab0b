CONSTANTS
    None = None
    Policies = {p1, p2}
    Radios = {r1, r2}
    Verdicts <- MCVerdicts
    Actions <- MCActions
    WriteFails = TRUE
    ReadFails = TRUE
    Delay = 2
    MaxBlock = 1
    MaxMoves = 3
    MaxFaults = 1
SPECIFICATION Spec
INVARIANTS CapIsUndone RecordedUntilRestored
PROPERTIES PowerOffOnlyShut ComesBack
CHECK_DEADLOCK FALSE
