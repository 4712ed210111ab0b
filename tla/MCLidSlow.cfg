CONSTANTS
    None = None
    Policies = {p1, p2}
    Radios = {r1, r2}
    Verdicts <- MCVerdicts
    Actions <- MCActions
    WriteFails = TRUE
    ReadFails = TRUE
    Delay = 2
    MaxBlock = 2
    MaxMoves = 3
    MaxFaults = 1
SPECIFICATION Spec
PROPERTY PowerOffOnlyShut
CHECK_DEADLOCK FALSE
