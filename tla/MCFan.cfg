SPECIFICATION FanFairSpec
CONSTANTS
    None = None
    Curve <- MCCurve
    Temps <- MCTemps
    Hysteresis = 2
    MinDuty = 2
    MinSpinning = 2
    Full = 4
    Safe = 3
INVARIANT NeverBelowCurve
INVARIANT BelievedIsHeld
PROPERTY StopsWhenItMust
