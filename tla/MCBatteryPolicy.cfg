\* The default thresholds, every boundary reading, every sequence of polls, and
\* counters that saturate within one.
CONSTANTS
    LowPercent = 20
    CriticalPercent = 10
    RecoverMargin = 5
    Confirmations = 2
    MinUptime = 120
    MaxStreak = 3
    Readings <- AllBoundaries
    Uptimes <- AroundMinUptime
    MaxPolls = 6
SPECIFICATION Spec
CHECK_DEADLOCK FALSE
INVARIANTS
    ShutdownIsEarned
    NoCriticalMissed
