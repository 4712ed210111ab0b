\* Two callers; the port opened, absent or held by another process at any time,
\* and the daemon stopped at any time.
CONSTANTS
    socket = socket
    dbus = dbus
    Callers <- Both
    Interval = 7
    AnswerTimeout = 6
    StaleAfter = 14
    PollTicks = 1
    RequestTicks = 1
    Ports <- AnyPort
    MaxCalls = 2
SPECIFICATION FairSpec
CHECK_DEADLOCK FALSE
INVARIANTS
    NoLostWakeup
    AnsweredInTime
PROPERTIES
    StopEndsEverything
