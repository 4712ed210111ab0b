------------------------------- MODULE MCLink -------------------------------
EXTENDS Link, Calendar
MCBatteries == {<<93, 0>>, <<2, 1>>}
MCWakes == {<<2026, 9, 16, 7, 0>>, <<2026, 9, 16, 7, 1>>}
MCParkAt == <<2097, 1, 1, 0, 0>>
MCTimes == {0, 45296, 86399}

\* The line and the calendar have nothing to do with each other: a behaviour is
\* one of the line's or the one of the calendar.
VARIABLE part

MCInit == LinkInit /\ CalendarInit /\ part \in {"line", "calendar"}

MCNext ==
    \/ part = "line" /\ LinkNext /\ UNCHANGED <<date, part>>
    \/ part = "calendar" /\ Tomorrow /\ UNCHANGED <<linkVars, part>>

MCSpec == MCInit /\ [][MCNext]_<<linkVars, date, part>>
=============================================================================
