-------------------------- MODULE MCBatteryPolicy --------------------------
(* Instances of BatteryPolicy for TLC: the readings on either side of every *)
(* threshold the configuration has.                                        *)
EXTENDS BatteryPolicy

Battery(percents) == [source : {"battery"}, percent : percents]
MainsReading == [source |-> "mains", percent |-> 100]

\* With low 20, critical 10, margin 5: the last critical reading, the last
\* one that stays Critical, the low threshold, the last one that stays Low,
\* the first that clears it; and more than the full charge.
AllBoundaries == {MainsReading} \cup Battery({10, 14, 20, 24, 25, 255})

AroundMinUptime == {119, 120}
=============================================================================
