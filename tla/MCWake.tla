------------------------------ MODULE MCWake ------------------------------
(* Instances of Wake for TLC.  One unit is a minute: the window is ten, the *)
(* time between looks five, the lead fifteen, the delay of the poweroff one; *)
(* the resolution of a schedule is two, so that rounding shows.  A slack of   *)
(* two and a skew of one are the most that the window leaves room for.       *)
EXTENDS Wake

CommandFaults == {"command"}
ReadsAndCommands == {"read", "command"}

\* None; past, due within the first look, just inside and just outside the
\* window, some way off; and no date at all.
BootWakes == {None, BadDate, 0, 1, 10, 11, 16}
NoWake == {None}

\* Around the minimum: refused, refused once rounded down, accepted.
AroundMinLead == {14, 15, 16}
ShortLeads == {15, 16}
=============================================================================
