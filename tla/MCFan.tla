------------------------------- MODULE MCFan -------------------------------
(* Two points, of which min_duty raises the first; readings on both sides of *)
(* each, within the margin of each other and not.                            *)
EXTENDS Fan

MCCurve == <<[at |-> 4, duty |-> 1], [at |-> 8, duty |-> 4]>>
MCTemps == {1, 3, 5, 7, 8}
=============================================================================
