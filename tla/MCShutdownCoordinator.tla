----------------------- MODULE MCShutdownCoordinator -----------------------
(* Instances of ShutdownCoordinator for TLC.  A tick is 30 seconds: the      *)
(* tolerance of 90 s is three ticks, the default delay of two minutes four. *)
EXTENDS ShutdownCoordinator

\* The button's and the wake's one minute, and an operator's five.
NearAndFar == {2, 10}
Near == {2}
Far == {10}
NoFaults == {}
AllFaults == {"read", "command"}
=============================================================================
