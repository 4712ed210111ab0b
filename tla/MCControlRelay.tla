--------------------------- MODULE MCControlRelay ---------------------------
(* Instances of ControlRelay for TLC.  The poll interval is longer than the  *)
(* answer timeout, so that only the flag can make an answer timely.          *)
EXTENDS ControlRelay

CONSTANTS socket, dbus
Both == {socket, dbus}
One == {socket}
OwnPort == {"opened", "absent"}
AnyPort == {"opened", "absent", "held"}
=============================================================================
