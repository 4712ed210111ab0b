---------------------------- MODULE MCUpsThread ----------------------------
(* Instances of UpsThread for TLC.  A tick is 30 seconds, of which a poll and *)
(* a round are a fraction: any number of rounds fits into one.               *)
EXTENDS UpsThread

Mains == [source |-> "mains", percent |-> 100]
Battery(p) == [source |-> "battery", percent |-> p]
Supplies == {Mains, Battery(10), Battery(14), Battery(60)}

AnyPort == {"opened", "absent", "failed", "held"}
AllLinkFaults == {"poll", "uptime", "write"}

Far == {10}
AllFaults == {"read", "command"}
=============================================================================
