-------------------------------- MODULE Link --------------------------------
(***************************************************************************)
(* crates/argon-proto/src/ups/frame.rs, argon-hal/src/serial.rs and        *)
(* argon-device/src/ups.rs over the device of argon-sim: one host that     *)
(* asks the UPS over a serial line with no addressing and no sequence      *)
(* numbers.  Requests and replies are lost, bytes are lost or changed,     *)
(* noise comes first, and a reply may come after its deadline.  The host   *)
(* polls the battery, and sets a wake and reads it back as argond does.    *)
(***************************************************************************)
EXTENDS UpsTime, SequencesExt

CONSTANTS
    Batteries,   \* payloads the battery may read
    Wakes,       \* schedules that may be asked for
    ParkAt,      \* wake::PARK_AT
    Noise,       \* bytes that may precede a reply
    Changes,     \* by which a damaged byte may differ from the one sent
    MaxAsks,     \* bound: polls and requests
    MaxFaults    \* bound: losses, damages and deadlines that pass too early

Payload(p) == p \in Seq(Byte) /\ Len(p) \in Byte

\* Neither a frame nor a payload is taken for a refusal.
ASSUME LinkAssumption ==
    /\ \A b \in Batteries : Payload(b)
    /\ Storable(ParkAt, 5) /\ \A t \in Wakes : Storable(t, 5)
    /\ None \notin Seq(Byte) /\ None \notin [cmd : Byte, payload : Seq(Byte)]
    /\ Noise \subseteq Byte /\ Changes \subseteq 1..255
    /\ MaxAsks \in Nat /\ MaxFaults \in Nat

START == 254
BatteryStatus == 0
SetWake == 6
GetWake == 7
Acknowledge == 8

VARIABLES
    reader,     \* FrameReader: the bytes of the frame in progress
    wire,       \* bytes the port holds for the host
    sent,       \* requests on their way
    owed,       \* replies the device has still to send
    battery, wake,     \* the device: what it measures, and its schedule
    job,        \* what the host is at: "idle", "poll", "set", "readback", "park"
    waiting,    \* the request of that is under way
    asked,      \* the schedule of the last request for a wake
    outcome,    \* of that: "none", "ok", "error"
    reading,    \* the last battery reading, or None
    asks, faults,
    clean,      \* history: the line was quiet when the request was sent
    truth,      \* history: the payloads the device could have answered since
    spoiled     \* history: how often since then something was lost, damaged or late

hostVars == <<job, waiting, asked, outcome, reading>>
historyVars == <<clean, truth, spoiled>>
linkVars == <<reader, wire, sent, owed, battery, wake, hostVars, asks, faults, historyVars>>

LinkInit ==
    /\ reader = <<>> /\ wire = <<>> /\ sent = <<>> /\ owed = <<>>
    /\ battery \in Batteries /\ wake = <<>>
    /\ job = "idle" /\ waiting = FALSE /\ asked = <<>> /\ outcome = "none" /\ reading = None
    /\ asks = 0 /\ faults = 0 /\ clean = TRUE /\ truth = {} /\ spoiled = 0

-----------------------------------------------------------------------------
(* Frames. *)

Frame(command, payload) == [cmd |-> command, payload |-> payload]
Checksum(bytes) ==
    LET sum[n \in 0..Len(bytes)] == IF n = 0 THEN 0 ELSE (sum[n - 1] + bytes[n]) % 256
    IN sum[Len(bytes)]

EncodeInto(f) ==
    LET head == <<START, Len(f.payload), f.cmd>> \o f.payload IN Append(head, Checksum(head))

\* Mutant: a frame is what has a frame's length.
PushUnchecked(buf, byte) ==
    IF Len(buf) < 3 \/ Len(buf) < buf[2] + 3
    THEN [buf |-> IF buf = <<>> /\ byte # START THEN <<>> ELSE Append(buf, byte), out |-> None]
    ELSE [buf |-> <<>>, out |-> Frame(buf[3], SubSeq(buf, 4, Len(buf)))]

\* push: the state of the machine is how much it holds.  Hunting, a byte other
\* than the start is dropped; a bad checksum rejects the whole frame.
Push(buf, byte) ==
    IF Len(buf) < 3 \/ Len(buf) < buf[2] + 3
    THEN [buf |-> IF buf = <<>> /\ byte # START THEN <<>> ELSE Append(buf, byte), out |-> None]
    ELSE [buf |-> <<>>,
          out |-> IF byte = Checksum(buf) THEN Frame(buf[3], SubSeq(buf, 4, Len(buf))) ELSE None]

-----------------------------------------------------------------------------
(* The device. *)

Reply(command) ==
    CASE command = BatteryStatus -> battery
      [] command = GetWake -> IF wake = <<>> THEN <<>> ELSE EncodeSchedule(wake)
      [] OTHER -> <<>>

\* respond: to a request that arrived whole.
Respond ==
    /\ sent # <<>> /\ sent' = Tail(sent)
    /\ wake' = IF Head(sent).cmd = SetWake THEN DecodeSchedule(Head(sent).payload) ELSE wake
    /\ owed' = Append(owed, Frame(Head(sent).cmd, Reply(Head(sent).cmd)))
    /\ UNCHANGED <<reader, wire, battery, hostVars, asks, faults, historyVars>>

Fault == faults < MaxFaults /\ faults' = faults + 1 /\ spoiled' = spoiled + 1

RequestLost ==
    /\ sent # <<>> /\ sent' = Tail(sent)
    /\ Fault
    /\ UNCHANGED <<reader, wire, owed, battery, wake, hostVars, asks, clean, truth>>

\* A reply goes out whole, or with a byte lost or changed, or after noise.
Damaged(bytes) ==
    {<<>>} \cup {RemoveAt(bytes, i) : i \in 1..Len(bytes)}
    \cup {[bytes EXCEPT ![i] = (@ + d) % 256] : i \in 1..Len(bytes), d \in Changes}
    \cup {<<b>> \o bytes : b \in Noise}

SendReply ==
    /\ owed # <<>> /\ owed' = Tail(owed)
    /\ \/ wire' = wire \o EncodeInto(Head(owed)) /\ UNCHANGED <<faults, spoiled>>
       \/ Fault /\ \E b \in Damaged(EncodeInto(Head(owed))) : wire' = wire \o b
    /\ UNCHANGED <<reader, sent, battery, wake, hostVars, asks, clean, truth>>

\* The device may ask for an acknowledgement on its own.
Unsolicited ==
    /\ Fault
    /\ wire' = wire \o EncodeInto(Frame(Acknowledge, <<>>))
    /\ UNCHANGED <<reader, sent, owed, battery, wake, hostVars, asks, clean, truth>>

BatteryMoves ==
    /\ asks < MaxAsks /\ asks' = asks + 1
    /\ battery' \in Batteries \ {battery}
    /\ truth' = IF job = "poll" THEN truth \cup {battery'} ELSE truth
    /\ UNCHANGED <<reader, wire, sent, owed, wake, hostVars, faults, clean, spoiled>>

-----------------------------------------------------------------------------
(* The host. *)

\* A poll, or handle_request: the wake is written, read back, and parked if it
\* is not what was asked for.
Begin ==
    /\ job = "idle" /\ asks < MaxAsks /\ asks' = asks + 1
    /\ \/ job' = "poll" /\ UNCHANGED <<asked, outcome>>
       \/ job' = "set" /\ asked' \in Wakes /\ outcome' = "none"
    /\ UNCHANGED <<reader, wire, sent, owed, battery, wake, waiting, reading, faults, historyVars>>

CommandOf(j) ==
    CASE j = "poll" -> BatteryStatus [] j = "readback" -> GetWake [] OTHER -> SetWake
PayloadOf(j) ==
    CASE j = "set" -> EncodeSchedule(asked) [] j = "park" -> EncodeSchedule(ParkAt) [] OTHER -> <<>>

\* Mutant: what was half received is kept.
RequestKept ==
    /\ job # "idle" /\ ~waiting /\ waiting' = TRUE
    /\ sent' = Append(sent, Frame(CommandOf(job), PayloadOf(job)))
    /\ clean' = (wire = <<>> /\ owed = <<>> /\ sent = <<>>)
    /\ truth' = {Reply(CommandOf(job))} /\ spoiled' = 0
    /\ UNCHANGED <<reader, wire, owed, battery, wake, job, asked, outcome, reading, asks, faults>>

\* request, up to its wait: whatever was half received is forgotten, what the
\* port holds is not.
Request ==
    /\ job # "idle" /\ ~waiting /\ waiting' = TRUE
    /\ reader' = <<>>
    /\ sent' = Append(sent, Frame(CommandOf(job), PayloadOf(job)))
    /\ clean' = (wire = <<>> /\ owed = <<>> /\ sent = <<>>)
    /\ truth' = {Reply(CommandOf(job))} /\ spoiled' = 0
    /\ UNCHANGED <<wire, owed, battery, wake, job, asked, outcome, reading, asks, faults>>

\* Mutant: an acknowledged write is believed.
ConcludeSet(payload) ==
    /\ waiting' = FALSE /\ job' = "idle"
    /\ outcome' = IF job = "set" THEN IF payload = <<>> THEN "ok" ELSE "error" ELSE outcome
    /\ reading' = IF job # "poll" THEN reading
                  ELSE IF payload = None THEN None ELSE DecodeBattery(payload)

\* What the host makes of a reply, or of none: battery, and handle_request.
Conclude(payload) ==
    /\ waiting' = FALSE
    /\ job' = CASE job = "set" /\ payload = <<>> -> "readback"
                [] job = "readback" /\ (payload = None \/ DecodeOptionalSchedule(payload) # asked) -> "park"
                [] OTHER -> "idle"
    /\ outcome' = CASE job' = "readback" \/ job \in {"poll", "park"} -> outcome
                    [] job = "readback" /\ job' = "idle" -> "ok"
                    [] OTHER -> "error"
    /\ reading' = IF job # "poll" THEN reading
                  ELSE IF payload = None THEN None ELSE DecodeBattery(payload)

\* read_matching.  The port is read in chunks, and every chunk byte by byte: one
\* byte after the other comes to the same, but that the frame for the command ends
\* it, and what is left of its chunk is dropped, any part of what the port holds.
Read ==
    /\ waiting /\ wire # <<>>
    /\ LET p == Push(reader, Head(wire))
           matches == p.out # None /\ p.out.cmd = CommandOf(job)
       IN /\ reader' = p.buf
          /\ \/ matches /\ Conclude(p.out.payload) /\ UNCHANGED asked
                /\ \E n \in 1..Len(wire) : wire' = SubSeq(wire, n + 1, Len(wire))
             \/ ~matches /\ wire' = Tail(wire) /\ UNCHANGED hostVars
    /\ UNCHANGED <<sent, owed, battery, wake, asks, faults, historyVars>>

\* The deadline passes; with the reply still on its way, that is a fault.
TimeOut ==
    /\ waiting
    /\ IF wire = <<>> /\ owed = <<>> /\ sent = <<>> THEN UNCHANGED <<faults, spoiled>> ELSE Fault
    /\ Conclude(None)
    /\ UNCHANGED <<reader, wire, sent, owed, battery, wake, asked, asks, clean, truth>>

Device == Respond \/ RequestLost \/ SendReply \/ Unsolicited \/ BatteryMoves
Host == Begin \/ Request \/ Read \/ TimeOut
LinkNext == Device \/ Host
LinkSpec == LinkInit /\ [][LinkNext]_linkVars

-----------------------------------------------------------------------------
\* The answer to a request that was sent on a quiet line is one the device could
\* have given since: no loss, no change of a byte and no noise makes another of
\* it.  On a line that was not quiet it may be the answer to an earlier request.
AnswerIsTrue ==
    [][Read /\ waiting /\ ~waiting' /\ clean =>
         IF job = "poll" THEN reading' \in {None} \cup {DecodeBattery(b) : b \in truth}
         ELSE (job = "readback" /\ outcome' = "ok") => EncodeSchedule(asked) \in truth]_linkVars

\* Whatever went wrong before, a request sent on a quiet line is answered if
\* nothing goes wrong with it.
QuietLineAnswers == [][TimeOut /\ clean => spoiled' > 0]_linkVars

\* A wake that is reported as set is in the device, with up to MaxFaults
\* replies lost, damaged or late.
ConfirmedIsHeld == outcome = "ok" => wake = asked
=============================================================================
