------------------------------ MODULE FanTools ------------------------------
(***************************************************************************)
(* What goes over the i2c bus to the MCU of the fan, and what becomes of   *)
(* it: the writes of `argonctl fan` (crates/argon-cli/src/fan.rs) and of   *)
(* argond (argon-device/src/mcu.rs), in the dialect of the configuration,  *)
(* and both firmwares (argon-sim/src/mcu.rs).  The dialect can be wrong:   *)
(* nothing safe tells which firmware there is.                             *)
(*                                                                         *)
(* A frame is its bytes.  How argond chooses a duty is FanController's     *)
(* matter, and when it writes Fan's.                                       *)
(***************************************************************************)
EXTENDS Integers, Sequences

CONSTANTS
    Duties,       \* what is asked of `argonctl fan --set`: any byte
    CurveDuties,  \* what argond may choose, with the safe duty among it
    SafeDuty,
    MaxCommands   \* bound: commands given to argonctl

ASSUME FanToolsAssumption ==
    Duties \subseteq 0..255 /\ CurveDuties \subseteq 0..100 /\ SafeDuty \in 0..100

VARIABLES
    dialect,      \* [mcu] dialect
    firmware,     \* what there is at 0x1a: "legacy", "register", or "none"
    writable,     \* the mode allows writes
    duty,         \* what the fan does
    harmed,       \* the power mode or power cut was set, or the bootloader entered
    argond,       \* "down", "activating" until it says that it is ready, or "up"
    shadow_duty,  \* what argond last told the fan, or -1
    last_written, \* and what FanTask did, or -1
    command,      \* what argonctl is to do: "none", "set", "safe", or a step of
                  \* T5, "baseline", "probe" or "restore"
    percent,      \* the duty to set
    checked,      \* it has looked whether argond runs
    asked,        \* history: the duty last asked for, by any of them
    crossed,      \* history: a tool wrote beside argond, or has looked and not seen it,
                  \* or a write that failed took effect; and argond has not written since
    commands

toolBus == <<dialect, firmware, writable>>
driver == <<argond, shadow_duty, last_written>>
fanToolVars == <<toolBus, duty, harmed, driver, command, percent, checked, asked, crossed, commands>>

FanToolsInit ==
    /\ dialect \in {"legacy", "register"} /\ firmware \in {"legacy", "register", "none"}
    /\ writable \in BOOLEAN /\ duty = SafeDuty /\ asked = SafeDuty /\ harmed = FALSE
    /\ argond = "down" /\ shadow_duty = -1 /\ last_written = -1
    /\ command = "none" /\ percent = 0 /\ checked = FALSE /\ crossed = FALSE /\ commands = 0

-----------------------------------------------------------------------------
(* The two firmwares. *)

AtMost100(b) == IF b > 100 THEN 100 ELSE b

\* opcode: the two power modes, the power cut and the bootloader; and infrared.
Harms == {253, 254, 255, 187}
IR_WRITE == 170

\* What a frame does: a duty, or one of the two below.
Harm == -1
Nothing == -2

\* LegacyMcu::receive: the first byte is the command, and what is no command is
\* a duty.
LegacyTakes(frame) ==
    IF frame[1] \in Harms THEN Harm ELSE IF frame[1] = IR_WRITE THEN Nothing ELSE AtMost100(frame[1])

\* RegisterMcu::receive
RegisterTakes(frame) ==
    IF Len(frame) > 1
    THEN IF frame[1] = 128 THEN AtMost100(frame[2])
         ELSE IF frame[1] = 134 /\ frame[2] = 1 THEN Harm ELSE Nothing
    ELSE IF frame[1] <= 100 THEN frame[1]
         ELSE IF frame[1] \in {255, 187} THEN Harm ELSE Nothing

Takes(frame) ==
    IF firmware = "legacy" THEN LegacyTakes(frame)
    ELSE IF firmware = "register" THEN RegisterTakes(frame) ELSE Nothing

\* A write on the bus.
OnTheBus(frame) ==
    /\ duty' = IF Takes(frame) \in 0..100 THEN Takes(frame) ELSE duty
    /\ harmed' = (harmed \/ Takes(frame) = Harm)

-----------------------------------------------------------------------------
(* The writers. *)

\* set_fan
Frame(d) == IF dialect = "legacy" THEN <<d>> ELSE <<128, d>>

SetFan(d) == OnTheBus(Frame(d)) /\ asked' = d
NotSent == UNCHANGED <<duty, harmed, asked>>

\* is_present: a quick-write, with no data byte.
IsPresent == firmware # "none"

\* load, and the choice in run.  What only reports, `--probe` and `--watch`,
\* has a transport that does not write.
Command ==
    /\ command = "none" /\ commands < MaxCommands /\ commands' = commands + 1
    /\ \/ command' \in {"safe", "baseline", "probe", "restore"} /\ UNCHANGED percent
       \/ command' = "set" /\ percent' \in Duties
    /\ UNCHANGED <<toolBus, duty, harmed, driver, checked, asked, crossed>>

Done == command' = "none" /\ percent' = 0 /\ checked' = FALSE /\ UNCHANGED <<toolBus, driver, commands>>

Runs == argond # "down"

\* Mutant: it goes ahead.
RefusesNever(active) == FALSE

Refuses(active) == active

\* unit_active: not, too, of a unit that is activating, and where systemctl cannot
\* be run or answered.
UnitActive(answered) == answered /\ argond = "up"

\* set_duty looks for argond first.
CheckArgond ==
    /\ command = "set" /\ ~checked
    /\ \E answered \in BOOLEAN :
         IF Refuses(UnitActive(answered)) THEN Done /\ UNCHANGED crossed
         ELSE /\ checked' = TRUE /\ UNCHANGED <<toolBus, driver, command, percent, commands>>
              /\ crossed' = (crossed \/ (Runs /\ ~UnitActive(answered)))
    /\ NotSent

\* Mutant: the byte that was asked for is sent.
SetAsAsked(p) == OnTheBus(Frame(p)) /\ asked' = AtMost100(p)

SetCapped(p) == SetFan(AtMost100(p))

\* set_duty writes; the open or the write may fail.
SetDuty ==
    /\ command = "set" /\ checked /\ Done
    /\ SetCapped(percent) \/ NotSent
    /\ UNCHANGED crossed

\* t5, whatever the dialect and whether argond runs or not.
T5Write ==
    /\ command \in {"baseline", "restore"} /\ Done
    /\ LET byte == IF command = "baseline" THEN 25 ELSE 50 IN
         \/ OnTheBus(<<byte>>) /\ asked' = byte /\ crossed' = (crossed \/ Runs)
         \/ NotSent /\ UNCHANGED crossed

\* t5_probe: the register read puts the number of the register on the bus first.
T5Probe ==
    /\ command = "probe" /\ Done
    /\ OnTheBus(<<128>>) /\ crossed' = (crossed \/ Runs) /\ UNCHANGED asked

\* set_safe, nothing where nothing answers.
SetSafe ==
    /\ command = "safe" /\ Done
    /\ \/ writable /\ IsPresent /\ SetFan(SafeDuty) /\ crossed' = (crossed \/ Runs)
       \/ NotSent /\ UNCHANGED crossed

\* argond, where it drives: its first write is the safe duty, and it goes on
\* whatever comes of that.
ArgondDrives ==
    /\ argond = "down" /\ writable /\ IsPresent /\ argond' = "activating"
    /\ \/ SetFan(SafeDuty) /\ shadow_duty' \in {SafeDuty, -1}
       \/ NotSent /\ shadow_duty' = -1
    /\ crossed' = checked
    /\ UNCHANGED <<toolBus, last_written, command, percent, checked, commands>>

ArgondReady ==
    /\ argond = "activating" /\ argond' = "up"
    /\ UNCHANGED <<toolBus, duty, harmed, shadow_duty, last_written, command, percent, checked,
                   asked, crossed, commands>>

\* FanTask writes what has changed: it is done, or it fails, whether it took
\* effect or not, and is not taken to be written.
ArgondWrites ==
    /\ Runs
    /\ \E d \in CurveDuties \ {last_written} :
         \/ SetFan(d) /\ shadow_duty' = d /\ last_written' = d /\ crossed' = (crossed /\ checked)
         \/ SetFan(d) /\ crossed' = TRUE /\ UNCHANGED <<shadow_duty, last_written>>
         \/ NotSent /\ UNCHANGED <<shadow_duty, last_written, crossed>>
    /\ UNCHANGED <<toolBus, argond, command, percent, checked, commands>>

ArgondLeaves ==
    /\ Runs /\ argond' = "down" /\ shadow_duty' = -1 /\ last_written' = -1
    /\ \/ SetFan(SafeDuty) \/ NotSent
    /\ crossed' = FALSE
    /\ UNCHANGED <<toolBus, command, percent, checked, commands>>

FanToolsNext ==
    \/ Command \/ CheckArgond \/ SetDuty \/ T5Write \/ T5Probe \/ SetSafe
    \/ ArgondDrives \/ ArgondReady \/ ArgondWrites \/ ArgondLeaves

FanToolsSpec == FanToolsInit /\ [][FanToolsNext]_fanToolVars

-----------------------------------------------------------------------------
\* Under either dialect and either firmware, whatever was asked for, the MCU is
\* never told anything but a duty, and the fan turns at least as fast as it was
\* last asked to.
NothingElseIsAsked == ~harmed /\ (firmware # "none" => duty >= asked)

\* "We are the only writer, so what we last sent is what it is."
SoleWriter ==
    shadow_duty # -1 /\ dialect = firmware => duty = shadow_duty

\* So it is until argond's next write, but for an experiment, the safe duty of an
\* operator, a command that looked before argond was there or was told that it is
\* not, and a write of argond's own that took effect and was said to have failed.
FanIsArgonds ==
    /\ NothingElseIsAsked
    /\ ~crossed => SoleWriter
=============================================================================
