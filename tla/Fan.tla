-------------------------------- MODULE Fan --------------------------------
(***************************************************************************)
(* The fan's side of argond, from a start of the process to what systemd   *)
(* does after it has ended: control_loop and the signal handler of         *)
(* crates/argon-daemon/src/main.rs, FanTask of argon-device/src/fan.rs,    *)
(* FanSafeGuard of argon-device/src/safety.rs and the rate limiter of      *)
(* argon-hal/src/i2c.rs.  The MCU keeps the last duty it was sent for as   *)
(* long as nothing else is sent; no reading of it is possible.             *)
(*                                                                         *)
(* Two threads write to the MCU, one write at a time under its mutex: the  *)
(* main loop, at `main`, and the signal handler, at `handler`.  A third    *)
(* thread, the UPS thread, is here only as what the main loop sees of it.  *)
(***************************************************************************)
EXTENDS FanController

CONSTANTS
    Safe,           \* FanDuty::clamped(fan.safe_duty)
    Temps           \* the temperatures that can be read

\* safe_duty = 0 is refused by Config::validate, and clamped() spins the fan.
ASSUME FanAssumption ==
    /\ Safe \in MinSpinning .. Full
    /\ Temps \subseteq Int /\ Temps # {}

VARIABLES
    mcu,            \* the duty the MCU holds
    bus,            \* what becomes of a write: it "works", "fails", or is taken
                    \* by the MCU while an error is returned ("loses")
    main,           \* where the main thread is, or what has become of the process
    handler,        \* where the signal handler's thread is
    stopping,       \* the stop flag
    ups,            \* the UPS thread "polls", is "wedged" in a device, is "dead"
    recent,         \* RateLimited: min_interval has not passed since a write
    allowStop,      \* fan.allow_stop, as read by this process
    current,        \* FanController::current
    written,        \* FanTask::last_written
    reading,        \* what the last poll read: a temperature, or None
    warm,           \* history: the lowest reading for which the curve asked for
                    \* the duty in force
    unsure          \* history: the last write to reach the MCU returned an error

vars == <<mcu, bus, main, handler, stopping, ups, recent, allowStop, current,
          written, reading, warm, unsure>>
threads == <<main, handler, stopping, ups>>
task == <<allowStop, current, written, reading, warm>>
device == <<mcu, recent, unsure>>

Loop == {"look", "step", "after"}
Alive == Loop \cup {"assert", "idle", "join", "leave"}
Reading == Temps \cup {None}

\* The memory of a process that has not run yet.
Blank ==
    /\ handler = "waits" /\ stopping = FALSE /\ ups = "polls" /\ recent = FALSE
    /\ current = None /\ written = None /\ reading = None /\ warm = None
    /\ unsure = FALSE

FanInit ==
    /\ mcu \in Duty /\ bus = "works" /\ main = "down" /\ allowStop = FALSE
    /\ Blank

\* RateLimited::write, Mcu::set_fan and the bus below them.  A refused write
\* never reaches the bus, and only one that returned Ok starts the interval.
Write(duty) ==
    /\ mcu' = IF recent \/ bus = "fails" THEN mcu ELSE duty
    /\ recent' = (recent \/ bus = "works")
    /\ unsure' = IF recent \/ bus = "fails" THEN unsure ELSE bus = "loses"

\* MUTANT: a refused write is taken for a write.
BelieveRefused(duty) == IF recent \/ bus = "works" THEN duty ELSE written

\* What write_if_changed then takes for written: nothing new unless the write
\* returned Ok.
Believed(duty) == IF recent \/ bus # "works" THEN written ELSE duty

WriteIfChanged(duty) ==
    IF written = duty THEN UNCHANGED <<device, written>>
    ELSE Write(duty) /\ written' = Believed(duty)

\* The lowest reading that asked for the duty `new`, now that t was read.
WarmFor(new, t) ==
    IF current = new /\ (Floored(DutyFor(t), allowStop) # new \/ warm < t)
    THEN warm ELSE t

(***************************************************************************)
(* The main thread                                                         *)
(***************************************************************************)
\* systemd starts argond, at boot or after RestartSec, with the configuration as
\* it is then.  prepare_fan takes a reading: without one the process only
\* watches the UPS, and never drives the fan.
Boot ==
    /\ main = "down" /\ main' \in {"assert", "idle"}
    /\ allowStop' \in BOOLEAN
    /\ UNCHANGED <<device, bus, handler, stopping, ups, current, written, reading, warm>>

\* The first write of a process.  FanTask does not know of it.
AssertSafe ==
    /\ main = "assert" /\ main' = "look"
    /\ Write(Safe)
    /\ UNCHANGED <<bus, handler, stopping, ups, task>>

Look ==
    /\ main = "look"
    /\ main' = IF stopping THEN "join" ELSE "step"
    /\ UNCHANGED <<device, bus, handler, stopping, ups, task>>

\* FanTask::step with a temperature.
Applied(t) ==
    /\ main = "step" /\ main' = "after"
    /\ reading' = t
    /\ current' = Update(current, t, allowStop)
    /\ warm' = WarmFor(Update(current, t, allowStop), t)
    /\ WriteIfChanged(Update(current, t, allowStop))
    /\ UNCHANGED <<bus, handler, stopping, ups, allowStop>>

\* FanTask::step without one.
SensorFailed ==
    /\ main = "step" /\ main' = "after"
    /\ reading' = None /\ current' = None /\ warm' = None
    /\ WriteIfChanged(Safe)
    /\ UNCHANGED <<bus, handler, stopping, ups, allowStop>>

\* The watchdog is fed and the loop sleeps.
Sleep ==
    /\ main = "after" /\ main' = "look"
    /\ UNCHANGED <<device, bus, handler, stopping, ups, task>>

\* Workers::stalled_for: the UPS thread's heartbeat is too old.
Stalled ==
    /\ main = "after" /\ ups # "polls" /\ main' = "join"
    /\ stopping' = TRUE
    /\ UNCHANGED <<device, bus, handler, ups, task>>

\* Workers::join waits for the UPS thread, which ends at the stop flag unless a
\* device holds it.
Join ==
    /\ main = "join" /\ ups # "wedged" /\ main' = "leave"
    /\ UNCHANGED <<device, bus, handler, stopping, ups, task>>

\* A panic unwinds control_loop without joining anything.
Unwind ==
    /\ main = "step" /\ main' = "leave"
    /\ UNCHANGED <<device, bus, handler, stopping, ups, task>>

\* The process's memory goes with it.  The MCU, and the bus, remain.
Vanish ==
    /\ main' = "gone" /\ handler' = "waits" /\ stopping' = FALSE /\ ups' = "polls"
    /\ recent' = FALSE /\ unsure' = FALSE
    /\ current' = None /\ written' = None /\ reading' = None /\ warm' = None
    /\ UNCHANGED <<bus, allowStop>>

\* control_loop returns and drops its guard; the process ends.  FanSafeGuard's
\* Drop runs with the last of its two owners, the other being the handler's
\* closure, which is dropped after the handler has run.
Leave ==
    /\ main = "leave"
    /\ \/ /\ handler \in {"drops", "done"}
          /\ mcu' = IF recent \/ bus = "fails" THEN mcu ELSE Safe
       \/ /\ handler # "done" /\ UNCHANGED mcu
    /\ Vanish

(***************************************************************************)
(* The signal handler's thread                                             *)
(***************************************************************************)
Signal ==
    /\ main \in Alive \ {"idle"} /\ handler = "waits" /\ handler' = "restores"
    /\ UNCHANGED <<device, bus, main, stopping, ups, task>>

\* restore_now
Restore ==
    /\ main \in Alive /\ handler = "restores" /\ handler' = "flags"
    /\ Write(Safe)
    /\ UNCHANGED <<bus, main, stopping, ups, task>>

Flag ==
    /\ main \in Alive /\ handler = "flags" /\ handler' = "drops"
    /\ stopping' = TRUE
    /\ UNCHANGED <<device, bus, main, ups, task>>

\* The closure is dropped, and its share of the guard with it.
Release ==
    /\ main \in Alive /\ handler = "drops" /\ handler' = "done"
    /\ UNCHANGED <<device, bus, main, stopping, ups, task>>

(***************************************************************************)
(* systemd, the UPS thread, time and the bus                               *)
(***************************************************************************)
\* SIGKILL, the OOM killer, an abort.
Kill ==
    /\ main \in Alive
    /\ Vanish /\ UNCHANGED mcu

\* MUTANT: a thread of its own feeds the watchdog.
WatchdogFed == FALSE /\ Vanish /\ UNCHANGED mcu

\* WatchdogSec, or TimeoutStopSec after a signal: nothing feeds the watchdog
\* while the main thread waits for a thread that will not end.
Watchdog ==
    /\ main = "join" /\ ups = "wedged"
    /\ Vanish /\ UNCHANGED mcu

\* ExecStopPost: argonctl fan --safe, with a bus of its own.
StopPost ==
    /\ main = "gone" /\ main' = "down"
    /\ mcu' = IF bus = "fails" THEN mcu ELSE Safe
    /\ UNCHANGED <<bus, handler, stopping, ups, recent, unsure, task>>

UpsFails ==
    /\ main \in Alive \ {"idle"} /\ ups = "polls" /\ ups' \in {"wedged", "dead"}
    /\ UNCHANGED <<device, bus, main, handler, stopping, task>>

\* The device answers after all; a thread that was told to stop meanwhile ends.
UpsReturns ==
    /\ ups = "wedged" /\ ups' = IF stopping THEN "dead" ELSE "polls"
    /\ UNCHANGED <<device, bus, main, handler, stopping, task>>

Elapse ==
    /\ recent /\ recent' = FALSE
    /\ UNCHANGED <<mcu, unsure, bus, threads, task>>

BusChanges ==
    /\ bus' \in {"works", "fails", "loses"} \ {bus}
    /\ UNCHANGED <<device, threads, task>>

Step == SensorFailed \/ \E t \in Temps : Applied(t)
Main == AssertSafe \/ Look \/ Step \/ Sleep \/ Join \/ Leave
Handler == Restore \/ Flag \/ Release

FanNext ==
    \/ Main \/ Handler \/ Stalled \/ Unwind \/ Boot
    \/ Signal \/ Kill \/ Watchdog \/ StopPost
    \/ UpsFails \/ UpsReturns \/ Elapse \/ BusChanges

FanSpec == FanInit /\ [][FanNext]_vars

\* The threads of a process run, the interval passes, a heartbeat that stays
\* silent is found too old, systemd kills what does not feed its watchdog and
\* runs ExecStopPost.  Nothing is assumed of the bus, the sensor, signals or the
\* UPS thread.
FanFairness ==
    /\ WF_vars(Main) /\ WF_vars(Handler) /\ WF_vars(Elapse)
    /\ SF_vars(Stalled) /\ WF_vars(Watchdog) /\ WF_vars(StopPost)

FanFairSpec == FanSpec /\ FanFairness

(***************************************************************************)
(* Invariants                                                              *)
(***************************************************************************)
\* What the loop wants the MCU to hold after a step.
Wanted == IF current = None THEN Safe ELSE current

FanFlagsOK ==
    /\ stopping \in BOOLEAN /\ recent \in BOOLEAN
    /\ allowStop \in BOOLEAN /\ unsure \in BOOLEAN

\* Types; and while stopping the fan is not allowed, the controller never answers
\* with Off, whatever the curve and min_duty are.
FanTypeOK ==
    /\ mcu \in Duty /\ bus \in {"works", "fails", "loses"}
    /\ main \in Alive \cup {"gone", "down"}
    /\ handler \in {"waits", "restores", "flags", "drops", "done"}
    /\ ups \in {"polls", "wedged", "dead"}
    /\ FanFlagsOK
    /\ current \in Duty \cup {None} /\ written \in Duty \cup {None}
    /\ reading \in Reading /\ warm \in Reading
    /\ current # None /\ ~allowStop => current # Off

\* The controller never answers with less than the curve asks for at the
\* temperature it was last given, whatever it held on to before, and answers
\* nothing at all once a reading has failed.
NeverBelowCurve ==
    IF reading = None THEN current = None
    ELSE current # None /\ current >= DutyFor(reading)

\* What FanTask believes it has written is what the MCU holds, so that not
\* writing it again is right: through refused writes, failed ones, and the
\* signal handler's write in between.  Not after a write that returned an error
\* and was taken all the same, until the next one that returns Ok.
BelievedIsHeld ==
    main \in Alive /\ written # None =>
        \/ mcu = written
        \/ unsure
        \/ mcu = Safe /\ handler \in {"flags", "drops", "done"}

\* The duty goes down only at a temperature that is more than the margin below
\* every reading for which the curve asked for it, so that readings within the
\* margin of each other cannot make the fan go up and down; where the duty is
\* the curve's own, and not one that min_duty has raised.
MarginKept ==
    [][current # None /\ current' # None /\ current' < current
        /\ DutyFor(warm) = current => reading' + Hysteresis < warm]_vars

(***************************************************************************)
(* Liveness                                                                *)
(***************************************************************************)
\* A process that was sent a signal ends, and so does one whose UPS thread has
\* stopped, unless that thread comes back: also when it is stuck in a device
\* and the main thread waits for it.
StopsWhenItMust ==
    /\ (handler # "waits") ~> (main = "gone")
    /\ (ups # "polls") ~> (main = "gone" \/ ups = "polls")
=============================================================================
