-------------------------------- MODULE Gauge --------------------------------
(***************************************************************************)
(* The battery of the ONE UP: its fuel gauge (crates/argon-proto/src/      *)
(* cw2217.rs, argon-device/src/gauge.rs) and the thread that polls it      *)
(* (argon-daemon/src/gauge.rs), with the battery policy behind it.  What   *)
(* the shutdown coordinator does with the advice is ShutdownCoordinator's  *)
(* matter.                                                                 *)
(***************************************************************************)
EXTENDS Integers

CONSTANTS
    Socs,          \* the first byte of the SOC register
    Currents,      \* the CURRENT register, an i16
    GaugeCritical, GaugeConfirmations, GaugeMinUptime, GaugeMaxStreak,
    MaxPerturbs    \* bound: changes of the battery and of what answers, restarts, requests

\* PolicyConfig::validate, and the width of the SOC register and the counters.
ASSUME GaugeAssumption ==
    /\ Socs \subseteq 0..255 /\ Currents \subseteq Int
    /\ GaugeCritical \in 0..99 /\ GaugeMinUptime \in Nat /\ MaxPerturbs \in Nat
    /\ GaugeConfirmations \in Nat \ {0} /\ GaugeMaxStreak \in Nat
    /\ GaugeConfirmations <= GaugeMaxStreak

VARIABLES
    soc, current,    \* the registers
    chip,            \* what answers at 0x64: "cw2217", "other" or "nothing"
    up,              \* the machine's uptime
    gauge,           \* the thread's GaugeMonitor: "none", "open" or "polled"
    gauge_policy, gauge_failures,   \* its Watch
    gauge_advice,    \* of the last poll: the policy's decision
    waiting,         \* a request for a wake: "none" or "waiting"
    drained,         \* history: readings in a row of a draining battery at its end; -1 after
                     \* one that is not draining, or a failure
    perturbs

\* The policy's remaining thresholds decide no advice.
GP == INSTANCE BatteryPolicy WITH
        LowPercent <- GaugeCritical + 1, CriticalPercent <- GaugeCritical, RecoverMargin <- 1,
        Confirmations <- GaugeConfirmations, MinUptime <- GaugeMinUptime, MaxStreak <- GaugeMaxStreak,
        Readings <- {}, Uptimes <- {}, MaxPolls <- 0,
        policy <- gauge_policy, decision <- gauge_advice, uptime <- up, polls <- <<>>

registers == <<soc, current, chip>>
gaugeWatch == <<gauge_policy, gauge_failures, gauge_advice, drained>>
gaugeVars == <<registers, up, gauge, gaugeWatch, waiting, perturbs>>

GaugeInit ==
    /\ soc \in Socs /\ current \in Currents /\ chip \in {"cw2217", "other", "nothing"}
    /\ up = 0 /\ gauge = "none"
    /\ gauge_policy = GP!NewPolicy /\ gauge_failures = 0
    /\ gauge_advice = GP!DecisionOn(GP!NewPolicy, 0)
    /\ waiting = "none" /\ drained = -1 /\ perturbs = 0

Perturb == perturbs < MaxPerturbs /\ perturbs' = perturbs + 1

-----------------------------------------------------------------------------
(* The registers. *)

FLOW_THRESHOLD == 200
REOPEN_AFTER == 3

\* Mutant: the sign is read the other way.
FlowReversed(counts) ==
    IF counts <= -FLOW_THRESHOLD THEN "Charging"
    ELSE IF counts >= FLOW_THRESHOLD THEN "Discharging" ELSE "Idle"

\* flow
Flow(counts) ==
    IF counts <= -FLOW_THRESHOLD THEN "Discharging"
    ELSE IF counts >= FLOW_THRESHOLD THEN "Charging" ELSE "Idle"

\* power_source: on battery is draining, whatever is plugged in.
PowerSource(flow) == IF flow = "Discharging" THEN "battery" ELSE "mains"

\* soc, clamped
WholePercent(byte) == IF byte > 100 THEN 100 ELSE byte

\* read_now, with battery
ReadNow == [source |-> PowerSource(Flow(current)), percent |-> WholePercent(soc)]

-----------------------------------------------------------------------------
(* run, a round of the thread. *)

\* open_gauge and identify: only what says it is a CW2217. Its policy is fresh.
OpenGauge ==
    /\ gauge = "none" /\ chip = "cw2217"
    /\ gauge' = "open"
    /\ gauge_policy' = GP!NewPolicy /\ gauge_failures' = 0 /\ drained' = -1
    /\ UNCHANGED <<registers, up, gauge_advice, waiting, perturbs>>

\* What no longer answers, and any other read, may fail.
Read(reading) ==
    \/ chip # "nothing" /\ reading = ReadNow /\ UNCHANGED perturbs
    \/ chip = "nothing" /\ reading = GP!Gap /\ UNCHANGED perturbs
    \/ chip # "nothing" /\ reading = GP!Gap /\ Perturb

Drained(reading) ==
    IF reading = GP!Gap \/ current > -FLOW_THRESHOLD THEN -1
    ELSE IF soc > GaugeCritical THEN 0
    ELSE IF drained < GaugeConfirmations THEN (IF drained < 0 THEN 0 ELSE drained) + 1
    ELSE drained

\* observe; after REOPEN_AFTER failures the gauge is opened anew.
PollGauge ==
    /\ gauge = "open"
    /\ \E reading \in {ReadNow, GP!Gap} :
         /\ Read(reading)
         /\ gauge_policy' = GP!Observed(gauge_policy, reading)
         /\ gauge_advice' = GP!DecisionOn(gauge_policy', up)
         /\ gauge_failures' = IF reading = GP!Gap THEN gauge_failures + 1 ELSE 0
         /\ drained' = Drained(reading)
    /\ gauge' = IF gauge_failures' >= REOPEN_AFTER THEN "none" ELSE "polled"
    /\ UNCHANGED <<registers, up, waiting>>

\* Without a gauge the round has nothing else to do.
RefuseRequests ==
    /\ gauge = "polled" \/ (gauge = "none" /\ waiting = "waiting")
    /\ gauge' = IF gauge = "polled" THEN "open" ELSE gauge
    /\ waiting' = "none"
    /\ UNCHANGED <<registers, up, gaugeWatch, perturbs>>

-----------------------------------------------------------------------------
(* The battery, the bus and the desktop. *)

SupplyChanges ==
    /\ Perturb /\ soc' \in Socs /\ current' \in Currents
    /\ UNCHANGED <<chip, up, gauge, gaugeWatch, waiting>>

ChipChanges ==
    /\ Perturb /\ chip' \in {"cw2217", "other", "nothing"} \ {chip}
    /\ UNCHANGED <<soc, current, up, gauge, gaugeWatch, waiting>>

UptimeGrows ==
    /\ up < GaugeMinUptime /\ up' = up + 1
    /\ UNCHANGED <<registers, gauge, gaugeWatch, waiting, perturbs>>

WakeAsked ==
    /\ waiting = "none" /\ Perturb /\ waiting' = "waiting"
    /\ UNCHANGED <<registers, up, gauge, gaugeWatch>>

GaugeRestarts ==
    /\ Perturb /\ gauge' = "none" /\ waiting' = "none"
    /\ gauge_policy' = GP!NewPolicy /\ gauge_failures' = 0 /\ drained' = -1
    /\ gauge_advice' = GP!DecisionOn(GP!NewPolicy, up)
    /\ UNCHANGED <<registers, up>>

GaugeNext ==
    \/ OpenGauge \/ PollGauge \/ RefuseRequests
    \/ SupplyChanges \/ ChipChanges \/ UptimeGrows \/ WakeAsked \/ GaugeRestarts

GaugeSpec == GaugeInit /\ [][GaugeNext]_gaugeVars

-----------------------------------------------------------------------------
\* A battery read at its end and draining often enough in a row, a charger
\* attached or not, is one to shut down for, once the machine has been up long
\* enough when it was read; and no shutdown is advised on a reading that is not
\* of a draining battery.
DrainIsSeen ==
    /\ drained >= GaugeConfirmations => gauge_advice.advice \in {"Shutdown", "HeldForUptime"}
    /\ gauge_advice.advice # "None" => drained >= 0
=============================================================================
