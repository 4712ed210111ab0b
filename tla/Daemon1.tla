------------------------------ MODULE Daemon1 ------------------------------
(***************************************************************************)
(* crates/argon-daemon/src/dbus.rs with cpu_cap.rs and oled.rs: the calls  *)
(* of the D-Bus service that change state without the UPS thread, each     *)
(* behind polkit: the cap on the CPU's frequency, and the switch of the    *)
(* case display.  The wake is in module Wake.                              *)
(***************************************************************************)
EXTENDS FiniteSets, Integers

CONSTANTS
    Policies,    \* cpufreq policies
    Verdicts,    \* what polkit may answer: Yes, Challenge, No, or an error
    WriteFails   \* whether a write to sysfs or to a record may fail

ASSUME Daemon1Assumption ==
    /\ Verdicts \subseteq {"Yes", "Challenge", "No", "Err"}
    /\ WriteFails \in BOOLEAN

VARIABLES
    up,           \* the daemon runs and owns its name on the bus
    limit,        \* scaling_max_freq: "own", what was there before, or "min"
    saved,        \* CpuCap::saved, the limit each capped policy had
    slipped,      \* history: a limit could not be written back, or argond died
    oled,         \* OledControl::on
    oled_off      \* the marker file that remembers "off"

daemonVars == <<up, limit, saved, slipped, oled, oled_off>>

Capped == DOMAIN saved
NoneSaved == [p \in {} |-> "own"]

DaemonInit ==
    /\ up = TRUE
    /\ limit = [p \in Policies |-> "own"] /\ saved = NoneSaved /\ slipped = FALSE
    /\ oled = TRUE /\ oled_off = FALSE

-----------------------------------------------------------------------------
(* Authorisation: only "Yes" is a yes. *)

\* can, CanPoweroffWithWake: an error is a "no".
Can(verdict, wake_supported) ==
    IF ~wake_supported THEN "na"
    ELSE CASE verdict = "Yes" -> "yes" [] verdict = "Challenge" -> "challenge" [] OTHER -> "no"

Allowed(verdict) == verdict = "Yes"

-----------------------------------------------------------------------------
(* The CPU cap. *)

Failing(ps) == IF WriteFails THEN SUBSET ps ELSE {{}}

\* lift: every limit is tried, and whatever fails is forgotten all the same.
LiftAll(failed) ==
    /\ limit' = [p \in Policies |-> IF p \in Capped \ failed THEN saved[p] ELSE limit[p]]
    /\ saved' = NoneSaved
    /\ slipped' = (slipped \/ failed # {})

Lift(failed) == failed \in Failing(Capped) /\ LiftAll(failed)

\* cap: in order, and on the first failure what was capped is put back.
Cap ==
    IF saved # NoneSaved THEN UNCHANGED <<limit, saved, slipped>>
    ELSE \/ /\ saved' = [p \in Policies |-> limit[p]]
            /\ limit' = [p \in Policies |-> "min"]
            /\ UNCHANGED slipped
         \/ \E done \in SUBSET Policies : \E stuck \in Failing(done) :
              /\ WriteFails /\ done # Policies
              /\ limit' = [p \in Policies |-> IF p \in stuck THEN "min" ELSE limit[p]]
              /\ saved' = NoneSaved
              /\ slipped' = (slipped \/ stuck # {})

\* set_cpu_cap, and the caller's answer in `ok`.
SetCpuCap(capped) ==
    \/ /\ up /\ \E v \in Verdicts : Allowed(v)
       /\ IF capped THEN Cap ELSE \E failed \in SUBSET Policies : Lift(failed)
       /\ UNCHANGED <<up, oled, oled_off>>
    \/ /\ ~up \/ \E v \in Verdicts : ~Allowed(v)
       /\ UNCHANGED daemonVars

-----------------------------------------------------------------------------
(* The display. *)

\* OledControl::state
OledState(available) == IF ~available THEN "na" ELSE IF oled THEN "on" ELSE "off"

\* set: the switch works even if it cannot be remembered.
SetOled ==
    /\ up /\ \E v \in Verdicts : Allowed(v)
    /\ \E on \in BOOLEAN :
         /\ oled' = on
         /\ \/ oled_off' = ~on
            \/ WriteFails /\ UNCHANGED oled_off
    /\ UNCHANGED <<up, limit, saved, slipped>>

-----------------------------------------------------------------------------
(* The daemon's life. *)

\* Mutant: the cap is left as it is.
DaemonExitsCapped ==
    /\ up /\ up' = FALSE /\ saved' = NoneSaved
    /\ UNCHANGED <<limit, slipped, oled, oled_off>>

\* Drop for CpuCap: a cap does not outlive the service.
DaemonExits ==
    /\ up /\ up' = FALSE
    /\ \E failed \in SUBSET Policies : Lift(failed)
    /\ UNCHANGED <<oled, oled_off>>

DaemonDies ==
    /\ up /\ up' = FALSE
    /\ saved' = NoneSaved
    /\ slipped' = (slipped \/ saved # NoneSaved)
    /\ UNCHANGED <<limit, oled, oled_off>>

\* serve, and OledControl::new: on unless the marker exists.
DaemonServes ==
    /\ ~up /\ up' = TRUE
    /\ oled' = ~oled_off
    /\ UNCHANGED <<limit, saved, slipped, oled_off>>

Daemon == SetOled \/ DaemonExits \/ DaemonDies \/ DaemonServes

-----------------------------------------------------------------------------
\* A limit that is not what it was is on record to be put back, or could not
\* be put back, or the daemon died: the cap never becomes the machine's own
\* limit by being set twice, and never outlives a daemon that leaves orderly.
CapIsUndone == slipped \/ \A p \in Policies : (limit[p] = "own") \/ (p \in Capped /\ saved[p] = "own")
=============================================================================
