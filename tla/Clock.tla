-------------------------------- MODULE Clock --------------------------------
(***************************************************************************)
(* The clock of the UPS: crates/argon-device/src/clock_sync.rs and         *)
(* drift.rs, the check argond makes of it (argon-daemon/src/ups.rs), and   *)
(* the experiments of `argonctl rtc`, which set it wrong on purpose and    *)
(* write a wake, while argond is stopped.                                  *)
(*                                                                         *)
(* A clock is its difference from the true time, in seconds; a time on     *)
(* record is in ticks, of which a few make the day that a rate needs.      *)
(***************************************************************************)
EXTENDS Integers, SequencesExt

CONSTANTS
    None,
    Implausible,   \* a reading that is no date
    Drift,         \* seconds the UPS clock gains in a tick
    Threshold,     \* THRESHOLD_S, and the experiments' TOLERANCE_S
    CheckInterval, RetryUnsynced, MinSpan,   \* in ticks
    MaxLines, KeepLines,
    Unsynced,      \* how far an unsynchronised system clock is off
    Writes,        \* [ups] clock_sync in mode "full"
    Wrong,         \* T15_OFFSET_S
    MaxTime,       \* bound: ticks; checks go on at the last one
    MaxFaults      \* bound: questions and writes lost, deep discharges, kills

ASSUME ClockAssumption ==
    /\ Threshold \in Nat /\ MinSpan \in Nat \ {0} /\ MaxTime \in Nat /\ MaxFaults \in Nat
    /\ {CheckInterval, RetryUnsynced, MaxLines} \subseteq Nat /\ KeepLines \in 1..MaxLines
    /\ {Drift, Unsynced} \subseteq Int
    /\ Wrong \in Int /\ Wrong > 2 * Threshold
    /\ Implausible \notin Int /\ None \notin Int /\ Writes \in BOOLEAN

VARIABLES
    now,
    ups,          \* the UPS clock, or Implausible after a deep discharge
    system,       \* the system clock; right once it is synchronised
    synced,
    log,          \* clock.log
    check,        \* the step of argond's check: "off", "rest", "read", "set", "verify"
    next_check,
    trusted,      \* system_synced of this check
    offset_s,     \* its verdict's
    experiment,   \* the step of T15 and T17: "none" between two
    confirmed, restored,
    wake, first,  \* the schedule in the device: None, 1 or 2; and T17's outcome
    obeys,        \* the device stores what it is told
    faults,
    jumped        \* history: a clock was stepped and the record does not say so

checkVars == <<check, next_check, trusted, offset_s>>
toolVars == <<experiment, confirmed, restored, wake, first>>
vars == <<now, ups, system, synced, log, checkVars, toolVars, obeys, faults, jumped>>

Init ==
    /\ now = 0 /\ ups \in {0, Threshold + 1, Implausible}
    /\ system = Unsynced /\ synced = FALSE
    /\ log = <<>>
    /\ check = "rest" /\ next_check = 0 /\ trusted = FALSE /\ offset_s = 0
    /\ experiment = "none" /\ confirmed = FALSE /\ restored = FALSE
    /\ wake = None /\ first = FALSE /\ obeys \in BOOLEAN
    /\ faults = 0 /\ jumped = FALSE

Abs(x) == IF x < 0 THEN -x ELSE x
Fault == faults < MaxFaults /\ faults' = faults + 1
NoFault == UNCHANGED faults

-----------------------------------------------------------------------------
(* The rules. *)

\* Mutant: corrected from any system clock.
JudgeUnsynced(reading, sys, sync) ==
    IF reading = Implausible THEN "Implausible"
    ELSE IF Abs(reading - sys) <= Threshold THEN "InSync" ELSE "Correct"

\* judge
Judge(reading, sys, sync) ==
    IF reading = Implausible THEN "Implausible"
    ELSE IF Abs(reading - sys) <= Threshold THEN "InSync"
    ELSE IF sync THEN "Correct" ELSE "Untrusted"

NextCheckAfter(sync) == IF sync THEN CheckInterval ELSE RetryUnsynced

\* An entry; `after` is None but for a correction.
Entry(offset, after) == [unix |-> now, offset |-> offset, after |-> after]

\* append: past MAX_LINES, only the newest are kept.
Appended(entries, e) ==
    LET all == Append(entries, e) IN
    IF Len(all) <= MaxLines THEN all ELSE SubSeq(all, Len(all) - KeepLines + 1, Len(all))

\* Mutant: every entry counts, corrected or not.
StretchAll(entries) == DOMAIN entries

\* The most recent free-running stretch: the last correction and what follows
\* it, or the whole record.
Stretch(entries) ==
    {i \in DOMAIN entries : \A j \in DOMAIN entries : j > i => entries[j].after = None}

\* A correction counts from the offset that was read back after it.
PointOf(e) == IF e.after # None THEN e.after ELSE e.offset

\* rate, as <<seconds, ticks>>
Rate(entries) ==
    IF entries = <<>> THEN None
    ELSE LET start == CHOOSE i \in Stretch(entries) : \A j \in Stretch(entries) : i <= j
             t0 == entries[start]
             t1 == Last(entries)
         IN IF t1.unix - t0.unix < MinSpan THEN None
            ELSE <<PointOf(t1) - PointOf(t0), t1.unix - t0.unix>>

-----------------------------------------------------------------------------
(* check_and_record_clock, on a healthy link. *)

Recorded(offset, after) == log' = Appended(log, Entry(offset, after))

EndCheck == check' = "rest" /\ trusted' = FALSE /\ offset_s' = 0 /\ UNCHANGED next_check

\* Whether the clock is synchronised is asked first.
BeginCheck ==
    /\ check = "rest" /\ (next_check <= now \/ now = MaxTime)
    /\ check' = "read" /\ trusted' = synced
    /\ next_check' = now + NextCheckAfter(synced)
    /\ UNCHANGED <<now, ups, system, synced, log, offset_s, toolVars, obeys, faults, jumped>>

\* The reading fails, is no date, or is in sync, or is left alone.
ReadClock ==
    /\ check = "read"
    /\ LET verdict == Judge(ups, system, trusted) IN
         \/ Fault /\ EndCheck /\ UNCHANGED <<log, jumped>>
         \/ /\ NoFault /\ verdict = "Implausible"
            /\ EndCheck /\ UNCHANGED <<log, jumped>>
         \/ /\ NoFault /\ verdict \in {"InSync", "Untrusted"} \cup (IF Writes THEN {} ELSE {"Correct"})
            /\ Recorded(ups - system, None)
            /\ jumped' = (jumped \/ ~synced)
            /\ EndCheck
         \/ /\ NoFault /\ verdict = "Correct" /\ Writes
            /\ offset_s' = ups - system /\ check' = "set"
            /\ UNCHANGED <<trusted, next_check, log, jumped>>
    /\ UNCHANGED <<now, ups, system, synced, toolVars, obeys>>

\* set_clock, from the system clock: done, lost, or done and not acknowledged.
SetClock ==
    /\ check = "set"
    /\ \/ ups' = (IF obeys THEN system ELSE ups) /\ NoFault
          /\ check' = "verify" /\ UNCHANGED <<trusted, next_check, offset_s, log>>
       \/ /\ Fault /\ ups' \in {ups, IF obeys THEN system ELSE ups}
          /\ Recorded(offset_s, None)
          /\ EndCheck
    /\ jumped' = (jumped \/ ups' # ups)
    /\ UNCHANGED <<now, system, synced, toolVars, obeys>>

\* The read-back decides whether the correction is one, which starts a stretch
\* of which nothing is wrong yet.
Verify ==
    /\ check = "verify"
    /\ \/ /\ NoFault /\ Judge(ups, system, TRUE) = "InSync"
          /\ Recorded(offset_s, ups - system)
          /\ jumped' = ~synced
       \/ /\ IF Judge(ups, system, TRUE) = "InSync" THEN Fault ELSE NoFault
          /\ Recorded(offset_s, None) /\ UNCHANGED jumped
    /\ EndCheck
    /\ UNCHANGED <<now, ups, system, synced, toolVars, obeys>>

-----------------------------------------------------------------------------
(* argonctl rtc, with the port to itself. *)

Unsettled == UNCHANGED <<now, system, synced, log, checkVars, obeys>>

\* t15_preconditions and t17_preconditions; argond is stopped for it.
BeginT15 ==
    /\ check = "off" /\ experiment = "none"
    /\ Writes /\ wake = None /\ synced /\ ups # Implausible
    /\ experiment' = "wrong"
    /\ Unsettled /\ UNCHANGED <<ups, confirmed, restored, wake, first, faults, jumped>>

\* send_set: what comes back is printed, not judged; a failure to send is.
Sent(to, step, failed) ==
    /\ \/ ups' = (IF obeys THEN to ELSE ups) /\ NoFault /\ experiment' = step
       \/ Fault /\ UNCHANGED ups /\ experiment' \in {step, failed}
    /\ jumped' = (jumped \/ ups' # ups)

SendWrong ==
    /\ experiment = "wrong" /\ Sent(system - Wrong, "reread", "restore")
    /\ Unsettled /\ UNCHANGED <<confirmed, restored, wake, first>>

\* check_readback, of a wrong time and of the right one.
ReadsBack(to, result) ==
    \/ result' = (ups # Implausible /\ Abs(ups - to) <= Threshold) /\ NoFault
    \/ result' = FALSE /\ Fault

Reread ==
    /\ experiment = "reread" /\ experiment' = "restore"
    /\ ReadsBack(system - Wrong, confirmed)
    /\ Unsettled /\ UNCHANGED <<ups, restored, wake, first, jumped>>

\* Always, whatever was read back.
Restore ==
    /\ experiment = "restore" /\ Sent(system, "rereadRight", "report")
    /\ Unsettled /\ UNCHANGED <<confirmed, restored, wake, first>>

RereadRight ==
    /\ experiment = "rereadRight" /\ experiment' = "report"
    /\ ReadsBack(system, restored)
    /\ Unsettled /\ UNCHANGED <<ups, confirmed, wake, first, jumped>>

Over == experiment' = "none" /\ confirmed' = FALSE /\ restored' = FALSE /\ first' = FALSE

\* report: the warning that the clock may still be wrong.
Warned == confirmed /\ ~restored

Report ==
    /\ experiment = "report" /\ Over
    /\ Unsettled /\ UNCHANGED <<ups, wake, faults, jumped>>

\* T17: two different schedules, each read back; a read-back may be missing, and
\* a first one that is does not end the experiment.
BeginT17 ==
    /\ check = "off" /\ experiment = "none" /\ Writes /\ wake = None
    /\ experiment' = "first"
    /\ Unsettled /\ UNCHANGED <<ups, confirmed, restored, wake, first, faults, jumped>>

WriteWake(step, n, result) ==
    /\ experiment = step
    /\ wake' = IF obeys THEN n ELSE wake
    /\ \/ result' = (wake' = n) /\ NoFault
       \/ result' = FALSE /\ Fault
    /\ Unsettled /\ UNCHANGED <<ups, restored, jumped>>

WriteFirst == WriteWake("first", 1, first) /\ experiment' = "second" /\ UNCHANGED confirmed
WriteSecond == WriteWake("second", 2, confirmed) /\ experiment' = "result" /\ UNCHANGED first

Result ==
    /\ experiment = "result" /\ Over
    /\ Unsettled /\ UNCHANGED <<ups, wake, faults, jumped>>

\* Interrupted: by ^C, or with the terminal.
Interrupted ==
    /\ experiment # "none" /\ Over /\ Fault
    /\ Unsettled /\ UNCHANGED <<ups, wake, jumped>>

-----------------------------------------------------------------------------
(* The rest of the machine. *)

ArgondStops ==
    /\ check # "off" /\ Fault
    /\ check' = "off" /\ next_check' = 0 /\ trusted' = FALSE /\ offset_s' = 0
    /\ UNCHANGED <<now, ups, system, synced, log, toolVars, obeys, jumped>>

ArgondStarts ==
    /\ check = "off" /\ experiment = "none"
    /\ check' = "rest" /\ next_check' = now
    /\ UNCHANGED <<now, ups, system, synced, log, trusted, offset_s, toolVars, obeys, faults, jumped>>

NtpSyncs ==
    /\ ~synced /\ synced' = TRUE /\ system' = 0
    /\ UNCHANGED <<now, ups, log, checkVars, toolVars, obeys, faults, jumped>>

DeepDischarge ==
    /\ Fault /\ ups' \in {Implausible, -2 * Wrong} /\ jumped' = TRUE
    /\ UNCHANGED <<now, system, synced, log, checkVars, toolVars, obeys>>

Tick ==
    /\ now < MaxTime /\ check \in {"off", "rest"} /\ experiment = "none"
    /\ check = "rest" => next_check > now
    /\ now' = now + 1
    /\ ups' = IF ups = Implausible THEN ups ELSE ups + Drift
    /\ UNCHANGED <<system, synced, log, checkVars, toolVars, obeys, faults, jumped>>

Check == BeginCheck \/ ReadClock \/ SetClock \/ Verify
T15 == BeginT15 \/ SendWrong \/ Reread \/ Restore \/ RereadRight \/ Report
T17 == BeginT17 \/ WriteFirst \/ WriteSecond \/ Result
World == ArgondStops \/ ArgondStarts \/ NtpSyncs \/ DeepDischarge \/ Tick
Next == Check \/ T15 \/ T17 \/ Interrupted \/ World

\* argond is started again, time and the checks go on.
Experiment == SendWrong \/ Reread \/ Restore \/ RereadRight \/ Report
WakeExperiment == WriteFirst \/ WriteSecond \/ Result

Spec ==
    /\ Init /\ [][Next]_vars
    /\ WF_vars(Check) /\ WF_vars(ArgondStarts) /\ WF_vars(Tick) /\ WF_vars(NtpSyncs)
    /\ WF_vars(Experiment) /\ WF_vars(WakeExperiment)

-----------------------------------------------------------------------------
\* The rate on record is the drift: no correction falls inside the stretch it is
\* taken over, whatever was cut from the record, unless a clock was stepped and
\* the check could not say so.
RateIsDrift == Rate(log) # None /\ ~jumped => Rate(log)[1] = Drift * Rate(log)[2]
\* "Within it, the UPS clock is running free"
RateIsAlwaysDrift == Rate(log) # None /\ synced => Rate(log)[1] = Drift * Rate(log)[2]

\* A clock that can be read and set is right again and again, after a deep
\* discharge, a failed correction or an experiment that was interrupted.
ClockComesRight ==
    Writes /\ obeys => []<>(ups = Implausible \/ Abs(ups) <= Threshold)

\* argond never sets the UPS clock from a system clock it does not trust.
NeverSetWrong == [][SetClock /\ ups' # ups => ups' = 0]_vars

\* An experiment that says it went well leaves the clock right, and one that
\* confirms a write had a device that stores it.
ExperimentsTell ==
    [][/\ RereadRight /\ confirmed /\ restored' => obeys /\ Abs(ups) <= Threshold
       /\ Result /\ first /\ confirmed => obeys]_vars

\* The clock is never set wrong by argond, the experiments say of it only what
\* is, and it comes right.
ClockIsKept == NeverSetWrong /\ ExperimentsTell /\ ClockComesRight

\* "must not be left that way"
WrongClockIsSaid == [][Report /\ ups # Implausible /\ Abs(ups) > Threshold => Warned]_vars
=============================================================================
