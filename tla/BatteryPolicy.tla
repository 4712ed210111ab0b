--------------------------- MODULE BatteryPolicy ---------------------------
(***************************************************************************)
(* The battery policy of crates/argon-proto/src/ups/policy.rs: what one    *)
(* poll of the UPS, answered or not, does to the classification of the     *)
(* supply, and when the policy advises a shutdown or confirms a recovery.  *)
(*                                                                         *)
(* The policy itself is the record `policy`; the operators NewPolicy,      *)
(* Observed and DecisionOn are the code and are what the other modules     *)
(* compose.  The specification of this module feeds them every sequence    *)
(* of polls and keeps the whole sequence in `polls`, so that the           *)
(* properties can say what the reported level MEANS in terms of the        *)
(* readings, without the counters the code keeps.                          *)
(***************************************************************************)
EXTENDS Integers, Sequences, FiniteSets

CONSTANTS
    LowPercent,       \* PolicyConfig::low_percent
    CriticalPercent,  \* PolicyConfig::critical_percent
    RecoverMargin,    \* PolicyConfig::recover_margin
    Confirmations,    \* PolicyConfig::confirmations
    MinUptime,        \* PolicyConfig::min_uptime
    MaxStreak,        \* where the u8 streaks saturate: 255 in the code
    Readings,         \* the readings a poll may return
    Uptimes,          \* the uptimes a poll may happen at
    MaxPolls          \* bound: polls in one behaviour

\* A reading as the link can deliver it; the percentage is a raw u8.
Reading == [source : {"mains", "battery"}, percent : 0..255]

\* PolicyConfig::validate, and the width of the counters.
ASSUME PolicyAssumption ==
    /\ LowPercent \in 0..100
    /\ CriticalPercent \in 0..100
    /\ CriticalPercent < LowPercent
    /\ Confirmations \in Nat \ {0}
    /\ RecoverMargin \in Nat \ {0}
    /\ MaxStreak \in Nat
    /\ Confirmations <= MaxStreak
    /\ MinUptime \in Nat

ASSUME InputAssumption ==
    /\ Readings \subseteq Reading
    /\ Uptimes \subseteq Nat
    /\ MaxPolls \in Nat

-----------------------------------------------------------------------------
(* The code. *)

\* A poll that failed, timed out or returned stale data: `None`.
Gap == [source |-> "none", percent |-> 0]

Level == {"OnMains", "OnBattery", "Low", "Critical", "Unknown"}
Advice == {"None", "Shutdown", "HeldForUptime"}

NewPolicy ==
    [known |-> "Unknown", critical_streak |-> 0, mains_streak |-> 0,
     reported |-> "Unknown"]

IsMains(o)   == o.source = "mains"
IsBattery(o) == o.source = "battery"

\* percent.min(100)
Percent(o) == IF o.percent > 100 THEN 100 ELSE o.percent

\* saturating_add(1) on a u8
Bump(streak) == IF streak < MaxStreak THEN streak + 1 ELSE MaxStreak

IsCritical(o) == IsBattery(o) /\ Percent(o) <= CriticalPercent
Clears(o, threshold) == Percent(o) >= threshold + RecoverMargin

MainsStreak(p, o) == IF IsMains(o) THEN Bump(p.mains_streak) ELSE 0

\* Mutant: one mains blip ends the streak.
CriticalStreakBlipped(p, o) == IF IsCritical(o) THEN Bump(p.critical_streak) ELSE 0

\* The streak outlives mains blips, and only a confirmed mains run, a gap or
\* a battery reading above the threshold ends it.
CriticalStreak(p, o) ==
    IF IsCritical(o) THEN Bump(p.critical_streak)
    ELSE IF IsMains(o) /\ MainsStreak(p, o) < Confirmations THEN p.critical_streak
    ELSE 0

\* The level of a battery reading: hysteresis first, then the thresholds.
StaysOrTurnsCritical(p, o) ==
    \/ p.known = "Critical" /\ ~Clears(o, CriticalPercent)
    \/ IsCritical(o) /\ CriticalStreak(p, o) >= Confirmations

StaysOrTurnsLow(p, o) ==
    \/ p.known \in {"Critical", "Low"} /\ ~Clears(o, LowPercent)
    \/ Percent(o) <= LowPercent

BatteryLevel(p, o) ==
    IF StaysOrTurnsCritical(p, o) THEN "Critical"
    ELSE IF StaysOrTurnsLow(p, o) THEN "Low"
    ELSE "OnBattery"

ReportedLevel(p, o) ==
    IF IsMains(o) THEN "OnMains"
    ELSE IF IsBattery(o) THEN BatteryLevel(p, o)
    ELSE "Unknown"

\* Mutant: a gap leaves Critical in force.
KnownLevelKept(p, o) == IF o # Gap THEN ReportedLevel(p, o) ELSE p.known

\* What is remembered: a gap steps Critical down to Low and keeps the rest.
KnownLevel(p, o) ==
    IF o # Gap THEN ReportedLevel(p, o)
    ELSE IF p.known = "Critical" THEN "Low" ELSE p.known

Observed(p, o) ==
    [known           |-> KnownLevel(p, o),
     critical_streak |-> CriticalStreak(p, o),
     mains_streak    |-> MainsStreak(p, o),
     reported        |-> ReportedLevel(p, o)]

\* The Decision returned for the policy state `p` that the poll led to.
DecisionOn(p, uptime) ==
    [level |-> p.reported,
     advice |-> IF p.reported # "Critical" THEN "None"
                ELSE IF uptime < MinUptime THEN "HeldForUptime" ELSE "Shutdown",
     confirmed_recovery |->
        p.reported = "OnMains" /\ p.mains_streak >= Confirmations]

-----------------------------------------------------------------------------
(* Every sequence of polls. *)

VARIABLES
    policy,    \* BatteryPolicy
    decision,  \* what the last call of observe returned
    uptime,    \* the machine's uptime at the last poll
    polls      \* history: every observation so far

vars == <<policy, decision, uptime, polls>>

Init ==
    /\ policy = NewPolicy
    /\ uptime \in Uptimes
    /\ decision = DecisionOn(NewPolicy, uptime)
    /\ polls = <<>>

Observe(o) ==
    /\ Len(polls) < MaxPolls
    /\ policy' = Observed(policy, o)
    /\ \E u \in Uptimes : u >= uptime /\ uptime' = u
    /\ decision' = DecisionOn(policy', uptime')
    /\ polls' = Append(polls, o)

Next ==
    \/ \E o \in Readings : Observe(o)
    \/ Observe(Gap)

Spec == Init /\ [][Next]_vars

-----------------------------------------------------------------------------
(* What the levels mean, in terms of the polls alone. *)

CriticalAt(i) == IsCritical(polls[i])
MainsAt(i)    == IsMains(polls[i])
GapAt(i)      == polls[i] = Gap
\* A battery reading that has not cleared `threshold` by the margin.
UnclearedAt(i, threshold) == IsBattery(polls[i]) /\ ~Clears(polls[i], threshold)

\* The last Confirmations of the polls up to k, none before j, show mains.
MainsRun(j, k) ==
    /\ k - Confirmations + 1 >= j
    /\ \A i \in (k - Confirmations + 1)..k : MainsAt(i)

\* From j to k there are critical readings and mains blips, nothing else, and
\* no mains run long enough to be a recovery.
Unbroken(j, k) ==
    /\ \A i \in j..k : CriticalAt(i) \/ MainsAt(i)
    /\ \A i \in j..k : ~MainsRun(j, i)

CriticalReadings(j, k) == {i \in j..k : CriticalAt(i)}

\* At poll k the battery is critical for the Confirmations-th time.
ConfirmedAt(k) ==
    /\ CriticalAt(k)
    /\ \E j \in 1..k :
         Unbroken(j, k) /\ Cardinality(CriticalReadings(j, k)) >= Confirmations

\* The battery was confirmed critical, and since then every poll was a
\* battery reading too low to step back up.
CriticalEarned ==
    \E k \in 1..Len(polls) :
       /\ ConfirmedAt(k)
       /\ \A i \in (k + 1)..Len(polls) : UnclearedAt(i, CriticalPercent)

\* The supply was read low on battery, and since then there were only gaps
\* and battery readings too low to step back up; the last poll is a reading.
LowEarned ==
    /\ Len(polls) > 0
    /\ ~GapAt(Len(polls))
    /\ \E k \in 1..Len(polls) :
         /\ IsBattery(polls[k]) /\ Percent(polls[k]) <= LowPercent
         /\ \A i \in k..Len(polls) : GapAt(i) \/ UnclearedAt(i, LowPercent)

-----------------------------------------------------------------------------
(* Properties. *)

\* The policy, the decision and the history have their types.
TypeOK ==
    /\ policy \in [known : Level, critical_streak : 0..MaxStreak,
                   mains_streak : 0..MaxStreak, reported : Level]
    /\ decision \in [level : Level, advice : Advice, confirmed_recovery : BOOLEAN]
    /\ uptime \in Uptimes
    /\ polls \in Seq(Readings \cup {Gap})

\* A shutdown is advised only on a battery confirmed critical by enough
\* readings of its own, with no gap, no recovery and no rise above the margin
\* in between, and only on a machine up for min_uptime (policy.rs, observe).
ShutdownIsEarned ==
    decision.advice = "Shutdown" => CriticalEarned /\ uptime >= MinUptime

\* The converse: a battery confirmed critical is never passed over, however
\* mains blips and earlier levels led there; only the post-boot hold delays
\* the advice (policy.rs, classify: the streak survives a blip).
NoCriticalMissed ==
    CriticalEarned =>
        decision.advice = IF uptime < MinUptime THEN "HeldForUptime" ELSE "Shutdown"

\* A recovery is confirmed exactly by an unbroken run of mains readings that
\* reaches back over Confirmations polls; a gap or one battery reading starts
\* the count again (policy.rs, mains_streak).
RecoveryIsARun ==
    decision.confirmed_recovery <=> MainsRun(1, Len(polls))

\* Hysteresis: the level is Low or worse exactly from the first low reading
\* until a battery reading clears the threshold by the margin or mains
\* returns, gaps in between notwithstanding (policy.rs, classify and known).
LowIsSticky ==
    decision.level \in {"Low", "Critical"} <=> LowEarned

=============================================================================
