----------------------------- MODULE StatusFile -----------------------------
(***************************************************************************)
(* crates/argon-device/src/status.rs: what the daemon publishes about the  *)
(* battery, what a reader may take it to mean, and which change of it is   *)
(* worth telling a person.  Pure functions of one or two snapshots; the    *)
(* text of a notice is a token, and a time is a number of ticks.           *)
(***************************************************************************)
EXTENDS Integers

CONSTANTS
    None,        \* an absent field, an absent file, no notice
    StaleAfter   \* STALE_AFTER, in ticks

ASSUME StaleAssumption == StaleAfter \in Nat
ABSENT == "absent"
MISSING == "missing"
BatteryLevels == {"on-battery", "low", "critical"}
KnownLevels == {"on-mains"} \cup BatteryLevels
\* What a daemon may publish, and a name this build does not know.
LevelNames == KnownLevels \cup {"unknown", ABSENT, MISSING, "newer"}

\* source_of: which power source a level implies.
SourceOf(level) ==
    CASE level = "on-mains" -> "mains"
      [] level \in BatteryLevels -> "battery"
      [] OTHER -> "unknown"

\* A snapshot: `percent` and `shutdown_at` may be None; `missing` is the record
\* of the unit that is gone, kept only to the extent that there is one.
Snapshot(updated, level, percent, shutdown_at, missing) ==
    [updated |-> updated, level |-> level, percent |-> percent,
     shutdown_at |-> shutdown_at, missing |-> missing]

Snapshots == [updated : Int, level : LevelNames, percent : {None} \cup Int,
              shutdown_at : {None} \cup Int, missing : BOOLEAN]

\* The lines of the file, as the keys that are present with a value: an empty
\* value and an absent key are read alike, and a whole second is all that is
\* kept of a time (Second is the number of ticks of the clock in one).
CONSTANT Second
ASSUME SecondAssumption == Second \in Nat \ {0}
Whole(t) == IF t = None THEN None ELSE t \div Second

ToText(s) ==
    [version |-> 1, updated |-> Whole(s.updated), level |-> s.level,
     percent |-> s.percent, shutdown_at |-> Whole(s.shutdown_at),
     missing |-> s.missing]

\* parse: an unknown version, a missing required field or a percentage that is
\* no u8 is an error (None).
Parse(text) ==
    IF \/ text.version # 1
       \/ text.updated = None
       \/ text.level = None
       \/ text.percent \notin {None} \cup 0..255
    THEN None
    ELSE Snapshot(text.updated * Second, text.level, text.percent,
                  IF text.shutdown_at = None THEN None ELSE text.shutdown_at * Second,
                  text.missing)

-----------------------------------------------------------------------------
(* interpret: what a snapshot means at a moment. *)

Age(s, now) == IF now < s.updated THEN 0 ELSE now - s.updated
IsStale(s, now) == Age(s, now) > StaleAfter

Interpret(s, now) ==
    IF s = None THEN [is |-> "NoData"]
    ELSE IF IsStale(s, now) THEN [is |-> "Stale"]
    ELSE IF s.level = ABSENT THEN [is |-> "NoUps"]
    ELSE IF s.level = MISSING THEN [is |-> "UpsMissing"]
    ELSE IF s.percent = None \/ s.level = "unknown" THEN [is |-> "Failed"]
    ELSE IF s.shutdown_at # None
         THEN [is |-> "PowerOffPending", percent |-> s.percent, at |-> s.shutdown_at]
    ELSE [is |-> "Current", percent |-> s.percent, level |-> s.level]

-----------------------------------------------------------------------------
(* notice: whether a change of the status deserves a notification. *)

Urgencies == {"Normal", "Critical"}
NoticeTexts == {"powering off", "restored, cancelled", "cancelled", "stopped updating",
                "missing", "connected again", "connected", "on battery", "low", "critical",
                "restored", "lost contact", "button", "scheduled"}

Notice(urgency, text) == [urgency |-> urgency, text |-> text]

\* An absent thing is neither a time nor a snapshot nor a notice.
ASSUME NoneAssumption ==
    None \notin Int \cup Snapshots \cup [urgency : Urgencies, text : NoticeTexts]

\* A level that is new to the reader.
FirstSight(level) ==
    CASE level = MISSING -> Notice("Normal", "missing")
      [] level = "low" -> Notice("Normal", "low")
      [] level = "critical" -> Notice("Critical", "critical")
      [] OTHER -> None

\* A level that differs from the one before: a unit that comes back is said
\* before what it reports, and mains returning only of one that was there.
ChangeText(before, level) ==
    IF before = MISSING THEN "connected again"
    ELSE IF before = ABSENT THEN "connected"
    ELSE CASE level = "on-battery" /\ before = "on-mains" -> "on battery"
           [] level = "low" -> "low"
           [] level = "critical" -> "critical"
           [] level = "on-mains" -> "restored"
           [] level = "unknown" -> "lost contact"
           [] OTHER -> None

LevelChange(before, level) ==
    IF level = MISSING THEN Notice("Normal", "missing")
    ELSE IF level = ABSENT \/ ChangeText(before, level) = None THEN None
    ELSE Notice(IF level = "critical" THEN "Critical" ELSE "Normal", ChangeText(before, level))

\* Mutants: mains returning is relief enough; a change of level outranks a
\* poweroff that goes.
NoticeOfMains(before, s) ==
    LET was == IF before = None THEN None ELSE before.shutdown_at IN
    IF s.shutdown_at # None /\ was = None THEN Notice("Critical", "powering off")
    ELSE IF was # None /\ (s.shutdown_at = None \/ s.level = "on-mains")
    THEN Notice("Normal", "restored, cancelled")
    ELSE None

\* A poweroff that appears or goes outranks the level.
NoticeOf(before, s) ==
    LET was == IF before = None THEN None ELSE before.shutdown_at IN
    IF s.shutdown_at # None /\ was = None THEN Notice("Critical", "powering off")
    ELSE IF s.shutdown_at = None /\ was # None
    THEN Notice("Normal", IF s.level = "on-mains" THEN "restored, cancelled" ELSE "cancelled")
    ELSE IF before = None THEN FirstSight(s.level)
    ELSE IF before.level = s.level THEN None
    ELSE LevelChange(before.level, s.level)

-----------------------------------------------------------------------------
(* Watcher: successive reads of the file. *)

NewWatcher == [last |-> None, stale_reported |-> FALSE]

\* observe: what is said of one read, and what is remembered of it.
Observed(w, s, now) ==
    IF s = None THEN w
    ELSE IF IsStale(s, now) THEN [w EXCEPT !.stale_reported = TRUE]
    ELSE [last |-> s, stale_reported |-> FALSE]

SaidOf(w, s, now) ==
    IF s = None THEN None
    ELSE IF IsStale(s, now)
    THEN IF w.last # None /\ ~w.stale_reported
         THEN Notice("Normal", "stopped updating") ELSE None
    ELSE NoticeOf(w.last, s)
=============================================================================
