------------------------------- MODULE Wake -------------------------------
(***************************************************************************)
(* The scheduled wake: crates/argon-device/src/wake.rs and the functions   *)
(* of crates/argon-daemon/src/ups.rs that act on it.  The UPS holds one    *)
(* wake schedule.  A control request sets it together with a poweroff, and *)
(* a look every CHECK_EVERY parks whatever would come due on a running     *)
(* machine.  Both run on the UPS thread, one exchange with the UPS or with *)
(* logind at a time; `phase` is where that thread stands.                  *)
(*                                                                         *)
(* Times are whole numbers of one unit.  `lookBy` is the assumption made   *)
(* on scheduling: a look ends within Slack of its being due, polls, other  *)
(* work and restarts of the daemon included, and so does any piece of work *)
(* after it read the clock.                                                *)
(***************************************************************************)
EXTENDS Integers

CONSTANTS
    None,           \* no schedule, no request, no poweroff
    BadDate,        \* a schedule that names no real date
    ParkAt,         \* PARK_AT
    ParkWindow,     \* PARK_WINDOW
    CheckEvery,     \* CHECK_EVERY
    MinLead,        \* MIN_LEAD
    PoweroffDelay,  \* POWEROFF_DELAY
    Minute,         \* the resolution of a schedule
    LastTime,       \* the last time the UPS can hold
    Slack,          \* how late a look may end, and how long work may take
    Skew,           \* how far the UPS clock may be ahead of the system's
    WakeWrites,     \* Writes::wake: mode "full"
    Faults,         \* which of "read", "write" and "command" may fail
    FirstWakes,     \* what the schedule may be when the machine boots
    Leads,          \* how far ahead a wake is requested
    Horizon,        \* bound: the time at which the clock stops
    MaxRequests,    \* bound: control requests
    MaxOthers,      \* bound: what others do to logind's poweroff
    MaxRestarts     \* bound: restarts of the daemon

ASSUME WakeAssumption ==
    /\ {ParkAt, LastTime} \subseteq Int
    /\ {ParkWindow, CheckEvery, MinLead, PoweroffDelay, Minute} \subseteq Nat \ {0}
    /\ {Slack, Skew, Horizon, MaxRequests, MaxOthers, MaxRestarts} \subseteq Nat
    /\ WakeWrites \in BOOLEAN
    /\ Faults \subseteq {"read", "write", "command"}
    /\ FirstWakes \subseteq Int \cup {None, BadDate}
    /\ Leads \subseteq Nat

\* A poweroff as logind holds it.
Poweroff == [at : Int, wake : Int \cup {None}]

ASSUME NoneAssumption ==
    /\ {None, BadDate} \cap Int = {} /\ None # BadDate
    /\ None \notin Poweroff

\* The assertions of wake.rs.
ASSUME ConstAssertions ==
    /\ CheckEvery < ParkWindow
    /\ MinLead > ParkWindow + PoweroffDelay + Minute

\* PARK_AT is decades away, and nobody asks for it.
ASSUME ParkedIsInert ==
    /\ ParkAt > Horizon + CheckEvery + Slack + Skew
    /\ \A lead \in Leads : Horizon + lead < ParkAt

VARIABLES
    on,        \* the machine runs
    now,       \* the system clock
    wake,      \* the UPS: its wake schedule
    poweroff,  \* logind: the poweroff pending, and the wake it came with
    phase,     \* where the UPS thread stands
    clock,     \* unix_now() as read at the start of the work in progress
    nextLook,  \* next_wake_check
    asked,     \* the schedule the last request came to
    answer,    \* what the last request was answered
    lookBy,    \* when the look in progress or to come has ended at the latest
    looked,    \* history: the last look since the boot was carried through
    requests, others, restarts  \* how many there have been

counters == <<requests, others, restarts>>
vars == <<on, now, wake, poweroff, phase, clock, nextLook, asked, answer,
          lookBy, looked, counters>>

-----------------------------------------------------------------------------
(* The rules. *)

\* A schedule has no seconds: down to the whole minute.
WholeMinute(at) == at - (at % Minute)

\* Mutant: the window is no longer than the time between looks.
MustParkLate(found, at) == found = BadDate \/ (found \in Int /\ found - at <= CheckEvery)

\* assess: past, due within the window, or of unknown date.
MustPark(found, at) ==
    \/ found = BadDate
    \/ found \in Int /\ found - at <= ParkWindow

\* Mutant: a lead of five minutes, inside the window.
ScheduleForSoon(at, from) ==
    IF WholeMinute(at) - from < CheckEvery \/ WholeMinute(at) > LastTime
    THEN None ELSE WholeMinute(at)

\* schedule_for: None if it is too soon once rounded, or out of range.
ScheduleFor(at, from) ==
    IF WholeMinute(at) - from < MinLead \/ WholeMinute(at) > LastTime
    THEN None ELSE WholeMinute(at)

\* The UPS goes by its own clock.
Due == wake \in Int /\ wake <= now + Skew

\* A write is carried out and acknowledged, carried out, or lost.
WriteOutcomes ==
    {"ok"} \cup (IF "write" \in Faults THEN {"reply lost", "request lost"} ELSE {})
Written(t, outcome) == IF outcome = "request lost" THEN wake ELSE t

Phases == {"idle", "look", "park", "set", "readback", "poweroff", "unset"}
Answers == {"none", "refused", "failed", "scheduled"}

Init ==
    /\ on = TRUE /\ now = 0
    /\ wake \in FirstWakes
    /\ poweroff = None
    /\ phase = "idle" /\ clock = 0 /\ nextLook = 0 /\ lookBy = Slack
    /\ asked = None /\ answer = "none" /\ looked = FALSE
    /\ requests = 0 /\ others = 0 /\ restarts = 0

-----------------------------------------------------------------------------
(* The look: check_wake. *)

StartLook ==
    /\ on /\ phase = "idle" /\ now >= nextLook
    /\ phase' = "look"
    /\ clock' = now
    /\ UNCHANGED <<on, now, wake, poweroff, nextLook, asked, answer, lookBy, looked, counters>>

LookDone ==
    /\ phase' = "idle"
    /\ nextLook' = now + CheckEvery
    /\ lookBy' = now + CheckEvery + Slack

\* The schedule is read, and left or found to need parking; without write
\* access that is a warning in the journal.
Look ==
    /\ on /\ phase = "look"
    /\ IF WakeWrites /\ MustPark(wake, clock)
       THEN phase' = "park" /\ UNCHANGED <<nextLook, lookBy, looked>>
       ELSE LookDone /\ looked' = TRUE
    /\ UNCHANGED <<on, now, wake, poweroff, clock, asked, answer, counters>>

\* The query is not answered: the next attempt is the next look.
LookFails ==
    /\ on /\ phase = "look" /\ "read" \in Faults
    /\ LookDone /\ looked' = FALSE
    /\ UNCHANGED <<on, now, wake, poweroff, clock, asked, answer, counters>>

Park ==
    /\ on /\ phase = "park"
    /\ \E o \in WriteOutcomes :
         /\ wake' = Written(ParkAt, o)
         /\ looked' = (o # "request lost")
    /\ LookDone
    /\ UNCHANGED <<on, now, poweroff, clock, asked, answer, counters>>

-----------------------------------------------------------------------------
(* The request: handle_request. *)

Answer(a) == phase' = "idle" /\ answer' = a

Request(at) ==
    /\ on /\ phase = "idle"
    /\ requests < MaxRequests
    /\ requests' = requests + 1
    /\ clock' = now
    /\ IF WakeWrites /\ ScheduleFor(at, now) # None
       THEN phase' = "set" /\ asked' = ScheduleFor(at, now) /\ answer' = "none"
       ELSE Answer("refused") /\ asked' = None
    /\ UNCHANGED <<on, now, wake, poweroff, nextLook, lookBy, looked, others, restarts>>

\* A write that is not acknowledged is reported, and not undone.
SetWake ==
    /\ on /\ phase = "set"
    /\ \E o \in WriteOutcomes :
         /\ wake' = Written(asked, o)
         /\ IF o = "ok" THEN phase' = "readback" /\ UNCHANGED answer
            ELSE Answer("failed")
    /\ UNCHANGED <<on, now, poweroff, clock, nextLook, asked, lookBy, looked, counters>>

ReadBack ==
    /\ on /\ phase = "readback"
    /\ \/ phase' = IF wake = asked THEN "poweroff" ELSE "unset"
       \/ "read" \in Faults /\ phase' = "unset"
    /\ UNCHANGED <<on, now, wake, poweroff, clock, nextLook, asked, answer, lookBy,
                   looked, counters>>

\* `shutdown --poweroff`, in place of whatever is pending.
SchedulePoweroff ==
    /\ on /\ phase = "poweroff"
    /\ poweroff' = [at |-> now + PoweroffDelay, wake |-> asked]
    /\ Answer("scheduled")
    /\ UNCHANGED <<on, now, wake, clock, nextLook, asked, lookBy, looked, counters>>

\* Mutant: the wake is left standing.
ScheduleFailsLive ==
    /\ on /\ phase = "poweroff" /\ "command" \in Faults
    /\ Answer("failed")
    /\ UNCHANGED <<on, now, wake, poweroff, clock, nextLook, asked, lookBy, looked, counters>>

ScheduleFails ==
    /\ on /\ phase = "poweroff" /\ "command" \in Faults
    /\ phase' = "unset"
    /\ UNCHANGED <<on, now, wake, poweroff, clock, nextLook, asked, answer, lookBy,
                   looked, counters>>

\* park, before the request is answered with an error.
Unset ==
    /\ on /\ phase = "unset"
    /\ \E o \in WriteOutcomes : wake' = Written(ParkAt, o)
    /\ Answer("failed")
    /\ UNCHANGED <<on, now, poweroff, clock, nextLook, asked, lookBy, looked, counters>>

-----------------------------------------------------------------------------
(* The machine, and everybody else. *)

\* An operator cancels the pending poweroff, or places another one.
OthersAct(p) ==
    /\ on /\ others < MaxOthers
    /\ poweroff' = p
    /\ others' = others + 1
    /\ UNCHANGED <<on, now, wake, phase, clock, nextLook, asked, answer, lookBy, looked,
                   requests, restarts>>

OthersCancel == poweroff # None /\ OthersAct(None)
OthersSchedule == OthersAct([at |-> now + PoweroffDelay, wake |-> None])

\* The daemon dies anywhere and is started again: a look is due at once.
Restart ==
    /\ on /\ restarts < MaxRestarts
    /\ restarts' = restarts + 1
    /\ phase' = "idle" /\ clock' = now /\ nextLook' = now
    /\ asked' = None /\ answer' = "none"
    /\ UNCHANGED <<on, now, wake, poweroff, lookBy, looked, requests, others>>

Off ==
    /\ on /\ poweroff # None /\ now = poweroff.at
    /\ on' = FALSE
    /\ UNCHANGED <<now, wake, poweroff, phase, clock, nextLook, asked, answer, lookBy,
                   looked, counters>>

\* The UPS, the power button or returning mains start the machine.
Boot ==
    /\ ~on
    /\ on' = TRUE
    /\ poweroff' = None
    /\ phase' = "idle" /\ clock' = now /\ nextLook' = now /\ lookBy' = now + Slack
    /\ asked' = None /\ answer' = "none" /\ looked' = FALSE
    /\ UNCHANGED <<now, wake, counters>>

Tick ==
    /\ now < Horizon
    /\ on => /\ now < lookBy
             /\ phase # "idle" => now < clock + Slack
             /\ poweroff # None => now < poweroff.at
    /\ now' = now + 1
    /\ UNCHANGED <<on, wake, poweroff, phase, clock, nextLook, asked, answer, lookBy,
                   looked, counters>>

Next ==
    \/ StartLook \/ Look \/ LookFails \/ Park
    \/ \E lead \in Leads : Request(now + lead)
    \/ SetWake \/ ReadBack \/ SchedulePoweroff \/ ScheduleFails \/ Unset
    \/ OthersCancel \/ OthersSchedule
    \/ Restart \/ Off \/ Boot \/ Tick

Spec == Init /\ [][Next]_vars

-----------------------------------------------------------------------------
(* Properties. *)

\* Everything has its type, and a requested schedule is a whole minute, the
\* only time the register can hold.
FlagsOK == {on, looked} \subseteq BOOLEAN

TypeOK ==
    /\ FlagsOK
    /\ {now, clock, nextLook, lookBy} \subseteq Int
    /\ wake \in Int \cup {None, BadDate}
    /\ poweroff \in Poweroff \cup {None}
    /\ phase \in Phases
    /\ answer \in Answers
    /\ asked \in {t \in Int : t % Minute = 0} \cup {None}
    /\ {requests, others, restarts} \subseteq Nat

\* "A wake schedule must never come due while the machine is running": as long
\* as the last look since the boot was carried through, none is due, whatever
\* requests came after it and however they failed (wake.rs, the principle).
NeverDue ==
    WakeWrites /\ on /\ looked => ~Due

\* The safety net does not park the wake that the pending poweroff came with
\* (wake.rs, MIN_LEAD: "the machine would never come back").
ParkingSparesTheRequested ==
    [][Park /\ poweroff # None => poweroff.wake # wake]_vars

\* A request that ends in an error leaves no live schedule of its own behind
\* (ups.rs, handle_request: "the one outcome this must never produce").
NoLiveAfterError ==
    answer = "failed" /\ phase = "idle" => wake # asked

\* A machine that goes off for a requested wake has a wake to come (wake.rs,
\* MIN_LEAD; ups.rs: "the machine stays on" when it has not).
OffWithItsWake ==
    [][Off /\ poweroff.wake # None => wake \in Int \ {ParkAt} /\ wake > now + Skew]_vars

=============================================================================
