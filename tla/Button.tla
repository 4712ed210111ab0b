------------------------------- MODULE Button -------------------------------
(***************************************************************************)
(* crates/argon-device/src/button.rs and argon-daemon/src/button.rs: a     *)
(* press schedules an announced poweroff, and a press during its countdown *)
(* cancels it.  Edges queue in the kernel while the thread is at work, and *)
(* each press asks logind twice before it acts: what is pending, and whose *)
(* message it carries; and a poweroff it has scheduled is read back.       *)
(***************************************************************************)
EXTENDS Desk, Sequences

CONSTANTS
    ButtonDelay,   \* DELAY, in ticks
    Armed,         \* `[button] action` is not "none"
    Full,          \* the daemon is in mode "full"
    LogindFails,   \* whether questions and commands may fail
    Unknown        \* CannotTell: logind could not be read

ASSUME ButtonAssumption ==
    /\ ButtonDelay \in Nat \ {0}
    /\ Armed \in BOOLEAN /\ Full \in BOOLEAN /\ LogindFails \in BOOLEAN
    /\ Unknown # None /\ Unknown \notin BOOLEAN
    /\ {None, Unknown} \cap (Shutdowns \cup {[at |-> 0, by |-> "intended"]}) = {}

\* A pulse: of a press's width, of one so soon after a press that it is a
\* bounce of it (MIN_GAP), or of another width.
Pulses == {"press", "bounce", "glitch"}

VARIABLES
    pulses,      \* the edges the kernel holds for the thread
    presses,     \* bound: pulses the line may still carry
    burst,       \* a press is so recent that a pulse now would be its bounce
    press,       \* the step of the press being handled: "none" between two
    bounce,      \* it is a bounce
    pending,     \* what logind.pending() answered: its time, in microseconds, tells
                 \* one shutdown from another
    button_ours, \* Button::ours
    disturbed,   \* history: since `pending` was asked for, others used logind or an
                 \* answer failed
    mistaken     \* history: `button_ours` was read back when others had replaced it

buttonVars == <<pulses, presses, burst, press, bounce, pending, button_ours, disturbed, mistaken>>

ButtonInit ==
    /\ pulses = <<>> /\ burst = FALSE
    /\ press = "none" /\ bounce = FALSE /\ pending = None
    /\ button_ours = None /\ disturbed = FALSE /\ mistaken = FALSE

\* The time asked for, taken before the command: no shutdown of logind's has it
\* to the microsecond.
Intended == [at |-> 0, by |-> "intended"]

\* A mistake lasts as long as its record.
KeepsMistake == mistaken' = (mistaken /\ button_ours' = button_ours)

Maybe(answer) == {answer} \cup (IF LogindFails THEN {Unknown} ELSE {})

\* The MCU pulses the line; the kernel keeps the edges with their times.
Pulse ==
    /\ on /\ presses > 0 /\ up
    /\ \E p \in Pulses :
         /\ (p = "bounce") => burst
         /\ (p = "press") => ~burst
         /\ pulses' = Append(pulses, p)
         /\ burst' = (burst \/ p = "press")
    /\ presses' = presses - 1
    /\ UNCHANGED <<deskVars, press, bounce, pending, button_ours, disturbed, mistaken>>

MinGapPasses ==
    /\ burst /\ burst' = FALSE
    /\ UNCHANGED <<deskVars, pulses, presses, press, bounce, pending, button_ours, disturbed, mistaken>>

\* is_press: a pulse of another width is dropped; otherwise logind is asked.
TakePulse ==
    /\ on /\ up /\ press = "none" /\ pulses # <<>>
    /\ pulses' = Tail(pulses)
    /\ IF Head(pulses) = "glitch"
       THEN UNCHANGED <<press, bounce, pending, disturbed>>
       ELSE /\ press' = "recognise"
            /\ bounce' = (Head(pulses) = "bounce")
            /\ pending' \in Maybe(sched)
            /\ disturbed' = (pending' = Unknown)
    /\ UNCHANGED <<deskVars, presses, burst, button_ours, mistaken>>

\* recognise: a pending poweroff with the button's message is ours, also after
\* a restart.  logind's message is that of what is scheduled now.
Recognise ==
    /\ on /\ up /\ press = "recognise"
    /\ \E mine \in Maybe(sched # None /\ sched.by = "button") :
         /\ button_ours' = IF pending \notin {None, Unknown} /\ mine = TRUE
                           THEN pending ELSE button_ours
         /\ disturbed' = (disturbed \/ mine = Unknown)
    /\ press' = "act" /\ KeepsMistake
    /\ UNCHANGED <<deskVars, pulses, presses, burst, bounce, pending>>

\* Mutant: whatever is pending is taken for the button's.
ActionOfAny(p, mine) ==
    IF ~Armed \/ p = Unknown THEN "Ignore" ELSE IF p = None THEN "Schedule" ELSE "Cancel"

\* Button::press: what a press means, given what logind said.
ActionOf(p, mine) ==
    IF ~Armed \/ p = Unknown THEN "Ignore"
    ELSE IF p = None THEN "Schedule"
    ELSE IF mine = p THEN "Cancel" ELSE "Ignore"

\* What is owned after the policy has looked: nothing, once it is gone.
OwnedAfter(p, mine) == IF ~Armed \/ p = Unknown \/ p = mine THEN mine ELSE None

EndPress == press' = "none" /\ bounce' = FALSE /\ pending' = None /\ disturbed' = FALSE

\* A bounce is ignored before the policy looks at what is pending.
ActOnBounce ==
    /\ on /\ up /\ press = "act" /\ bounce
    /\ EndPress
    /\ UNCHANGED <<deskVars, pulses, presses, burst, button_ours, mistaken>>

ActIgnored ==
    /\ on /\ up /\ press = "act" /\ ~bounce
    /\ \/ ActionOf(pending, button_ours) = "Ignore"
       \/ ActionOf(pending, button_ours) = "Schedule" /\ ~Full
    /\ button_ours' = OwnedAfter(pending, button_ours)
    /\ EndPress /\ KeepsMistake
    /\ UNCHANGED <<deskVars, pulses, presses, burst>>

\* `shutdown --poweroff +1`: replaces whatever is scheduled by now.
ActSchedules ==
    /\ on /\ up /\ press = "act" /\ ~bounce
    /\ ActionOf(pending, button_ours) = "Schedule" /\ Full
    /\ button_ours' = OwnedAfter(pending, button_ours)
    /\ \/ sched' = Scheduled(now + ButtonDelay, "button")
          /\ press' = "readback" /\ UNCHANGED <<bounce, pending, disturbed>>
       \/ LogindFails /\ UNCHANGED sched /\ EndPress
    /\ KeepsMistake
    /\ UNCHANGED <<now, on, up, level, recorded, stood_down, due, file, acts, pulses, presses, burst>>

\* scheduled_time: what logind says now is taken for what was placed; with no
\* answer, or nothing scheduled any more, the time asked for is.
ReadsBack ==
    /\ on /\ up /\ press = "readback"
    /\ \E p \in Maybe(sched) :
         button_ours' = IF p \in {None, Unknown} THEN Intended ELSE p
    /\ mistaken' = (button_ours'.by \notin {"button", "intended"})
    /\ EndPress
    /\ UNCHANGED <<deskVars, pulses, presses, burst>>

\* `shutdown -c`: cancels whatever is scheduled by now.
ActCancels ==
    /\ on /\ up /\ press = "act" /\ ~bounce
    /\ ActionOf(pending, button_ours) = "Cancel"
    /\ \/ sched' = None /\ button_ours' = None
       \/ LogindFails /\ UNCHANGED <<sched, button_ours>>
    /\ EndPress /\ KeepsMistake
    /\ UNCHANGED <<now, on, up, level, recorded, stood_down, due, file, acts, pulses, presses, burst>>

Press == \/ TakePulse \/ Recognise \/ ActOnBounce \/ ActIgnored \/ ActSchedules
         \/ ReadsBack \/ ActCancels

\* What the rest of the machine does to the thread: a restart of the daemon
\* forgets the policy and the edges, and a shutdown may change under a press.
ButtonBystander ==
    /\ IF up' THEN UNCHANGED <<pulses, press, bounce, pending, button_ours>>
       ELSE /\ pulses' = <<>> /\ press' = "none" /\ bounce' = FALSE
            /\ pending' = None /\ button_ours' = None
    /\ burst' = (burst /\ up' /\ now' = now)
    /\ disturbed' = (up' /\ (disturbed \/ (press # "none" /\ sched' # sched)))
    /\ mistaken' = (up' /\ mistaken)
    /\ UNCHANGED presses
=============================================================================
