-------------------------------- MODULE Tray --------------------------------
(***************************************************************************)
(* crates/argon-tray: the panel icon.  A poll loop reads logind and the    *)
(* status file and pushes what has changed; the menu, in another thread,   *)
(* offers what the pushed state allows, and writes its own outcome into    *)
(* that state.  The menu holds the tray while it asks the daemon, so a     *)
(* push waits, but the loop goes on reading.                               *)
(***************************************************************************)
EXTENDS Desk

CONSTANTS
    Lead,         \* ticks from a request to its poweroff, wake::POWEROFF_DELAY
    CanWake,      \* what CanPoweroffWithWake may answer, None with no daemon
    Hasty,        \* whether others use logind between a click and the next read
    MaxClicks     \* bound: clicks in the menu

\* What is pending, as wake::Pending has it.
Pendings == [at : Int, wake : BOOLEAN]

ASSUME TrayAssumption ==
    /\ Lead \in Nat \ {0}
    /\ CanWake \subseteq {"yes", "challenge", "no", "na", None}
    /\ Hasty \in BOOLEAN
    /\ MaxClicks \in Nat
    /\ None \notin Pendings

VARIABLES
    poll,           \* the step of the poll loop
    scheduled,      \* logind_scheduled in this round
    now_pending,    \* what the round makes of it
    shown_pending,  \* what was pushed last
    tray_pending,   \* ArgonTray::pending
    tray_ours,      \* the poweroff of this tray's last request
    view,           \* the status shown: Reading
    can_wake,
    menu,           \* "closed", or the request under way
    answered,       \* the daemon's answer to it: a poweroff, or None
    clicks,
    blind           \* history: sched has changed since the loop last read it

trayVars == <<poll, scheduled, now_pending, shown_pending, tray_pending, tray_ours,
              view, can_wake, menu, answered, clicks, blind>>

TrayInit ==
    /\ poll = "refresh" /\ scheduled = None /\ now_pending = None
    /\ shown_pending = None /\ tray_pending = None /\ tray_ours = None
    /\ view = Interpret(None, 0) /\ can_wake = None
    /\ menu = "closed" /\ answered = None /\ clicks = 0 /\ blind = TRUE

Pending(at, wake) == [at |-> at, wake |-> wake]

\* wake::pending: the wake is attached only to the poweroff this tray asked for.
PendingOf(s, asked) ==
    IF s = None THEN None
    ELSE Pending(s.at, asked # None /\ s.at = asked)

\* wake::offer
Offer == view.is # "PowerOffPending" /\ tray_pending = None /\ can_wake \in {"yes", "challenge"}

-----------------------------------------------------------------------------
(* The poll loop. *)

\* Once a minute: whether a wake can be offered.
Refresh ==
    /\ on /\ poll = "refresh" /\ menu = "closed"
    /\ can_wake' \in CanWake
    /\ poll' = "logind"
    /\ UNCHANGED <<deskVars, scheduled, now_pending, shown_pending, tray_pending, tray_ours,
                   view, menu, answered, clicks, blind>>

\* A read that fails is None, as nothing scheduled is.
TrayReadsLogind ==
    /\ on /\ poll = "logind"
    /\ scheduled' \in {sched, None}
    /\ blind' = (scheduled' # sched)
    /\ poll' = "ours"
    /\ UNCHANGED <<deskVars, now_pending, shown_pending, tray_pending, tray_ours,
                   view, can_wake, menu, answered, clicks>>

ReadOurs ==
    /\ on /\ poll = "ours"
    /\ now_pending' = PendingOf(scheduled, tray_ours)
    /\ poll' = "push"
    /\ UNCHANGED <<deskVars, scheduled, shown_pending, tray_pending, tray_ours,
                   view, can_wake, menu, answered, clicks, blind>>

\* Mutant: the first reading is kept until another differs from it in what is
\* pending.
PushOnce ==
    /\ on /\ poll = "push"
    /\ IF (now_pending = None) = (shown_pending = None) THEN UNCHANGED <<tray_pending, shown_pending>>
       ELSE menu = "closed" /\ tray_pending' = now_pending /\ shown_pending' = now_pending
    /\ poll' = "view"
    /\ UNCHANGED <<deskVars, scheduled, now_pending, tray_ours,
                   view, can_wake, menu, answered, clicks, blind>>

\* Only a change is pushed, and the push waits for the menu.
Push ==
    /\ on /\ poll = "push"
    /\ IF now_pending = shown_pending THEN UNCHANGED <<tray_pending, shown_pending>>
       ELSE menu = "closed" /\ tray_pending' = now_pending /\ shown_pending' = now_pending
    /\ poll' = "view"
    /\ UNCHANGED <<deskVars, scheduled, now_pending, tray_ours,
                   view, can_wake, menu, answered, clicks, blind>>

ReadView ==
    /\ on /\ poll = "view" /\ menu = "closed"
    /\ view' = Interpret(file, now)
    /\ poll' \in {"refresh", "logind"}
    /\ UNCHANGED <<deskVars, scheduled, now_pending, shown_pending, tray_pending, tray_ours,
                   can_wake, menu, answered, clicks, blind>>

-----------------------------------------------------------------------------
(* The menu. *)

\* "Power off now... and wake": the daemon sets the wake and schedules the
\* poweroff (module Wake), or refuses.
AskPowerOff ==
    /\ on /\ menu = "closed" /\ clicks < MaxClicks /\ Offer
    /\ clicks' = clicks + 1
    /\ \/ up /\ sched' = Scheduled(now + Lead, "wake") /\ answered' = sched'
       \/ UNCHANGED sched /\ answered' = None
    /\ menu' = "asked"
    /\ blind' = (blind \/ sched' # sched)
    /\ UNCHANGED <<now, on, up, level, recorded, stood_down, due, file, acts,
                   poll, scheduled, now_pending, shown_pending, tray_pending, tray_ours, view, can_wake>>

\* power_off_and_wake: the outcome is written into the tray at once.
NotePowerOff ==
    /\ on /\ menu = "asked"
    /\ IF answered = None THEN UNCHANGED <<tray_pending, tray_ours>>
       ELSE tray_ours' = answered.at /\ tray_pending' = Pending(answered.at, TRUE)
    /\ menu' = "closed" /\ answered' = None
    /\ UNCHANGED <<deskVars, poll, scheduled, now_pending, shown_pending, view, can_wake, clicks, blind>>

\* "Cancel the ..." of a shutdown that is not the battery's: one step.
AskCancel ==
    /\ on /\ menu = "closed" /\ clicks < MaxClicks
    /\ tray_pending # None /\ view.is # "PowerOffPending"
    /\ clicks' = clicks + 1
    /\ \/ sched' = None /\ tray_pending' = None
       \/ UNCHANGED <<sched, tray_pending>>
    /\ blind' = (blind \/ sched' # sched)
    /\ UNCHANGED <<now, on, up, level, recorded, stood_down, due, file, acts, poll, scheduled,
                   now_pending, shown_pending, tray_ours, view, can_wake, menu, answered>>

\* "Cancel the scheduled poweroff": of the battery's, after a second click; the
\* tray waits for the coordinator to stand down and publish.
AskCancelBattery ==
    /\ on /\ menu = "closed" /\ clicks < MaxClicks /\ view.is = "PowerOffPending"
    /\ clicks' = clicks + 1
    /\ sched' \in {sched, None}
    /\ (sched' # sched /\ ~Hasty) => tray_pending = shown_pending
    /\ blind' = (blind \/ sched' # sched)
    /\ UNCHANGED <<now, on, up, level, recorded, stood_down, due, file, acts, poll, scheduled, now_pending,
                   shown_pending, tray_pending, tray_ours, view, can_wake, menu, answered>>

Loop == Refresh \/ TrayReadsLogind \/ ReadOurs \/ Push \/ ReadView
Menu == AskPowerOff \/ NotePowerOff \/ AskCancel \/ AskCancelBattery

\* What the rest of the machine does to the tray: nothing but go on behind it.
TrayBystander ==
    /\ blind' = (blind \/ sched' # sched)
    /\ (sched' # sched /\ ~Hasty) => menu = "closed" /\ tray_pending = shown_pending
    /\ UNCHANGED <<poll, scheduled, now_pending, shown_pending, tray_pending, tray_ours,
                   view, can_wake, menu, answered, clicks>>
=============================================================================
