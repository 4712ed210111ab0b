-------------------------------- MODULE Desk --------------------------------
(***************************************************************************)
(* What the parts of a desktop session and the daemon's button thread all  *)
(* look at: logind's one scheduled shutdown, and the status file the UPS   *)
(* thread publishes.  The UPS thread is modelled in full in UpsThread and  *)
(* appears here with the steps that the others can see; operators and      *)
(* programs that use logind on their own are `Operator`.                   *)
(*                                                                         *)
(* Time is a number of ticks of half a minute.                             *)
(***************************************************************************)
EXTENDS StatusFile

CONSTANTS
    Delay,         \* ticks to the poweroff of a critical battery
    OtherDelays,   \* ticks to the shutdowns an operator schedules
    Tolerance,     \* within which two deadlines are one, 90 s everywhere
    MaxTime        \* bound: ticks

ASSUME DeskAssumption ==
    /\ Delay \in Nat \ {0}
    /\ OtherDelays \subseteq Nat \ {0}
    /\ Tolerance \in Nat
    /\ MaxTime \in Nat

VARIABLES
    now,
    on,         \* the machine runs
    sched,      \* logind's ScheduledShutdown, with who placed it
    up,         \* the daemon runs
    level,      \* the policy's level, or "absent" or "missing"
    recorded,   \* the coordinator's record of its poweroff
    stood_down, \* its poweroff was cancelled by others: none until recovery
    due,        \* the coordinator has acted in this poll and nothing is published yet
    file,       \* the status file, None before the first publication
    acts        \* bound: what the supply, the daemon's starter and operators may
                \* still do

deskVars == <<now, on, sched, up, level, recorded, stood_down, due, file, acts>>

Scheduled(at, by) == [at |-> at, by |-> by]
Shutdowns == [at : Int, by : {"ups", "button", "wake", "other"}]
\* close, same_shutdown: one and the same poweroff.
Close(a, b) == a - b <= Tolerance /\ b - a <= Tolerance

DeskInit ==
    /\ now = 0 /\ on = TRUE /\ sched = None
    /\ up = TRUE /\ level = "on-mains" /\ recorded = None /\ stood_down = FALSE /\ due = FALSE
    /\ file = None

-----------------------------------------------------------------------------
(* The UPS thread, as far as it can be seen. *)

SupplyChanges ==
    /\ on /\ up /\ ~due /\ acts > 0
    /\ \E l \in {"on-mains", "critical", MISSING} \ {level} :
         level' = l /\ stood_down' = (stood_down /\ l # "on-mains")
    /\ acts' = acts - 1
    /\ UNCHANGED <<now, on, sched, up, recorded, due, file>>

\* advised: schedule where nothing is, or take our own back over.
BatteryActs ==
    /\ on /\ up /\ ~due /\ due' = TRUE /\ level = "critical" /\ recorded = None /\ ~stood_down
    /\ \/ sched = None /\ sched' = Scheduled(now + Delay, "ups")
       \/ sched # None /\ sched.by = "ups" /\ UNCHANGED sched
    /\ recorded' = sched'.at
    /\ UNCHANGED <<now, on, up, level, stood_down, file, acts>>

\* advised on a poweroff that somebody else removed, and recovered.
BatteryGivesUp ==
    /\ on /\ up /\ ~due /\ due' = TRUE /\ recorded # None
    /\ LET ours_stands == sched # None /\ Close(sched.at, recorded) IN
         \/ /\ level = "critical" /\ ~ours_stands
            /\ stood_down' = TRUE /\ UNCHANGED sched
         \/ /\ level = "on-mains"
            /\ sched' = IF ours_stands THEN None ELSE sched
            /\ UNCHANGED stood_down
    /\ recorded' = None
    /\ UNCHANGED <<now, on, up, level, file, acts>>

\* publish, and absence: without a UPS no poweroff is published.
Publish ==
    /\ on /\ up /\ due' = FALSE
    /\ file' = IF level \in {ABSENT, MISSING}
               THEN Snapshot(now, level, None, None, level = MISSING)
               ELSE Snapshot(now, level, 50, recorded, FALSE)
    /\ UNCHANGED <<now, on, sched, up, level, recorded, stood_down, acts>>

DaemonStops ==
    /\ on /\ up /\ acts > 0
    /\ up' = FALSE /\ recorded' = None /\ stood_down' = FALSE /\ due' = FALSE /\ acts' = acts - 1
    /\ UNCHANGED <<now, on, sched, level, file>>

DaemonStarts ==
    /\ on /\ ~up /\ up' = TRUE
    /\ UNCHANGED <<now, on, sched, level, recorded, stood_down, due, file, acts>>

-----------------------------------------------------------------------------
(* logind and its other users. *)

OperatorSchedules ==
    /\ on /\ acts > 0
    /\ \E d \in OtherDelays : sched' = Scheduled(now + d, "other")
    /\ acts' = acts - 1
    /\ UNCHANGED <<now, on, up, level, recorded, stood_down, due, file>>

OperatorCancels ==
    /\ on /\ acts > 0 /\ sched # None
    /\ sched' = None
    /\ acts' = acts - 1
    /\ UNCHANGED <<now, on, up, level, recorded, stood_down, due, file>>

\* No shutdown is past its time on a machine that runs, a daemon that runs
\* publishes several times in a tick.
Tick ==
    /\ on /\ now < MaxTime
    /\ sched # None => sched.at > now
    /\ up => file # None /\ file.updated = now /\ ~due
    /\ now' = now + 1
    /\ UNCHANGED <<on, sched, up, level, recorded, stood_down, due, file, acts>>

Fire ==
    /\ on /\ sched # None /\ sched.at = now
    /\ on' = FALSE
    /\ UNCHANGED <<now, sched, up, level, recorded, stood_down, due, file, acts>>

Ups == BatteryActs \/ BatteryGivesUp \/ Publish
World == \/ SupplyChanges \/ DaemonStops \/ DaemonStarts
         \/ OperatorSchedules \/ OperatorCancels \/ Tick \/ Fire
=============================================================================
