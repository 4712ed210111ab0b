------------------------ MODULE ShutdownCoordinator ------------------------
(***************************************************************************)
(* crates/argon-device/src/power.rs: turning battery advice into at most   *)
(* one delayed, cancellable poweroff held by logind, which other users of  *)
(* the machine schedule and cancel poweroffs with as well.                 *)
(*                                                                         *)
(* Every call of logind is a subprocess (shutdown, busctl), so a decision  *)
(* is acted on in several steps, with the world moving between them.       *)
(* `call` is where the coordinator stands in on_decision.                  *)
(*                                                                         *)
(* Time is counted in ticks.  A deadline is kept as the ticks left until   *)
(* it, and the coordinator's record of one stops ageing at Floor, where it *)
(* is too old to be the same shutdown as any pending one.                  *)
(***************************************************************************)
EXTENDS Integers

CONSTANTS
    None,         \* no deadline, no shutdown
    Delay,        \* ticks from scheduling to poweroff, in whole minutes
    Tolerance,    \* SAME_SHUTDOWN_TOLERANCE
    CallTicks,    \* bound: ticks one decision's subprocesses may take
    DryRun,       \* ShutdownCoordinator::dry_run
    OtherDelays,  \* delays other users schedule poweroffs with
    Faults,       \* which of "read" and "command" may fail
    Races,        \* whether others may act between two subprocesses
    MaxOthers,    \* bound: what others do to logind
    MaxRestarts   \* bound: restarts of the daemon

\* A shutdown as logind holds it: the ticks left, whether its wall message is
\* the battery coordinator's, and which life of the daemon scheduled it.
Shutdown == [at : Int, mark : {"battery", "other"}, life : Nat]

ASSUME CoordinatorAssumption ==
    /\ Delay \in Nat \ {0}
    /\ Tolerance \in Nat
    /\ CallTicks \in Nat
    /\ DryRun \in BOOLEAN
    /\ OtherDelays \subseteq Nat
    /\ Faults \subseteq {"read", "command"}
    /\ Races \in BOOLEAN
    /\ MaxOthers \in Nat
    /\ MaxRestarts \in Nat

ASSUME NoneAssumption == None \notin Int /\ None \notin Shutdown

\* The subprocesses of one decision take less than the tolerance.
ASSUME PromptAssumption == CallTicks <= Tolerance

VARIABLES
    on,           \* the machine runs
    pending,      \* logind: the scheduled shutdown, None or one
    advice,       \* what the policy says at the next poll
    call,         \* where on_decision stands
    seen,         \* what pending_state returned in this call
    due,          \* a deadline local to this call: read, or intended
    ours,         \* the poweroff we scheduled, as its deadline
    stood_down,
    dry_pending,
    callAge,      \* ticks since the call began
    restarts,     \* how often the daemon has been restarted
    others,       \* how often others have used logind
    meddled,      \* history: others used logind since `ours` began
    raced,        \* history: others used logind within this call
    told,         \* history: the decision last acted on, "failed" if not undone
    overridden    \* history: others undid this life's poweroff, no recovery since

record == <<ours, stood_down, dry_pending>>
local  == <<call, seen, due, callAge>>
ghosts == <<meddled, raced, told, overridden>>
vars   == <<on, pending, advice, record, local, restarts, others, ghosts>>

-----------------------------------------------------------------------------
(* Deadlines and logind. *)

Floor == -(Tolerance + 1)
Age(d) == IF d \in {None, Floor} THEN d ELSE d - 1

\* same_shutdown: |a - b| within the tolerance.
SameShutdown(a, b) == a - b <= Tolerance /\ b - a <= Tolerance

\* The shutdown this life of the daemon scheduled, and any life's: the wall
\* message tells battery poweroffs from others, but not one life from another.
Poweroff == [at |-> Delay, mark |-> "battery", life |-> restarts]
Mine(p) == p # None /\ p.mark = "battery" /\ p.life = restarts

Unreadable == IF "read" \in Faults THEN {"Unknown"} ELSE {}
\* What pending() may answer: the truth, or an error.
PendingStates == {IF pending = None THEN "Nothing" ELSE "At"} \cup Unreadable
\* What wall_message_is_ours() may answer; an error counts as "not ours", and
\* logind keeps the message of a shutdown that was cancelled.
WallAnswers ==
    IF pending = None THEN BOOLEAN
    ELSE {pending.mark = "battery"} \cup (IF Unreadable = {} THEN {} ELSE {FALSE})

Advices == {"shutdown", "recovered", "hold"}
Calls == {"idle", "advised", "wall", "schedule", "readback", "recovered", "cancel"}

Init ==
    /\ on = TRUE
    /\ pending = None
    /\ advice = "hold"
    /\ call = "idle" /\ seen = "Nothing" /\ due = None /\ callAge = 0
    /\ ours = None /\ stood_down = FALSE /\ dry_pending = FALSE
    /\ restarts = 0 /\ others = 0
    /\ meddled = FALSE /\ raced = FALSE /\ told = "nothing" /\ overridden = FALSE

-----------------------------------------------------------------------------
(* The coordinator. *)

Return ==
    /\ call' = "idle"
    /\ callAge' = 0
    /\ seen' = "Nothing"
    /\ due' = None

Enter(step) ==
    /\ call' = step
    /\ callAge' = 0
    /\ raced' = FALSE
    /\ meddled' = IF ours = None THEN FALSE ELSE meddled
    /\ UNCHANGED <<seen, due>>

\* on_decision with Advice::Shutdown, up to the first question to logind.
OnShutdown ==
    /\ on /\ call = "idle" /\ advice = "shutdown"
    /\ ~stood_down
    /\ told' = "shutdown"
    /\ IF DryRun
       THEN dry_pending' = TRUE /\ UNCHANGED <<local, meddled, raced>>
       ELSE Enter("advised") /\ UNCHANGED dry_pending
    /\ UNCHANGED <<on, pending, advice, ours, stood_down, restarts, others, overridden>>

\* on_decision with a confirmed recovery.
OnRecovered ==
    /\ on /\ call = "idle" /\ advice = "recovered"
    /\ told' = "recovered"
    /\ stood_down' = FALSE
    /\ overridden' = FALSE
    /\ dry_pending' = FALSE
    /\ IF DryRun \/ ours = None
       THEN UNCHANGED <<local, meddled, raced>>
       ELSE Enter("recovered")
    /\ UNCHANGED <<on, pending, advice, ours, restarts, others>>

\* Mutant: a poweroff that is gone is forgotten without standing down.
CheckOursForgetful ==
    /\ on /\ call = "advised" /\ ours # None
    /\ \E state \in PendingStates :
         IF \/ state = "Unknown"
            \/ state = "At" /\ SameShutdown(ours, pending.at)
         THEN UNCHANGED ours
         ELSE ours' = None
    /\ Return
    /\ UNCHANGED <<on, pending, advice, stood_down, dry_pending, restarts, others, ghosts>>

\* advised, with a poweroff on record: it still stands, or we stand down.
CheckOurs ==
    /\ on /\ call = "advised" /\ ours # None
    /\ \E state \in PendingStates :
         IF \/ state = "Unknown"
            \/ state = "At" /\ SameShutdown(ours, pending.at)
         THEN UNCHANGED <<ours, stood_down>>
         ELSE ours' = None /\ stood_down' = TRUE
    /\ Return
    /\ UNCHANGED <<on, pending, advice, dry_pending, restarts, others, ghosts>>

\* Mutant: schedule over whatever is pending.
LookForAnyOver ==
    /\ on /\ call = "advised" /\ ours = None
    /\ \E state \in PendingStates : seen' = state
    /\ call' = "schedule" /\ due' = Delay
    /\ UNCHANGED <<on, pending, advice, record, callAge, restarts, others, ghosts>>

\* advised, with nothing on record: ask whose it is, or schedule.
LookForAny ==
    /\ on /\ call = "advised" /\ ours = None
    /\ \E state \in PendingStates :
         /\ seen' = state
         /\ IF state = "At"
            THEN call' = "wall" /\ due' = pending.at
            ELSE call' = "schedule" /\ due' = Delay
    /\ UNCHANGED <<on, pending, advice, record, callAge, restarts, others, ghosts>>

\* A poweroff with our wall message is taken back over; any other is left.
Adopt ==
    /\ on /\ call = "wall"
    /\ \E is_ours \in WallAnswers : ours' = IF is_ours THEN due ELSE ours
    /\ Return
    /\ UNCHANGED <<on, pending, advice, stood_down, dry_pending, restarts, others, ghosts>>

\* `shutdown --poweroff`: replaces whatever is scheduled.
Schedule ==
    /\ on /\ call = "schedule"
    /\ pending' = Poweroff
    /\ call' = "readback"
    /\ meddled' = FALSE
    /\ UNCHANGED <<on, advice, record, seen, due, callAge, restarts, others,
                   raced, told, overridden>>

ScheduleFails ==
    /\ on /\ call = "schedule" /\ "command" \in Faults
    /\ Return
    /\ UNCHANGED <<on, pending, advice, record, restarts, others, ghosts>>

\* Mutant: a failed read-back is a failure to schedule.
ReadBackOrFail ==
    /\ on /\ call = "readback"
    /\ \E state \in PendingStates : ours' = IF state = "At" THEN pending.at ELSE ours
    /\ Return
    /\ UNCHANGED <<on, pending, advice, stood_down, dry_pending, restarts, others, ghosts>>

\* scheduled_time: the deadline logind reports, or else the intended one.
ReadBack ==
    /\ on /\ call = "readback"
    /\ \E state \in PendingStates : ours' = IF state = "At" THEN pending.at ELSE due
    /\ Return
    /\ UNCHANGED <<on, pending, advice, stood_down, dry_pending, restarts, others, ghosts>>

\* Mutants: cancel whatever is pending; take an unreadable logind for an
\* empty one.
RecoverAny ==
    /\ on /\ call = "recovered"
    /\ \E state \in PendingStates : seen' = state
    /\ call' = "cancel"
    /\ UNCHANGED <<on, pending, advice, record, due, callAge, restarts, others, ghosts>>

RecoverIfRead ==
    /\ on /\ call = "recovered"
    /\ \E state \in PendingStates :
         IF state = "Unknown" \/ (state = "At" /\ ~SameShutdown(ours, pending.at))
         THEN ours' = None /\ Return
         ELSE seen' = state /\ call' = "cancel" /\ UNCHANGED <<ours, due, callAge>>
    /\ UNCHANGED <<on, pending, advice, stood_down, dry_pending, restarts, others, ghosts>>

\* recovered: a shutdown known to be another one is let go of.
Recover ==
    /\ on /\ call = "recovered"
    /\ \E state \in PendingStates :
         IF state = "At" /\ ~SameShutdown(ours, pending.at)
         THEN ours' = None /\ Return
         ELSE seen' = state /\ call' = "cancel" /\ UNCHANGED <<ours, due, callAge>>
    /\ UNCHANGED <<on, pending, advice, stood_down, dry_pending, restarts, others, ghosts>>

\* `shutdown -c`
Cancel ==
    /\ on /\ call = "cancel"
    /\ pending' = None
    /\ ours' = None
    /\ Return
    /\ UNCHANGED <<on, advice, stood_down, dry_pending, restarts, others, ghosts>>

CancelFails ==
    /\ on /\ call = "cancel" /\ "command" \in Faults
    /\ told' = "failed"
    /\ Return
    /\ UNCHANGED <<on, pending, advice, record, restarts, others, meddled, raced,
                   overridden>>

-----------------------------------------------------------------------------
(* Everything else. *)

\* The policy's next decision is another one.
AdviceChanges ==
    /\ on
    /\ advice' \in Advices \ {advice}
    /\ UNCHANGED <<on, pending, record, local, restarts, others, ghosts>>

\* Another user of logind: an operator, the power button, a requested wake.
OthersAct(next) ==
    /\ on /\ others < MaxOthers
    /\ Races \/ call = "idle"
    /\ pending' = next
    /\ others' = others + 1
    /\ meddled' = TRUE
    /\ raced' = (call # "idle")
    /\ overridden' = \/ overridden
                      \/ (Mine(pending) /\ call \notin {"recovered", "cancel"})
    /\ UNCHANGED <<on, advice, record, local, restarts, told>>

OthersSchedule ==
    \E d \in OtherDelays : OthersAct([at |-> d, mark |-> "other", life |-> 0])
OthersCancel == pending # None /\ OthersAct(None)

\* The daemon is stopped or dies anywhere, and systemd starts it again.
Restart ==
    /\ on /\ restarts < MaxRestarts
    /\ restarts' = restarts + 1
    /\ ours' = None /\ stood_down' = FALSE /\ dry_pending' = FALSE
    /\ Return
    /\ meddled' = FALSE /\ raced' = FALSE /\ told' = "nothing" /\ overridden' = FALSE
    /\ UNCHANGED <<on, pending, advice, others>>

\* A tick of the clock: every deadline comes nearer.
Tick ==
    /\ on
    /\ pending # None => pending.at > 0
    /\ call # "idle" => callAge < CallTicks
    /\ pending' = IF pending = None THEN None ELSE [pending EXCEPT !.at = @ - 1]
    /\ ours' = Age(ours)
    /\ due' = Age(due)
    /\ callAge' = IF call = "idle" THEN 0 ELSE callAge + 1
    /\ UNCHANGED <<on, advice, stood_down, dry_pending, call, seen, restarts, others, ghosts>>

\* logind powers the machine off at the deadline.
Fire ==
    /\ on /\ pending # None /\ pending.at = 0
    /\ on' = FALSE
    /\ UNCHANGED <<pending, advice, record, local, restarts, others, ghosts>>

Coordinator ==
    \/ OnShutdown \/ OnRecovered
    \/ CheckOurs \/ LookForAny \/ Adopt \/ Schedule \/ ScheduleFails \/ ReadBack
    \/ Recover \/ Cancel \/ CancelFails

Environment ==
    \/ AdviceChanges \/ OthersSchedule \/ OthersCancel \/ Restart \/ Tick \/ Fire

Next == Coordinator \/ Environment

Spec == Init /\ [][Next]_vars

-----------------------------------------------------------------------------
(* Properties. *)

FlagsOK ==
    {on, stood_down, dry_pending, meddled, raced, overridden} \subseteq BOOLEAN

NamesOK ==
    /\ advice \in Advices
    /\ call \in Calls
    /\ seen \in {"Nothing", "At", "Unknown"}
    /\ told \in {"nothing", "shutdown", "recovered", "failed"}

NumbersOK ==
    /\ due \in Int \cup {None}
    /\ ours \in Int \cup {None}
    /\ callAge \in 0..CallTicks
    /\ restarts \in 0..MaxRestarts
    /\ others \in 0..MaxOthers

PendingOK ==
    /\ pending \in Shutdown \cup {None}
    /\ pending # None => pending.at >= 0

\* The coordinator's state, logind's and the history have their types, and no
\* deadline in logind has passed without a poweroff.
TypeOK == FlagsOK /\ NamesOK /\ NumbersOK /\ PendingOK

\* A poweroff this life of the daemon scheduled is never lost track of: it is
\* on record as the same shutdown, or the call that scheduled it is about to
\* put it there, whatever failed or was read back (power.rs, "Why ownership
\* is tracked": the orphaned poweroff that nobody cancels).
NoOrphan ==
    Mine(pending) =>
        \/ call = "readback"
        \/ ours # None /\ SameShutdown(ours, pending.at)

\* The deadline on record, which the status file publishes, is one logind
\* holds, unless somebody else has used logind since (scheduled_at).
PublishedIsReal ==
    ours # None /\ ~meddled =>
        pending # None /\ SameShutdown(ours, pending.at)

\* When a confirmed recovery has been acted on and no command failed, no
\* poweroff this life scheduled is pending any more, read or not (recovered).
RecoveryWithdraws ==
    told = "recovered" /\ call = "idle" => ~Mine(pending)

\* A cancellation hits another user's shutdown only if logind could not be
\* read, or the other user acted within the call, or the other deadline is
\* within the tolerance of ours (power.rs, recovered).
CancelsOnlyOurs ==
    [][Cancel /\ pending # None /\ pending.mark = "other" =>
          seen = "Unknown" \/ raced \/ SameShutdown(ours, pending.at)]_vars

\* Scheduling never pushes back a poweroff of the same life, and replaces any
\* other one only if logind could not be read or the other user acted within
\* the call (power.rs, "Scheduled once").
NeverPushedBack ==
    [][Schedule /\ pending # None =>
          ~Mine(pending) /\ (seen = "Unknown" \/ raced)]_vars

\* Once somebody has undone our poweroff, the same life of the daemon does not
\* schedule another one before a confirmed recovery (power.rs, "An operator's
\* cancellation is respected").
OverrideIsRespected ==
    [][Schedule => ~overridden]_vars

\* A dry run leaves logind alone and puts nothing on record (dry_run).
DryRunTouchesNothing ==
    [][DryRun /\ Coordinator => pending' = pending /\ ours' = None]_vars

\* What the module documentation says without the reservations: "Only our own
\* shutdowns are cancelled."
OnlyOursCancelled ==
    [][Cancel => pending = None \/ pending.mark = "battery"]_vars

=============================================================================
