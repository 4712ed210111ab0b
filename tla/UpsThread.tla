----------------------------- MODULE UpsThread -----------------------------
(***************************************************************************)
(* The loop of the UPS thread, crates/argon-daemon/src/ups.rs, as the      *)
(* composition of its parts: the port is opened, polled, given up and      *)
(* opened again; every poll goes to the battery policy (BatteryPolicy),    *)
(* every decision to the shutdown coordinator (ShutdownCoordinator), and   *)
(* the outcome to the status file.                                         *)
(*                                                                         *)
(* What a round also does, the wake (Wake), control requests and sleeping  *)
(* (ControlRelay), touches nothing of this: it belongs to `rest`.          *)
(***************************************************************************)
EXTENDS ShutdownCoordinator

CONSTANTS
    LowPercent, CriticalPercent, RecoverMargin, Confirmations, MinUptime,
    MaxStreak,    \* as in BatteryPolicy
    Readings,     \* what the UPS may read
    ReopenAfter,  \* REOPEN_AFTER
    Ports,        \* what opening the port may come to
    LinkFaults    \* which of "poll", "uptime" and "write" may fail

VARIABLES
    phase,     \* where the thread stands in its loop
    supply,    \* the world: what the UPS reads now
    settled,   \* the world: the machine has been up for min_uptime
    monitor,   \* whether the port is open
    policy,    \* BatteryPolicy, of the open port
    failures,  \* Watch::failures
    latest,    \* what the D-Bus service answers: a level and a deadline, or None
    file,      \* the status file: the same, or Outdated
    critRun,   \* history: critical readings with no gap, as far as counted
    mainsRun   \* history: mains readings in a row, as far as counted

P == INSTANCE BatteryPolicy WITH
        Uptimes <- {0, MinUptime}, MaxPolls <- 0,
        decision <- 0, uptime <- 0, polls <- <<>>

ASSUME ThreadAssumption ==
    /\ ReopenAfter \in Nat \ {0}
    /\ Ports \subseteq {"opened", "absent", "failed", "held"}
    /\ LinkFaults \subseteq {"poll", "uptime", "write"}
    /\ P!PolicyAssumption
    /\ Readings \subseteq P!Reading

link == <<monitor, policy, failures>>
published == <<latest, file>>
runs == <<critRun, mainsRun>>
loop == <<phase, supply, settled, link, published, runs>>
threadVars == <<vars, loop>>

Phases == {"rest", "poll", "decide", "act"}
NoFile == [level |-> "none", shutdown_at |-> None]

ThreadInit ==
    /\ Init
    /\ phase = "rest"
    /\ supply \in Readings
    /\ settled = FALSE
    /\ monitor = FALSE /\ policy = P!NewPolicy /\ failures = 0
    /\ latest = NoFile /\ file = NoFile
    /\ critRun = 0 /\ mainsRun = 0

\* What an older publication left in the file, if any, whatever it says.
Outdated == [level |-> "outdated", shutdown_at |-> None]

\* publish: the share is updated even when the file cannot be written, which
\* leaves the old one.
Published(status) ==
    /\ latest' = status
    /\ file' \in {status} \cup (IF "write" \in LinkFaults THEN {Outdated} ELSE {})

-----------------------------------------------------------------------------
(* The port. *)

\* absence: no UPS, and so no poweroff of ours in the file.
Absence == [level |-> "absent", shutdown_at |-> None]

\* Mutant: a new port gets a new coordinator.
OpenAfresh ==
    /\ on /\ phase = "rest"
    /\ \E port \in (IF monitor THEN {"kept"} ELSE Ports) :
         /\ monitor' = (port \in {"kept", "opened"})
         /\ phase' = IF port \in {"kept", "opened"} THEN "poll" ELSE "rest"
         /\ IF port = "absent" THEN Published(Absence) ELSE UNCHANGED published
         /\ IF port = "opened"
            THEN policy' = P!NewPolicy /\ failures' = 0 /\ ours' = None
            ELSE UNCHANGED <<policy, failures, ours>>
    /\ UNCHANGED <<on, pending, advice, stood_down, dry_pending, local, restarts, others,
                   ghosts, supply, settled, runs>>

\* Mutant: every round gets a new policy.
OpenForgetful ==
    /\ on /\ phase = "rest"
    /\ \E port \in (IF monitor THEN {"kept"} ELSE Ports) :
         /\ monitor' = (port \in {"kept", "opened"})
         /\ phase' = IF port \in {"kept", "opened"} THEN "poll" ELSE "rest"
         /\ IF port = "absent" THEN Published(Absence) ELSE UNCHANGED published
         /\ policy' = P!NewPolicy
         /\ failures' = IF port = "opened" THEN 0 ELSE failures
    /\ UNCHANGED <<vars, supply, settled, runs>>

\* The top of the loop.  A new link gets a new policy.
Open ==
    /\ on /\ phase = "rest"
    /\ \E port \in (IF monitor THEN {"kept"} ELSE Ports) :
         /\ monitor' = (port \in {"kept", "opened"})
         /\ phase' = IF port \in {"kept", "opened"} THEN "poll" ELSE "rest"
         /\ IF port = "absent" THEN Published(Absence) ELSE UNCHANGED published
         /\ IF port = "opened"
            THEN policy' = P!NewPolicy /\ failures' = 0
            ELSE UNCHANGED <<policy, failures>>
    /\ UNCHANGED <<vars, supply, settled, runs>>

-----------------------------------------------------------------------------
(* step: poll, decide, act. *)

\* uptime_or_zero
UptimesRead ==
    {IF settled THEN MinUptime ELSE 0}
        \cup (IF "uptime" \in LinkFaults THEN {0} ELSE {})

\* What the coordinator makes of a decision.
AdviceOf(decision) ==
    IF decision.advice = "Shutdown" THEN "shutdown"
    ELSE IF decision.confirmed_recovery THEN "recovered" ELSE "hold"

Capped(n) == IF n < Confirmations THEN n + 1 ELSE n

\* The history of a reading: a critical battery stays so until it is charged
\* over the margin or mains stays.
Counted ==
    /\ mainsRun' = IF P!IsMains(supply) THEN Capped(mainsRun) ELSE 0
    /\ critRun' =
         IF P!IsCritical(supply) THEN Capped(critRun)
         ELSE IF \/ P!IsMains(supply) /\ mainsRun' < Confirmations
                 \/ P!IsBattery(supply) /\ critRun = Confirmations
                    /\ ~P!Clears(supply, CriticalPercent)
         THEN critRun ELSE 0

Answered ==
    /\ on /\ phase = "poll"
    /\ failures' = 0
    /\ policy' = P!Observed(policy, supply)
    /\ \E up \in UptimesRead : advice' = AdviceOf(P!DecisionOn(policy', up))
    /\ phase' = "decide"
    /\ Counted
    /\ UNCHANGED <<on, pending, record, local, restarts, others, ghosts,
                   supply, settled, monitor, published>>

\* Mutant: a failed poll is not an observation.
UnansweredUnseen ==
    /\ on /\ phase = "poll" /\ "poll" \in LinkFaults
    /\ failures' = failures + 1
    /\ advice' = "hold"
    /\ phase' = "decide"
    /\ mainsRun' = 0 /\ critRun' = 0
    /\ UNCHANGED <<on, pending, record, local, restarts, others, ghosts,
                   supply, settled, monitor, policy, published>>

\* A poll that fails is a gap to the policy.
Unanswered ==
    /\ on /\ phase = "poll" /\ "poll" \in LinkFaults
    /\ failures' = failures + 1
    /\ policy' = P!Observed(policy, P!Gap)
    /\ \E up \in UptimesRead : advice' = AdviceOf(P!DecisionOn(policy', up))
    /\ phase' = "decide"
    /\ mainsRun' = 0 /\ critRun' = 0
    /\ UNCHANGED <<on, pending, record, local, restarts, others, ghosts,
                   supply, settled, monitor, published>>

\* on_decision is called; many a decision asks for nothing.
Decide ==
    /\ on /\ phase = "decide"
    /\ \/ OnShutdown \/ OnRecovered
       \/ (advice = "hold" \/ (advice = "shutdown" /\ stood_down)) /\ UNCHANGED vars
    /\ phase' = "act"
    /\ UNCHANGED <<supply, settled, link, published, runs>>

Questions == CheckOurs \/ LookForAny \/ Adopt \/ ReadBack \/ Recover
Commands == Schedule \/ ScheduleFails \/ Cancel \/ CancelFails

Act ==
    /\ phase = "act"
    /\ Questions \/ Commands
    /\ UNCHANGED loop

\* Mutant: a failed poll publishes no deadline.
PublishReadings ==
    /\ on /\ phase = "act" /\ call = "idle"
    /\ monitor' = (failures < ReopenAfter)
    /\ Published([level |-> policy.reported,
                  shutdown_at |-> IF failures = 0 THEN ours ELSE None])
    /\ phase' = "rest"
    /\ UNCHANGED <<vars, supply, settled, policy, failures, runs>>

\* on_decision has returned.  The port is given up after too many failures, and
\* the outcome is published in any case.
Publish ==
    /\ on /\ phase = "act" /\ call = "idle"
    /\ monitor' = (failures < ReopenAfter)
    /\ Published([level |-> policy.reported, shutdown_at |-> ours])
    /\ phase' = "rest"
    /\ UNCHANGED <<vars, supply, settled, policy, failures, runs>>

-----------------------------------------------------------------------------
(* The world.  The supply is read by polls alone: it changes between rounds.  *)

SupplyChanges ==
    /\ on /\ phase = "rest"
    /\ supply' \in Readings \ {supply}
    /\ UNCHANGED <<vars, phase, settled, link, published, runs>>

Settle ==
    /\ on /\ ~settled
    /\ settled' = TRUE
    /\ UNCHANGED <<vars, phase, supply, link, published, runs>>

OthersMeddle ==
    /\ OthersSchedule \/ OthersCancel
    /\ UNCHANGED loop

\* The status file outlives the daemon (RuntimeDirectoryPreserve=restart), the
\* share does not.
ThreadRestart ==
    /\ Restart
    /\ phase' = "rest"
    /\ monitor' = FALSE /\ policy' = P!NewPolicy /\ failures' = 0
    /\ latest' = NoFile /\ file' = Outdated
    /\ critRun' = 0 /\ mainsRun' = 0
    /\ UNCHANGED <<supply, settled>>

ThreadTick ==
    /\ Tick
    /\ latest' = [latest EXCEPT !.shutdown_at = Age(@)]
    /\ file' = [file EXCEPT !.shutdown_at = Age(@)]
    /\ UNCHANGED <<phase, supply, settled, link, runs>>

ThreadFire ==
    /\ Fire
    /\ UNCHANGED loop

Thread ==
    \/ Open \/ Answered \/ Unanswered \/ Decide \/ Act \/ Publish

World ==
    \/ SupplyChanges \/ Settle \/ OthersMeddle \/ ThreadRestart \/ ThreadTick
    \/ ThreadFire

ThreadNext == Thread \/ World

ThreadSpec == ThreadInit /\ [][ThreadNext]_threadVars

\* The thread runs, time passes, and the uptime, a question and a command are
\* read or carried out in the end if tried for ever.
ThreadFairness ==
    /\ WF_threadVars(Thread)
    /\ WF_threadVars(ThreadTick) /\ WF_threadVars(ThreadFire) /\ WF_threadVars(Settle)
    /\ SF_threadVars(Answered /\ advice' = "shutdown")
    /\ SF_threadVars(Act /\ Schedule)
    /\ SF_threadVars(Act /\ CheckOurs /\ stood_down')

FairThreadSpec == ThreadSpec /\ ThreadFairness

-----------------------------------------------------------------------------
(* Properties. *)

\* The thread, the file and the history have their types, and a port is never
\* kept open over REOPEN_AFTER failures.
ThreadTypeOK ==
    /\ phase \in Phases
    /\ supply \in Readings
    /\ {settled, monitor} \subseteq BOOLEAN
    /\ policy \in [known : P!Level, critical_streak : 0..MaxStreak,
                   mains_streak : 0..MaxStreak, reported : P!Level]
    /\ failures \in 0..ReopenAfter
    /\ monitor /\ phase = "rest" => failures < ReopenAfter
    /\ {latest, file} \subseteq
          [level : P!Level \cup {"none", "absent", "outdated"}, shutdown_at : Int \cup {None}]
    /\ critRun \in 0..Confirmations /\ mainsRun \in 0..Confirmations

\* What is done to logind rests on readings of the present link: a poweroff is
\* placed after enough critical ones, with no failed poll, no reopening and no
\* recovery in between, and taken back after enough mains ones in a row; losing the link
\* does neither (run: "readings after a gap must confirm critical again").
ActsOnConfirmedReadings ==
    [][/\ Schedule => critRun = Confirmations
       /\ Cancel => mainsRun = Confirmations]_threadVars

\* Once a round has read mains often enough, no poweroff of this life of the
\* daemon is left, across lost links and ports opened anew, unless a command
\* failed, which the next round repeats (step, run).
MainsWithdraws ==
    phase = "rest" /\ mainsRun = Confirmations /\ told # "failed" => ~Mine(pending)

\* Between rounds what is published tells of the poweroff of this life that is
\* pending, unless the UPS is absent; and of none that is not, unless others
\* have used logind: the D-Bus service in any case, the file unless its last
\* write failed, across polls and writes that fail, ports opened anew and
\* restarts (step, publish).
Honest(status) ==
    /\ status.level # "absent" /\ Mine(pending) =>
          status.shutdown_at # None /\ SameShutdown(status.shutdown_at, pending.at)
    /\ monitor /\ status.shutdown_at # None /\ ~meddled =>
          pending # None /\ SameShutdown(status.shutdown_at, pending.at)

FileHonest ==
    phase = "rest" => Honest(latest) /\ (file = Outdated \/ Honest(file))

\* The thread drives the coordinator as ShutdownCoordinator says, whatever
\* becomes of its port: all that is shown there holds here.
DrivesCoordinator == Spec

\* Once the battery stays critical and the link holds, whatever the link and the
\* battery did before, the machine goes off in the end, or the daemon has stood
\* down for somebody who overrode it, although questions and commands fail.
CriticalEndsInPoweroff ==
    <>[](P!IsCritical(supply) /\ monitor /\ failures = 0) => <>(~on \/ stood_down)
=============================================================================
