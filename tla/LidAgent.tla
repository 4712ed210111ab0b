------------------------------ MODULE LidAgent ------------------------------
(***************************************************************************)
(* crates/argon-device/src/lid.rs, the policy of a laptop lid, and         *)
(* crates/argon-cli/src/lid_agent.rs, which feeds it logind's signals and  *)
(* carries out its effects one by one: the screen, the radios through      *)
(* rfkill with a record that survives the agent, the CPU through argond,   *)
(* and the poweroff.  Effects take time, and the lid moves meanwhile.      *)
(***************************************************************************)
EXTENDS Daemon1, Sequences

CONSTANTS
    None,
    Actions,      \* `[lid] action`: subset of {"power-save", "shutdown"}
    Radios,       \* the Wi-Fi and Bluetooth radios
    ReadFails,    \* whether the radios and the record may be unreadable
    Delay,        \* shutdown_delay_s, in ticks
    MaxBlock,     \* ticks that carrying out one effect may take
    MaxMoves,     \* bound: what the lid and its user do
    MaxFaults     \* bound: deaths and refusals

ASSUME LidAssumption ==
    /\ Actions \subseteq {"power-save", "shutdown"}
    /\ ReadFails \in BOOLEAN
    /\ Delay \in Nat \ {0} /\ MaxBlock \in Nat /\ MaxMoves \in Nat /\ MaxFaults \in Nat
    /\ None \notin BOOLEAN /\ None \notin Int /\ \A s \in SUBSET Radios : s # None

VARIABLES
    action,        \* the configured behaviour
    lid,           \* the switch: closed?
    on,            \* the machine runs
    screen,        \* the outputs are on
    blocked,       \* radios soft-blocked
    record,        \* the lid-radios file: a set of radios, or None
    phase,         \* where the agent is: "off", "start", "loop", "tick", "leave"
    queue,         \* signals of the watching thread not yet taken
    todo,          \* effects still to be carried out
    spent,         \* ticks spent on the first of them
    closed, saving, shutdown_at, powering_off,   \* Lid; shutdown_at counts down
    moves, faults,
    taken,         \* history: radios the agent switched off and has not put back
    lost,          \* history: of those, the ones a restore was asked for that came to
                   \* nothing
    passed,        \* history: of those, the ones a restore did not see as it removed
                   \* the record, or a later closing wrote over
    unlit,         \* history: the screen was to be woken last, and that failed
    alerted,       \* history: this agent has raised the alert and taken no
                   \* opening since
    open_long,     \* history: the lid is open, and was at the last tick
    orphaned       \* history: an agent was killed that had things turned down

policyVars == <<closed, saving, shutdown_at, powering_off>>
agentVars == <<phase, queue, todo, spent, policyVars>>
worldVars == <<lid, on, screen, blocked, record>>
boundVars == <<moves, faults>>
historyVars == <<taken, lost, passed, unlit, alerted, open_long, orphaned>>
vars == <<action, worldVars, agentVars, boundVars, historyVars, daemonVars>>

NewLid == closed = None /\ saving = FALSE /\ shutdown_at = None /\ powering_off = FALSE

Init ==
    /\ DaemonInit
    /\ action \in Actions
    /\ lid \in BOOLEAN /\ on = TRUE /\ screen = TRUE
    /\ blocked \in SUBSET Radios /\ record = None
    /\ phase = "off" /\ queue = <<>> /\ todo = <<>> /\ spent = 0
    /\ NewLid
    /\ moves = 0 /\ faults = 0 /\ taken = {} /\ lost = {}
    /\ passed = {} /\ unlit = FALSE
    /\ alerted = FALSE /\ open_long = FALSE /\ orphaned = FALSE

-----------------------------------------------------------------------------
(* The policy. *)

\* on_close, of a lid that was open.
OnClose ==
    CASE action = "power-save" ->
           /\ saving' = TRUE /\ todo' = <<"ScreenOff", "RadiosOff", "CpuCap">>
           /\ UNCHANGED <<shutdown_at, powering_off>>
      [] powering_off -> todo' = <<>> /\ UNCHANGED <<saving, shutdown_at, powering_off>>
      [] OTHER ->
           /\ shutdown_at' = Delay /\ todo' = <<"ShutdownAlert">>
           /\ UNCHANGED <<saving, powering_off>>

Undo == <<"ScreenOn", "RadiosRestore", "CpuLift">>

\* on_open: the screen is woken on every open.
OnOpen ==
    /\ todo' = (IF saving THEN Undo ELSE <<"ScreenOn">>)
               \o (IF shutdown_at # None THEN <<"ShutdownCancelled">> ELSE <<>>)
    /\ saving' = FALSE /\ shutdown_at' = None
    /\ UNCHANGED powering_off

\* Mutant: the first report is a change like any other.
ReportFirst(shut) ==
    /\ closed' = shut
    /\ IF closed # TRUE /\ shut THEN OnClose
       ELSE IF closed = TRUE /\ ~shut THEN OnOpen
       ELSE todo' = <<>> /\ UNCHANGED <<saving, shutdown_at, powering_off>>

\* report: the first report sets the starting point, a repeated one nothing.
Report(shut) ==
    /\ closed' = shut
    /\ CASE closed = FALSE /\ shut -> OnClose
         [] closed = TRUE /\ ~shut -> OnOpen
         [] OTHER -> todo' = <<>> /\ UNCHANGED <<saving, shutdown_at, powering_off>>

DueNow == shutdown_at = 0 /\ closed = TRUE /\ ~powering_off

-----------------------------------------------------------------------------
(* The agent. *)

\* rfkill::radios: a directory that cannot be read lists nothing, an entry that
\* cannot be read is left out, and a state that cannot be read is taken for on.
Listings ==
    {seen \in [Radios -> {"on", "off", "unseen"}] :
        \A r \in Radios :
            /\ seen[r] = "off" => r \in blocked
            /\ seen[r] = "on" => r \notin blocked \/ ReadFails
            /\ seen[r] = "unseen" => ReadFails}

\* to_block: those that are on, so that one the user had off is never recorded;
\* to_unblock: those on the record that are still off.
ToBlock(seen) == {r \in Radios : seen[r] = "on"}
Recorded == IF record = None THEN {} ELSE record
ToUnblock(seen) == {r \in Recorded : seen[r] = "off"}

\* The history of a restore of `back`.
Restored(back) ==
    /\ blocked' = blocked \ back
    /\ taken' = taken \ back
    /\ lost' = (lost \cup (taken \cap Recorded)) \ back
    /\ passed' = (IF record' = None THEN passed \cup (taken \cap Recorded) ELSE passed) \ back

\* Mutant: the record goes with the first attempt, which accounts for the radios
\* it has seen.
RestoreRadiosOnce ==
    \E seen \in Listings : \E failed \in Failing(ToUnblock(seen)) :
      /\ record' = None
      /\ blocked' = blocked \ (ToUnblock(seen) \ failed)
      /\ taken' = taken \ (ToUnblock(seen) \ failed)
      /\ lost' = (lost \cup (taken \cap Recorded)) \ (ToUnblock(seen) \ failed)
      /\ passed' = passed \cup ((taken \cap Recorded) \ ToUnblock(seen))

\* restore_radios: of a record that can be read each radio seen is tried, and the
\* record goes, if it can be removed, when none failed.
RestoreRadios ==
    \/ \E seen \in Listings : \E failed \in Failing(ToUnblock(seen)) :
         /\ \/ failed = {} /\ record' = None
            \/ (failed # {} \/ WriteFails) /\ record' = record
         /\ Restored(ToUnblock(seen) \ failed)
    \/ ReadFails /\ record' = record /\ Restored({})

\* RadiosOff: recorded first, over what was on record, then switched off one by
\* one until one fails.  A record that cannot be written may be left empty.
RadiosOff ==
    /\ \E seen \in Listings :
         \/ WriteFails /\ record' \in {record, {}} /\ UNCHANGED <<blocked, taken>>
         \/ \E done \in (IF WriteFails THEN SUBSET ToBlock(seen) ELSE {ToBlock(seen)}) :
              /\ record' = ToBlock(seen)
              /\ blocked' = blocked \cup done
              /\ taken' = taken \cup (done \ blocked)
    /\ passed' = passed \cup (lost \cap (Recorded \ Recorded'))
    /\ UNCHANGED lost

\* screens: waking is off, then on, of which each may fail, as may the question
\* for the outputs; a failure is logged, and not tried again.
Screens(how) ==
    \/ how = "ScreenOn" /\ screen' = TRUE /\ unlit' = FALSE
    \/ how = "ScreenOn" /\ screen' \in {FALSE, screen} /\ unlit' = TRUE
    \/ how = "ScreenOff" /\ screen' \in {FALSE, screen} /\ unlit' = FALSE

\* one: the first effect, carried out or failed.
CarryOut ==
    /\ on /\ todo # <<>>
    /\ todo' = Tail(todo) /\ spent' = 0
    /\ LET e == Head(todo) IN
         /\ IF e \in {"ScreenOff", "ScreenOn"} THEN Screens(e) ELSE UNCHANGED <<screen, unlit>>
         /\ CASE e = "RadiosOff" -> RadiosOff
              [] e = "RadiosRestore" -> RestoreRadios
              [] OTHER -> UNCHANGED <<blocked, record, taken, lost, passed>>
         /\ CASE e = "CpuCap" -> SetCpuCap(TRUE)
              [] e = "CpuLift" -> SetCpuCap(FALSE)
              [] OTHER -> UNCHANGED daemonVars
         /\ IF e = "PowerOff"
            THEN \/ on' = FALSE /\ UNCHANGED faults
                 \/ on' = on /\ faults < MaxFaults /\ faults' = faults + 1
            ELSE UNCHANGED <<on, faults>>
    /\ UNCHANGED <<action, lid, phase, queue, policyVars, moves, alerted, open_long, orphaned>>

\* run, up to the loop: the watching thread first, leftover radios, then the
\* lid as logind reports it, if it can.
StartAgent ==
    /\ on /\ phase = "off"
    /\ phase' = "start" /\ queue' = <<>>
    /\ closed' = None /\ saving' = FALSE /\ shutdown_at' = None /\ powering_off' = FALSE
    /\ RestoreRadios
    /\ alerted' = FALSE
    /\ UNCHANGED <<action, lid, on, screen, todo, spent, boundVars, unlit, open_long, orphaned, daemonVars>>

FirstReport ==
    /\ on /\ phase = "start" /\ phase' = "loop"
    /\ Report(lid) \/ UNCHANGED <<policyVars, todo>>
    /\ UNCHANGED <<action, worldVars, queue, spent, boundVars, historyVars, daemonVars>>

\* One turn of the loop: a signal if there is one, then the deadline.
TakeSignal ==
    /\ on /\ phase = "loop" /\ todo = <<>> /\ queue # <<>>
    /\ Report(Head(queue))
    /\ queue' = Tail(queue)
    /\ phase' = "tick"
    /\ alerted' = (todo' = <<"ShutdownAlert">> \/ (alerted /\ Head(queue)))
    /\ UNCHANGED <<action, worldVars, spent, boundVars, taken, lost, passed, unlit, open_long, orphaned, daemonVars>>

\* recv_timeout runs out: MAX_WAIT, or the deadline.
TimeOut ==
    /\ on /\ phase = "loop" /\ todo = <<>> /\ queue = <<>>
    /\ shutdown_at = 0
    /\ phase' = "tick"
    /\ UNCHANGED <<action, worldVars, queue, todo, spent, policyVars, boundVars, historyVars, daemonVars>>

Deadline ==
    /\ on /\ phase = "tick" /\ todo = <<>>
    /\ IF DueNow
       THEN todo' = <<"PowerOff">> /\ shutdown_at' = None /\ powering_off' = TRUE
       ELSE UNCHANGED <<todo, shutdown_at, powering_off>>
    /\ phase' = "loop"
    /\ UNCHANGED <<action, worldVars, queue, spent, closed, saving, boundVars, historyVars, daemonVars>>

\* Mutant: the agent goes away and leaves things as they are.
LeaveAtOnce ==
    /\ on /\ phase = "loop" /\ todo = <<>> /\ moves < MaxMoves
    /\ moves' = moves + 1 /\ phase' = "leave" /\ saving' = FALSE /\ shutdown_at' = None
    /\ UNCHANGED <<action, worldVars, queue, todo, spent, closed, powering_off, faults, historyVars, daemonVars>>

\* Asked to stop, or without signals: restore_all, and out.
Leave ==
    /\ on /\ phase = "loop" /\ todo = <<>> /\ moves < MaxMoves
    /\ moves' = moves + 1
    /\ phase' = "leave"
    /\ todo' = IF saving THEN Undo ELSE <<>>
    /\ saving' = FALSE /\ shutdown_at' = None
    /\ UNCHANGED <<action, worldVars, queue, spent, closed, powering_off, faults, historyVars, daemonVars>>

Exit ==
    /\ phase = "leave" /\ todo = <<>>
    /\ phase' = "off" /\ queue' = <<>>
    /\ UNCHANGED <<action, worldVars, todo, spent, policyVars, boundVars, historyVars, daemonVars>>

-----------------------------------------------------------------------------
(* The user and the machine. *)

MoveLid ==
    /\ on /\ moves < MaxMoves /\ moves' = moves + 1
    /\ lid' = ~lid
    /\ queue' = IF phase = "off" THEN queue ELSE Append(queue, lid')
    /\ open_long' = FALSE
    /\ UNCHANGED <<action, on, screen, blocked, record, phase, todo, spent, policyVars, faults,
                   taken, lost, passed, unlit, alerted, orphaned, daemonVars>>

\* Killed: by SIGKILL, or with the session.
Killed ==
    /\ on /\ phase # "off" /\ faults < MaxFaults
    /\ faults' = faults + 1
    /\ phase' = "off" /\ queue' = <<>> /\ todo' = <<>> /\ spent' = 0
    /\ orphaned' = (orphaned \/ saving \/ todo # <<>>)
    /\ UNCHANGED <<action, worldVars, policyVars, moves, taken, lost, passed, unlit, alerted, open_long, daemonVars>>

\* A tick passes: for the deadline, and for the effect under way.
Tick ==
    /\ on
    /\ \/ shutdown_at \notin {None, 0} \/ (spent < MaxBlock /\ todo # <<>>)
    /\ IF todo # <<>> THEN spent < MaxBlock /\ spent' = spent + 1 ELSE UNCHANGED spent
    /\ phase \in {"start", "tick"} => todo # <<>>
    /\ (phase = "loop" /\ todo = <<>>) => queue = <<>>
    /\ shutdown_at' = IF shutdown_at \in {None, 0} THEN shutdown_at ELSE shutdown_at - 1
    /\ open_long' = ~lid
    /\ UNCHANGED <<action, worldVars, phase, queue, todo, closed, saving, powering_off, boundVars,
                   taken, lost, passed, unlit, alerted, orphaned, daemonVars>>

\* The radios' soft blocks survive (systemd-rfkill), the caps do not.
Boot ==
    /\ ~on /\ on' = TRUE /\ lid' \in BOOLEAN /\ screen' = TRUE
    /\ phase' = "off" /\ queue' = <<>> /\ todo' = <<>> /\ spent' = 0
    /\ closed' = None /\ saving' = FALSE /\ shutdown_at' = None /\ powering_off' = FALSE
    /\ up' = TRUE /\ limit' = [p \in Policies |-> "own"] /\ saved' = NoneSaved /\ slipped' = FALSE
    /\ oled' = ~oled_off
    /\ orphaned' = FALSE /\ open_long' = FALSE
    /\ UNCHANGED <<action, blocked, record, boundVars, taken, lost, passed, unlit, alerted, oled_off>>

DaemonMoves ==
    /\ on /\ Daemon
    /\ IF up' THEN UNCHANGED faults ELSE faults < MaxFaults /\ faults' = faults + 1
    /\ UNCHANGED <<action, worldVars, agentVars, moves, historyVars>>

Agent == CarryOut \/ StartAgent \/ FirstReport \/ TakeSignal \/ TimeOut \/ Deadline \/ Exit
Next == Agent \/ Leave \/ MoveLid \/ Killed \/ Tick \/ Boot \/ DaemonMoves

\* The agent's loop goes on, and time passes.
Spec == Init /\ [][Next]_vars /\ WF_vars(Agent) /\ WF_vars(Tick)

-----------------------------------------------------------------------------
TypeOK ==
    /\ blocked \subseteq Radios /\ (record = None \/ record \subseteq Radios)
    /\ closed \in {None} \cup BOOLEAN /\ shutdown_at \in {None} \cup 0..Delay
    /\ limit \in [Policies -> {"own", "min"}] /\ Capped \subseteq Policies

\* A radio the agent switched off and has not switched on again is on the
\* record, whenever the agent or the machine stops and whatever restore failed on
\* it; but for one that the restore removing the record did not see, or that a
\* restore came to nothing for before a later closing wrote another record.
RecordedUntilRestored == taken \subseteq Recorded \cup passed

\* The machine is told to power off only after an alert of this agent, not on a
\* lid that was shut when it started, and not a tick after it was opened.
PowerOffOnlyShut ==
    [][Deadline /\ todo' # <<>> => alerted /\ ~open_long]_vars

\* With the agent at work and the lid open, the screen comes back unless waking
\* it failed, and every radio but those a restore came to nothing for, whatever
\* the agent or its predecessor did.
ComesBack ==
    <>[](on /\ phase = "loop" /\ ~lid /\ queue = <<>> /\ closed = FALSE /\ ~orphaned)
      => <>[](taken \subseteq lost /\ (screen \/ unlit))
=============================================================================
