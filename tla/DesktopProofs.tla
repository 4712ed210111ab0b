--------------------------- MODULE DesktopProofs ---------------------------
(***************************************************************************)
(* Proofs about Desktop: what a press of the button spares, what the       *)
(* notification agent says and does not say of a poweroff, and what the    *)
(* tray shows of it, for any deadlines, tolerance and staleness, however   *)
(* many sessions, presses and clicks there are.                            *)
(***************************************************************************)
EXTENDS Desktop, TLAPS

\* What the desk holds.
DeskTyped ==
    /\ now \in Int
    /\ sched = None \/ sched \in Shutdowns
    /\ recorded \in {None} \cup Int
    /\ level \in {"on-mains", "critical", MISSING}
    /\ file = None \/ file \in Snapshots

\* The press being handled: what was pending when it was taken is what is
\* scheduled, unless others have used logind since, and a poweroff of the
\* button's that is scheduled is the one that was pending.
PressOK ==
    /\ press \in {"none", "recognise", "act", "readback"}
    /\ "button" \notin session => press = "none"
    /\ press \in {"recognise", "act"} /\ ~disturbed => pending = sched
    /\ press = "recognise" /\ sched # None /\ sched.by = "button" => pending \in {sched, Unknown}

\* What the button takes for its own was placed by the button, or asked for by
\* it, unless what it read back was another's.
OwnedOK == button_ours # None /\ ~mistaken => button_ours.by \in {"button", "intended"}

\* The poweroffs of which the agent has sent a notice, delivered or not.
Sent == heard \cup unheard

\* What the agent holds.
NoticesTyped ==
    /\ watcher.last = None \/ watcher.last \in Snapshots
    /\ watcher = [last |-> watcher.last, stale_reported |-> watcher.stale_reported]
    /\ known \in {None} \cup Int /\ ups_at \in {None} \cup Int
    /\ Sent \subseteq Int
    /\ "agent" \notin session => agent = "file" /\ ~cried

\* The published poweroff that stands is the one on record.
StandingOK ==
    "agent" \in session /\ ~excused /\ standing =>
        /\ recorded # None /\ sched # None /\ Close(recorded, sched.at)
        /\ file # None /\ file.shutdown_at # None

\* The agent has seen the last publication, or is about to.
SeenOK ==
    "agent" \in session =>
        /\ file = None => watcher.last = None
        /\ file # None => watcher.last = file \/ (~looked /\ file.updated = now)

Published == IF file = None THEN None ELSE file.shutdown_at
Seen == IF watcher.last = None THEN None ELSE watcher.last.shutdown_at

\* A published poweroff is the one on record, until the coordinator's next
\* publication drops it.
PublishedOK ==
    "agent" \in session /\ ~excused /\ Published # None =>
        up /\ (recorded = Published \/ (recorded = None /\ due))

\* A notice was sent of every poweroff the agent has seen in the file, and
\* the file does not put another in its place.
SeenHeard ==
    "agent" \in session /\ ~excused /\ Seen # None =>
        Seen \in Sent /\ Published \in {Seen, None}

UpsHeard == "agent" \in session /\ ~excused /\ ups_at # None => ups_at \in Sent

\* The poweroff last announced, or left to the UPS notices, is close to one that
\* a notice was sent of.
KnownHeard ==
    "agent" \in session /\ ~excused /\ known # None => \E a \in Sent : Close(a, known)

-----------------------------------------------------------------------------
(* The desk. *)

LEMMA Times ==
    /\ StaleAfter \in Nat /\ Tolerance \in Nat /\ Delay \in Nat /\ OtherDelays \subseteq Nat
    /\ ButtonDelay \in Nat /\ Lead \in Nat
  BY StaleAssumption, DeskAssumption, ButtonAssumption, TrayAssumption

LEMMA NoneApart ==
    /\ None \notin Int /\ None \notin Snapshots
    /\ \A u \in Urgencies, t \in NoticeTexts : Notice(u, t) # None
  BY NoneAssumption DEF Notice

LEMMA ButtonDesk ==
    ASSUME Pulse \/ MinGapPasses \/ Press
    PROVE  /\ UNCHANGED <<now, up, level, recorded, due, file>>
           /\ sched' \in {sched, None, Scheduled(now + ButtonDelay, "button")}
  <1>1. CASE Pulse \/ MinGapPasses \/ TakePulse \/ Recognise \/ ActOnBounce \/ ActIgnored
             \/ ReadsBack
    BY <1>1 DEF Pulse, MinGapPasses, TakePulse, Recognise, ActOnBounce, ActIgnored, ReadsBack,
                deskVars
  <1>2. CASE ActSchedules \/ ActCancels
    BY <1>2 DEF ActSchedules, ActCancels
  <1> QED
    BY <1>1, <1>2 DEF Press

LEMMA AgentDesk == ASSUME Agent PROVE UNCHANGED deskVars
  BY DEF Agent, ReadFile, ReadLogind, LogindUnreadable

LEMMA TrayDesk ==
    ASSUME Loop \/ Menu
    PROVE  /\ UNCHANGED <<now, up, level, recorded, due, file>>
           /\ sched' \in {sched, None, Scheduled(now + Lead, "wake")}
  <1>1. CASE Loop \/ NotePowerOff
    BY <1>1 DEF Loop, NotePowerOff, Refresh, TrayReadsLogind, ReadOurs, Push, ReadView, deskVars
  <1>2. CASE AskPowerOff \/ AskCancel \/ AskCancelBattery
    BY <1>2 DEF AskPowerOff, AskCancel, AskCancelBattery
  <1> QED
    BY <1>1, <1>2 DEF Menu

\* What the UPS thread and the rest of the machine do to logind's schedule.
LEMMA OtherSched ==
    ASSUME Ups \/ World
    PROVE  \/ sched' \in {sched, None, Scheduled(now + Delay, "ups")}
           \/ \E d \in OtherDelays : sched' = Scheduled(now + d, "other")
  BY DEF Ups, World, BatteryActs, BatteryGivesUp, Publish, SupplyChanges, DaemonStops,
         DaemonStarts, OperatorSchedules, OperatorCancels, Tick, Fire

LEMMA DeskInitial == Init => DeskTyped
  BY DEF Init, DeskInit, DeskTyped

LEMMA SnapshotType ==
    ASSUME NEW t \in Int, NEW l \in LevelNames, NEW p \in {None} \cup Int,
           NEW a \in {None} \cup Int, NEW m \in BOOLEAN
    PROVE  Snapshot(t, l, p, a, m) \in Snapshots
  BY DEF Snapshot, Snapshots

LEMMA PublishType == ASSUME DeskTyped, Publish PROVE file' \in Snapshots
  <1>1. now \in Int /\ recorded \in {None} \cup Int /\ level \in LevelNames
    BY DEF DeskTyped, LevelNames, KnownLevels, BatteryLevels
  <1>2. None \in {None} \cup Int /\ 50 \in {None} \cup Int
    OBVIOUS
  <1>3. (level = MISSING) \in BOOLEAN /\ FALSE \in BOOLEAN
    OBVIOUS
  <1>4. /\ Snapshot(now, level, None, None, level = MISSING) \in Snapshots
        /\ Snapshot(now, level, 50, recorded, FALSE) \in Snapshots
    BY <1>1, <1>2, <1>3, SnapshotType
  <1> QED
    BY <1>4 DEF Publish

LEMMA DeskStep == DeskTyped /\ [Next]_vars => DeskTyped'
  <1> SUFFICES ASSUME DeskTyped, [Next]_vars PROVE DeskTyped'
    OBVIOUS
  <1>0. now \in Int /\ (sched = None \/ sched \in Shutdowns)
    BY DEF DeskTyped
  <1>s. /\ Scheduled(now + ButtonDelay, "button") \in Shutdowns
        /\ Scheduled(now + Lead, "wake") \in Shutdowns
        /\ Scheduled(now + Delay, "ups") \in Shutdowns
        /\ \A d \in OtherDelays : Scheduled(now + d, "other") \in Shutdowns
    <2>1. ASSUME NEW d \in Nat, NEW by \in {"button", "wake", "ups", "other"}
          PROVE  Scheduled(now + d, by) \in Shutdowns
      BY <1>0 DEF Scheduled, Shutdowns
    <2> QED
      BY <2>1, Times
  <1>1. CASE ButtonStep
    BY <1>1, <1>s, ButtonDesk DEF ButtonStep, DeskTyped
  <1>2. CASE AgentStep
    BY <1>2, AgentDesk DEF AgentStep, DeskTyped, deskVars
  <1>3. CASE TrayStep
    BY <1>3, <1>s, TrayDesk DEF TrayStep, DeskTyped
  <1>4. CASE OtherStep
    <2>1. sched' = None \/ sched' \in Shutdowns
      BY <1>4, <1>0, <1>s, OtherSched DEF OtherStep
    <2>2. CASE BatteryActs
      <3>1. recorded' = sched'.at /\ sched' \in Shutdowns
        BY <2>2, <1>0, <1>s DEF BatteryActs, Shutdowns
      <3> QED
        BY <2>1, <2>2, <3>1 DEF BatteryActs, DeskTyped, Shutdowns
    <2>3. CASE BatteryGivesUp
      BY <2>1, <2>3 DEF BatteryGivesUp, DeskTyped
    <2>4. CASE Publish
      BY <2>1, <2>4, PublishType DEF Publish, DeskTyped
    <2>5. CASE SupplyChanges
      BY <2>1, <2>5 DEF SupplyChanges, DeskTyped
    <2>6. CASE DaemonStops \/ DaemonStarts \/ OperatorSchedules \/ OperatorCancels \/ Fire
      BY <2>1, <2>6 DEF DaemonStops, DaemonStarts, OperatorSchedules, OperatorCancels, Fire, DeskTyped
    <2>7. CASE Tick
      BY <2>1, <2>7 DEF Tick, DeskTyped
    <2> QED
      BY <1>4, <2>2, <2>3, <2>4, <2>5, <2>6, <2>7 DEF OtherStep, Ups, World
  <1>5. CASE UNCHANGED vars
    BY <1>5 DEF vars, deskVars, DeskTyped
  <1> QED
    BY <1>1, <1>2, <1>3, <1>4, <1>5 DEF Next

LEMMA SameSession == [Next]_vars => session' = session
  BY DEF Next, vars, ButtonStep, AgentStep, TrayStep, OtherStep, BesideButton, BesideAgent

-----------------------------------------------------------------------------
(* The button. *)

ButtonInv == PressOK /\ OwnedOK

LEMMA ButtonInitial == Init => ButtonInv
  BY DEF Init, ButtonInit, ButtonInv, PressOK, OwnedOK

\* No other program schedules in the button's name.
LEMMA OthersSched ==
    ASSUME AgentStep \/ TrayStep \/ OtherStep
    PROVE  sched' = sched \/ sched' = None \/ sched'.by # "button"
  <1>1. CASE AgentStep
    BY <1>1, AgentDesk DEF AgentStep, deskVars
  <1>2. CASE TrayStep
    BY <1>2, TrayDesk DEF TrayStep, Scheduled
  <1>3. CASE OtherStep
    BY <1>3, OtherSched DEF OtherStep, Scheduled
  <1> QED
    BY <1>1, <1>2, <1>3

\* A record is no mistake unless the last one was.
LEMMA MistakeOK ==
    ASSUME OwnedOK, KeepsMistake,
           button_ours' \in {None, button_ours} \/ button_ours'.by = "button"
    PROVE  OwnedOK'
  <1>1. CASE button_ours' = button_ours
    BY <1>1 DEF OwnedOK, KeepsMistake
  <1>2. CASE button_ours' = None \/ button_ours'.by = "button"
    BY <1>2 DEF OwnedOK
  <1> QED
    BY <1>1, <1>2

\* Whatever others do, a press keeps what it knows or is told that it was
\* disturbed, and a restart forgets it.
LEMMA BystanderKeeps ==
    ASSUME PressOK, OwnedOK, session' = session, ButtonBystander,
           sched' = sched \/ sched' = None \/ sched'.by # "button"
    PROVE  PressOK' /\ OwnedOK'
  <1>1. CASE up'
    <2>1. UNCHANGED <<press, pending, button_ours>> /\ (mistaken' <=> mistaken)
      BY <1>1 DEF ButtonBystander
    <2>2. ASSUME press' \in {"recognise", "act"}, ~disturbed' PROVE pending' = sched'
      <3>1. ~(disturbed \/ (press # "none" /\ sched' # sched))
        BY <1>1, <2>2 DEF ButtonBystander
      <3>2. ~disturbed /\ sched' = sched /\ press # "none"
        BY <3>1, <2>1, <2>2
      <3> QED
        BY <3>2, <2>1, <2>2 DEF PressOK
    <2>3. ASSUME press' = "recognise", sched' # None, sched'.by = "button"
          PROVE  pending' \in {sched', Unknown}
      BY <2>1, <2>3 DEF PressOK
    <2> QED
      BY <2>1, <2>2, <2>3 DEF PressOK, OwnedOK
  <1>2. CASE ~up'
    BY <1>2 DEF ButtonBystander, PressOK, OwnedOK
  <1> QED
    BY <1>1, <1>2

\* What a press takes to be its own.
LEMMA OwnedAfterOK ==
    OwnedAfter(pending, button_ours) \in {None, button_ours}
  BY DEF OwnedAfter

LEMMA UnknownApart == Unknown # None /\ Unknown \notin BOOLEAN
  BY ButtonAssumption

LEMMA PressKeeps ==
    ASSUME PressOK, OwnedOK, ButtonStep, session' = session
    PROVE  PressOK' /\ OwnedOK'
  <1>0. "button" \in session'
    BY DEF ButtonStep
  <1>1. CASE Pulse \/ MinGapPasses
    <2>1. UNCHANGED <<press, pending, button_ours, disturbed, mistaken, sched>>
      BY <1>1 DEF Pulse, MinGapPasses, deskVars
    <2> QED
      BY <2>1, <1>0 DEF PressOK, OwnedOK
  <1>2. CASE TakePulse
    <2>1. UNCHANGED <<sched, button_ours, mistaken>>
      BY <1>2 DEF TakePulse, deskVars
    <2>2. CASE Head(pulses) = "glitch"
      BY <1>0, <1>2, <2>1, <2>2 DEF TakePulse, PressOK, OwnedOK
    <2>3. CASE Head(pulses) # "glitch"
      <3>1. press' = "recognise" /\ pending' \in Maybe(sched) /\ disturbed' = (pending' = Unknown)
        BY <1>2, <2>3 DEF TakePulse
      <3>2. pending' \in {sched, Unknown}
        BY <3>1 DEF Maybe
      <3>3. ~disturbed' => pending' = sched'
        BY <3>1, <3>2, <2>1
      <3> QED
        BY <1>0, <2>1, <3>1, <3>2, <3>3 DEF PressOK, OwnedOK
    <2> QED
      BY <2>2, <2>3
  <1>3. CASE Recognise
    <2>1. press = "recognise" /\ press' = "act" /\ UNCHANGED <<pending, sched>>
      BY <1>3 DEF Recognise, deskVars
    <2>2. PICK mine \in Maybe(sched # None /\ sched.by = "button") :
             /\ button_ours' = IF pending \notin {None, Unknown} /\ mine = TRUE
                               THEN pending ELSE button_ours
             /\ disturbed' = (disturbed \/ mine = Unknown)
      BY <1>3 DEF Recognise
    <2>3. ~disturbed' => ~disturbed
      BY <2>2
    <2>4. ~disturbed' => pending' = sched'
      BY <2>1, <2>3 DEF PressOK
    <2>5. ASSUME pending \notin {None, Unknown}, mine = TRUE PROVE pending.by = "button"
      <3>1. TRUE \in BOOLEAN
        OBVIOUS
      <3>2. mine # Unknown
        BY <2>5, <3>1, UnknownApart
      <3>3. mine = (sched # None /\ sched.by = "button")
        BY <3>2 DEF Maybe
      <3>4. sched # None /\ sched.by = "button"
        BY <3>3, <2>5
      <3> QED
        BY <3>4, <2>1, <2>5 DEF PressOK
    <2>6. OwnedOK'
      BY <1>3, <2>2, <2>5, MistakeOK DEF Recognise
    <2> QED
      BY <1>0, <2>1, <2>4, <2>6 DEF PressOK
  <1>4. CASE ActOnBounce \/ ActIgnored \/ ActCancels
    <2>1. press' = "none"
      BY <1>4 DEF ActOnBounce, ActIgnored, ActCancels, EndPress
    <2>2. CASE ActOnBounce
      BY <1>0, <2>1, <2>2 DEF ActOnBounce, PressOK, OwnedOK
    <2>3. CASE ActIgnored \/ ActCancels
      <3>1. KeepsMistake /\ button_ours' \in {None, button_ours}
        BY <2>3, OwnedAfterOK DEF ActIgnored, ActCancels
      <3> QED
        BY <1>0, <2>1, <3>1, MistakeOK DEF PressOK
    <2> QED
      BY <1>4, <2>2, <2>3
  <1>5. CASE ActSchedules
    <2>1. press' \in {"none", "readback"}
      BY <1>5 DEF ActSchedules, EndPress
    <2>2. KeepsMistake /\ button_ours' \in {None, button_ours}
      BY <1>5, OwnedAfterOK DEF ActSchedules
    <2> QED
      BY <1>0, <2>1, <2>2, MistakeOK DEF PressOK
  <1>6. CASE ReadsBack
    <2>1. press' = "none" /\ mistaken' = (button_ours'.by \notin {"button", "intended"})
      BY <1>6 DEF ReadsBack, EndPress
    <2> QED
      BY <1>0, <2>1 DEF PressOK, OwnedOK
  <1> QED
    BY <1>1, <1>2, <1>3, <1>4, <1>5, <1>6 DEF ButtonStep, Press

LEMMA ButtonInductive == ButtonInv /\ [Next]_vars => ButtonInv'
  <1> SUFFICES ASSUME ButtonInv, [Next]_vars PROVE ButtonInv'
    OBVIOUS
  <1>0. PressOK /\ OwnedOK /\ session' = session
    BY SameSession DEF ButtonInv
  <1>1. CASE ButtonStep
    BY <1>0, <1>1, PressKeeps DEF ButtonInv
  <1>2. CASE AgentStep \/ TrayStep \/ OtherStep
    <2>1. BesideButton /\ (sched' = sched \/ sched' = None \/ sched'.by # "button")
      BY <1>2, OthersSched DEF AgentStep, TrayStep, OtherStep
    <2>2. CASE "button" \in session
      BY <1>0, <2>1, <2>2, BystanderKeeps DEF BesideButton, ButtonInv
    <2>3. CASE "button" \notin session
      BY <1>0, <2>1, <2>3 DEF BesideButton, buttonVars, ButtonInv, PressOK, OwnedOK
    <2> QED
      BY <2>2, <2>3
  <1>3. CASE UNCHANGED vars
    BY <1>0, <1>3 DEF vars, deskVars, buttonVars, ButtonInv, PressOK, OwnedOK
  <1> QED
    BY <1>1, <1>2, <1>3 DEF Next

\* A press schedules only when nothing is pending, and cancels only its own.
LEMMA PressSpares ==
    ASSUME DeskTyped, PressOK, OwnedOK, ButtonStep, sched # None, sched' # sched,
           ~disturbed, ~mistaken
    PROVE  sched.by = "button" /\ sched' = None
  <1>1. CASE ActSchedules
    <2>1. ActionOf(pending, button_ours) = "Schedule" /\ press = "act"
      BY <1>1 DEF ActSchedules
    <2>2. pending = None
      BY <2>1 DEF ActionOf
    <2> QED
      BY <2>1, <2>2 DEF PressOK
  <1>2. CASE ActCancels
    <2>1. ActionOf(pending, button_ours) = "Cancel" /\ press = "act" /\ sched' = None
      BY <1>2 DEF ActCancels
    <2>2. button_ours = pending
      BY <2>1 DEF ActionOf
    <2>3. pending = sched
      BY <2>1 DEF PressOK
    <2> QED
      BY <2>1, <2>2, <2>3 DEF OwnedOK, DeskTyped, Shutdowns
  <1>3. CASE Pulse \/ MinGapPasses \/ TakePulse \/ Recognise \/ ActOnBounce \/ ActIgnored
             \/ ReadsBack
    BY <1>3 DEF Pulse, MinGapPasses, TakePulse, Recognise, ActOnBounce, ActIgnored, ReadsBack,
                deskVars
  <1> QED
    BY <1>1, <1>2, <1>3 DEF ButtonStep, Press

-----------------------------------------------------------------------------
(* What the agent says of the file. *)

PoweroffTexts == {"powering off", "button", "scheduled"}
CancelTexts == {"restored, cancelled", "cancelled"}

\* A notice about the level says nothing of a poweroff.
LEMMA LevelTexts ==
    ASSUME NEW l, NEW b
    PROVE  /\ FirstSight(l) # None => FirstSight(l).text \notin PoweroffTexts \cup CancelTexts
           /\ LevelChange(b, l) # None => LevelChange(b, l).text \notin PoweroffTexts \cup CancelTexts
  <1>1. FirstSight(l) # None => FirstSight(l).text \notin PoweroffTexts \cup CancelTexts
    BY DEF FirstSight, Notice, PoweroffTexts, CancelTexts
  <1>2. ChangeText(b, l) \in {"connected again", "connected", "on battery", "low", "critical",
                              "restored", "lost contact", None}
    BY DEF ChangeText
  <1>3. LevelChange(b, l) # None =>
          \/ LevelChange(b, l).text = "missing"
          \/ LevelChange(b, l).text = ChangeText(b, l) /\ ChangeText(b, l) # None
    BY DEF LevelChange, Notice
  <1>4. ASSUME LevelChange(b, l) # None
        PROVE  LevelChange(b, l).text \notin PoweroffTexts \cup CancelTexts
    BY <1>2, <1>3, <1>4 DEF PoweroffTexts, CancelTexts
  <1> QED
    BY <1>1, <1>4

\* A poweroff is announced when the file has one, and cancelled when it has none.
LEMMA SaidOfPoweroff ==
    ASSUME NEW w, NEW s, NEW t, SaidOf(w, s, t) # None
    PROVE  /\ SaidOf(w, s, t).text \in PoweroffTexts => s # None /\ s.shutdown_at # None
           /\ SaidOf(w, s, t).text \in CancelTexts => s # None /\ s.shutdown_at = None
  <1>1. s # None
    BY DEF SaidOf
  <1>2. CASE IsStale(s, t)
    <2>1. SaidOf(w, s, t).text = "stopped updating"
      BY <1>1, <1>2 DEF SaidOf, Notice
    <2> QED
      BY <2>1 DEF PoweroffTexts, CancelTexts
  <1>3. CASE ~IsStale(s, t)
    <2>1. SaidOf(w, s, t) = NoticeOf(w.last, s)
      BY <1>1, <1>3 DEF SaidOf
    <2>2. CASE s.shutdown_at # None
      <3>1. NoticeOf(w.last, s).text \notin CancelTexts
        BY <2>1, <2>2, LevelTexts DEF NoticeOf, Notice, CancelTexts
      <3> QED
        BY <1>1, <2>1, <2>2, <3>1
    <2>3. CASE s.shutdown_at = None
      <3>1. NoticeOf(w.last, s).text \notin PoweroffTexts
        BY <2>1, <2>3, LevelTexts DEF NoticeOf, Notice, PoweroffTexts
      <3> QED
        BY <1>1, <2>1, <2>3, <3>1
    <2> QED
      BY <2>2, <2>3
  <1> QED
    BY <1>2, <1>3

\* A poweroff that is new in a fresh file is announced.
LEMMA SaidOfNew ==
    ASSUME NEW w, NEW s, NEW t, s # None, ~IsStale(s, t), s.shutdown_at # None,
           w.last = None \/ w.last.shutdown_at = None
    PROVE  SaidOf(w, s, t) # None /\ SaidOf(w, s, t).text \in PoweroffTexts
  <1>1. SaidOf(w, s, t) = Notice("Critical", "powering off")
    BY DEF SaidOf, NoticeOf
  <1>2. "Critical" \in Urgencies /\ "powering off" \in NoticeTexts
    BY DEF Urgencies, NoticeTexts
  <1>3. SaidOf(w, s, t) # None
    BY <1>1, <1>2, NoneApart
  <1>4. Notice("Critical", "powering off").text = "powering off"
    BY DEF Notice
  <1> QED
    BY <1>1, <1>3, <1>4 DEF PoweroffTexts

LEMMA HearKeeps ==
    ASSUME NEW n, NEW a, Hear(n, a)
    PROVE  /\ Sent' \in {Sent, Sent \cup {a}}
           /\ n = None \/ n.text \notin PoweroffTexts => Sent' = Sent
           /\ n # None /\ n.text \in PoweroffTexts => Sent' = Sent \cup {a}
  BY DEF Hear, PoweroffTexts, Sent

-----------------------------------------------------------------------------
(* The agent's state. *)

LEMMA ReadFileType ==
    ASSUME DeskTyped, NoticesTyped, ReadFile
    PROVE  /\ Sent' \subseteq Int /\ ups_at' \in {None} \cup Int
           /\ watcher'.last = None \/ watcher'.last \in Snapshots
           /\ watcher' = [last |-> watcher'.last, stale_reported |-> watcher'.stale_reported]
  <1>1. file # None => file.shutdown_at \in {None} \cup Int
    BY DEF DeskTyped, Snapshots
  <1>2. ups_at' = Published
    BY DEF ReadFile, Published
  <1>3. Hear(SaidOf(watcher, file, now), Published)
    BY DEF ReadFile, Published
  <1>4. Sent' \subseteq Int
    <2>1. CASE /\ SaidOf(watcher, file, now) # None
               /\ SaidOf(watcher, file, now).text \in PoweroffTexts
      <3>1. file # None /\ file.shutdown_at # None
        BY <2>1, SaidOfPoweroff
      <3>2. Published \in Int
        BY <1>1, <3>1 DEF Published
      <3>3. Sent' \in {Sent, Sent \cup {Published}}
        BY <1>3, HearKeeps
      <3> QED
        BY <3>2, <3>3 DEF NoticesTyped
    <2>2. CASE \/ SaidOf(watcher, file, now) = None
               \/ SaidOf(watcher, file, now).text \notin PoweroffTexts
      BY <1>3, <2>2, HearKeeps DEF NoticesTyped
    <2> QED
      BY <2>1, <2>2
  <1>5. watcher' = Observed(watcher, file, now)
    BY DEF ReadFile
  <1>6. watcher = [last |-> watcher.last, stale_reported |-> watcher.stale_reported]
    BY DEF NoticesTyped
  <1>7. \/ watcher' = [last |-> watcher.last, stale_reported |-> watcher.stale_reported]
        \/ watcher' = [last |-> watcher.last, stale_reported |-> TRUE]
        \/ file # None /\ watcher' = [last |-> file, stale_reported |-> FALSE]
    BY <1>5, <1>6 DEF Observed
  <1>8. watcher'.last = watcher.last \/ (file # None /\ watcher'.last = file)
    BY <1>7
  <1>9. watcher' = [last |-> watcher'.last, stale_reported |-> watcher'.stale_reported]
    BY <1>7
  <1> QED
    BY <1>1, <1>2, <1>4, <1>8, <1>9 DEF DeskTyped, NoticesTyped, Published

LEMMA ReadLogindType ==
    ASSUME DeskTyped, NoticesTyped, ReadLogind
    PROVE  Sent' \subseteq Int /\ known' \in {None} \cup Int
  <1>1. CASE sched = None
    <2>1. /\ Hear(IF known = None THEN None ELSE Notice("Normal", "cancelled"), None)
          /\ known' = None
      BY <1>1 DEF ReadLogind
    <2>2. Sent' = Sent
      BY <2>1, HearKeeps DEF Notice, PoweroffTexts
    <2> QED
      BY <2>1, <2>2 DEF NoticesTyped
  <1>2. CASE sched # None
    <2>1. Hear(Announced(sched), sched.at) /\ known' = KnownAfter(sched)
      BY <1>2 DEF ReadLogind
    <2>2. sched.at \in Int
      BY <1>2 DEF DeskTyped, Shutdowns
    <2>3. Sent' \in {Sent, Sent \cup {sched.at}}
      BY <2>1, HearKeeps
    <2> QED
      BY <2>1, <2>2, <2>3 DEF NoticesTyped, KnownAfter
  <1> QED
    BY <1>1, <1>2

LEMMA NoticesInitial == Init => NoticesTyped
  BY DEF Init, NoticesInit, NoticesTyped, NewWatcher, Sent

LEMMA BesideAgentTyped ==
    ASSUME NoticesTyped, BesideAgent
    PROVE  NoticesTyped'
  <1>1. UNCHANGED <<agent, watcher, known, ups_at, Sent, cried, session>>
    BY DEF BesideAgent, NoticesBystander, noticeVars, Sent
  <1> QED
    BY <1>1 DEF NoticesTyped

LEMMA NoticesStep == DeskTyped /\ NoticesTyped /\ [Next]_vars => NoticesTyped'
  <1> SUFFICES ASSUME DeskTyped, NoticesTyped, [Next]_vars PROVE NoticesTyped'
    OBVIOUS
  <1>0. session' = session
    BY SameSession
  <1>1. CASE AgentStep
    <2>1. "agent" \in session /\ Agent
      BY <1>1 DEF AgentStep
    <2>2. CASE ReadFile
      <3>1. known' = known
        BY <2>2 DEF ReadFile
      <3> QED
        BY <1>0, <2>1, <2>2, <3>1, ReadFileType DEF NoticesTyped
    <2>3. CASE ReadLogind
      <3>1. UNCHANGED <<watcher, ups_at>>
        BY <2>3 DEF ReadLogind
      <3> QED
        BY <1>0, <2>1, <2>3, <3>1, ReadLogindType DEF NoticesTyped
    <2>4. CASE LogindUnreadable
      BY <1>0, <2>1, <2>4 DEF LogindUnreadable, NoticesTyped, Sent
    <2> QED
      BY <2>1, <2>2, <2>3, <2>4 DEF Agent
  <1>2. CASE ButtonStep \/ TrayStep \/ OtherStep
    BY <1>2, BesideAgentTyped DEF ButtonStep, TrayStep, OtherStep
  <1>3. CASE UNCHANGED vars
    BY <1>3 DEF vars, noticeVars, NoticesTyped, Sent
  <1> QED
    BY <1>1, <1>2, <1>3 DEF Next

-----------------------------------------------------------------------------
(* The poweroff that stands. *)

LEMMA StandingInitial == Init => StandingOK
  BY DEF Init, NoticesInit, StandingOK

\* What a step of the rest of the machine leaves of a standing poweroff.
LEMMA StandingKept ==
    ASSUME NoticesBystander, standing', ~excused'
    PROVE  /\ ~excused
           /\ sched' = sched /\ sched # None
           /\ (file' # file /\ file'.shutdown_at # None) \/ standing
           /\ file' # file /\ file'.shutdown_at # None => Close(file'.shutdown_at, sched.at)
           /\ recorded # None \/ (file # None /\ file.shutdown_at # None) => up' /\ level' # MISSING
  <1>1. /\ sched' = sched /\ sched # None
        /\ IF file' # file /\ file'.shutdown_at # None
           THEN Close(file'.shutdown_at, sched.at) ELSE standing
    BY DEF NoticesBystander
  <1>2. ~(\/ excused
          \/ /\ recorded # None \/ (file # None /\ file.shutdown_at # None)
             /\ ~up' \/ level' = MISSING)
    BY DEF NoticesBystander
  <1> QED
    BY <1>1, <1>2

LEMMA StandingStep == DeskTyped /\ StandingOK /\ [Next]_vars => StandingOK'
  <1> SUFFICES ASSUME DeskTyped, StandingOK, [Next]_vars,
                      "agent" \in session', ~excused', standing'
               PROVE  (/\ recorded # None /\ sched # None /\ Close(recorded, sched.at)
                       /\ file # None /\ file.shutdown_at # None)'
    BY DEF StandingOK
  <1>0. "agent" \in session
    BY SameSession
  <1>1. CASE AgentStep
    <2>1. UNCHANGED <<standing, excused, deskVars>>
      BY <1>1 DEF AgentStep, Agent, ReadFile, ReadLogind, LogindUnreadable
    <2> QED
      BY <1>0, <2>1 DEF StandingOK, deskVars, Close
  <1>2. CASE ButtonStep \/ TrayStep
    <2>1. NoticesBystander /\ UNCHANGED <<recorded, file>>
      BY <1>0, <1>2, ButtonDesk, TrayDesk DEF ButtonStep, TrayStep, BesideAgent
    <2>2. sched' = sched /\ standing /\ ~excused
      BY <2>1, StandingKept
    <2> QED
      BY <1>0, <2>1, <2>2 DEF StandingOK, Close
  <1>3. CASE OtherStep
    <2>0. NoticesBystander
      BY <1>0, <1>3 DEF OtherStep, BesideAgent
    <2>1. ASSUME UNCHANGED <<recorded, file>>
          PROVE  (/\ recorded # None /\ sched # None /\ Close(recorded, sched.at)
                  /\ file # None /\ file.shutdown_at # None)'
      <3>1. sched' = sched /\ standing /\ ~excused
        BY <2>0, <2>1, StandingKept
      <3> QED
        BY <1>0, <2>1, <3>1 DEF StandingOK, Close
    <2>2. CASE BatteryActs
      <3>1. recorded = None /\ file' = file
        BY <2>2 DEF BatteryActs
      <3>2. standing /\ ~excused
        BY <2>0, <3>1, StandingKept
      <3> QED
        BY <1>0, <3>1, <3>2 DEF StandingOK
    <2>3. CASE BatteryGivesUp
      <3>1. file' = file
        BY <2>3 DEF BatteryGivesUp
      <3>2. standing /\ ~excused /\ sched' = sched
        BY <2>0, <3>1, StandingKept
      <3>3. sched # None /\ Close(sched.at, recorded)
        BY <1>0, <3>2 DEF StandingOK, Close
      <3>4. sched' = None
        BY <2>3, <3>3 DEF BatteryGivesUp
      <3> QED
        BY <3>2, <3>3, <3>4
    <2>4. CASE Publish
      <3>1. UNCHANGED <<sched, recorded, level, up>> /\ up /\ file' \in Snapshots
        BY <2>4, PublishType DEF Publish
      <3>2. CASE level = MISSING
        <4>1. file'.shutdown_at = None
          BY <2>4, <3>2 DEF Publish, Snapshot
        <4>2. standing /\ ~excused
          BY <2>0, <4>1, StandingKept
        <4>3. recorded # None
          BY <1>0, <4>2 DEF StandingOK
        <4> QED
          BY <2>0, <3>1, <3>2, <4>3, StandingKept
      <3>3. CASE level # MISSING
        <4>1. file'.shutdown_at = recorded
          BY <2>4, <3>3 DEF Publish, Snapshot, ABSENT, DeskTyped
        <4>2. recorded # None
          <5>1. SUFFICES ASSUME recorded = None PROVE FALSE
            OBVIOUS
          <5>2. standing /\ ~excused
            BY <2>0, <4>1, <5>1, StandingKept
          <5> QED
            BY <1>0, <5>1, <5>2 DEF StandingOK
        <4>3. Close(recorded, sched.at) /\ sched # None
          <5>1. CASE file' = file
            <6>1. standing /\ ~excused
              BY <2>0, <5>1, StandingKept
            <6> QED
              BY <1>0, <6>1 DEF StandingOK
          <5>2. CASE file' # file
            BY <2>0, <4>1, <4>2, <5>2, StandingKept
          <5> QED
            BY <5>1, <5>2
        <4>4. file' # None
          BY <3>1, NoneApart
        <4> QED
          BY <3>1, <4>1, <4>2, <4>3, <4>4 DEF Close
      <3> QED
        BY <3>2, <3>3
    <2>5. CASE DaemonStops
      <3>1. file' = file /\ ~up'
        BY <2>5 DEF DaemonStops
      <3>2. standing /\ ~excused
        BY <2>0, <3>1, StandingKept
      <3>3. recorded # None
        BY <1>0, <3>2 DEF StandingOK
      <3> QED
        BY <2>0, <3>1, <3>3, StandingKept
    <2>6. CASE SupplyChanges \/ DaemonStarts \/ OperatorSchedules \/ OperatorCancels \/ Tick \/ Fire
      BY <2>1, <2>6 DEF SupplyChanges, DaemonStarts, OperatorSchedules, OperatorCancels, Tick, Fire
    <2> QED
      BY <1>3, <2>2, <2>3, <2>4, <2>5, <2>6 DEF OtherStep, Ups, World
  <1>4. CASE UNCHANGED vars
    BY <1>0, <1>4 DEF vars, noticeVars, deskVars, StandingOK, Close
  <1> QED
    BY <1>1, <1>2, <1>3, <1>4 DEF Next

LEMMA ReliefStep ==
    NoticesTyped /\ StandingOK /\ NoFalseRelief /\ [Next]_vars => NoFalseRelief'
  <1> SUFFICES ASSUME NoticesTyped, StandingOK, NoFalseRelief, [Next]_vars, cried'
               PROVE  excused'
    BY DEF NoFalseRelief
  <1>1. CASE AgentStep /\ ReadFile
    <2>1. excused' = excused /\ "agent" \in session
      BY <1>1 DEF AgentStep, ReadFile
    <2>2. /\ SaidOf(watcher, file, now) # None
          /\ SaidOf(watcher, file, now).text \in CancelTexts
          /\ standing
      BY <1>1 DEF ReadFile, CancelTexts
    <2>3. file # None /\ file.shutdown_at = None
      BY <2>2, SaidOfPoweroff
    <2> QED
      BY <2>1, <2>2, <2>3 DEF StandingOK
  <1>2. CASE AgentStep /\ (ReadLogind \/ LogindUnreadable)
    <2>1. cried' = cried /\ excused' = excused
      BY <1>2 DEF ReadLogind, LogindUnreadable
    <2> QED
      BY <2>1, Zenon DEF NoFalseRelief
  <1>3. CASE BesideAgent
    <2>1. cried' = cried
      BY <1>3 DEF BesideAgent, NoticesBystander, noticeVars
    <2>2. CASE "agent" \in session
      BY <1>3, <2>1, <2>2 DEF BesideAgent, NoticesBystander, NoFalseRelief
    <2>3. CASE "agent" \notin session
      BY <2>1, <2>3 DEF NoticesTyped
    <2> QED
      BY <2>2, <2>3
  <1>4. CASE UNCHANGED vars
    BY <1>4 DEF vars, noticeVars, NoFalseRelief
  <1> QED
    BY <1>1, <1>2, <1>3, <1>4 DEF Next, AgentStep, Agent, ButtonStep, TrayStep, OtherStep

-----------------------------------------------------------------------------
(* What the agent has seen and what a person has heard. *)

\* One look at the file: it is remembered unless it is old, and an old one has
\* been seen before.
LEMMA ReadFileSees ==
    ASSUME DeskTyped, NoticesTyped, SeenOK, "agent" \in session, ReadFile
    PROVE  /\ file = None => watcher'.last = None
           /\ file # None => watcher'.last = file
  <1>1. watcher' = Observed(watcher, file, now)
    BY DEF ReadFile
  <1>2. CASE file = None
    BY <1>1, <1>2 DEF Observed, SeenOK
  <1>3. CASE file # None /\ ~IsStale(file, now)
    BY <1>1, <1>3 DEF Observed
  <1>4. CASE file # None /\ IsStale(file, now)
    <2>1. watcher' = [watcher EXCEPT !.stale_reported = TRUE]
      BY <1>1, <1>4 DEF Observed
    <2>2. watcher'.last = watcher.last
      BY <2>1 DEF NoticesTyped
    <2>3. file.updated # now
      BY <1>4, Times DEF DeskTyped, Snapshots, IsStale, Age
    <2>4. watcher.last = file
      BY <1>4, <2>3 DEF SeenOK
    <2> QED
      BY <1>4, <2>2, <2>4
  <1> QED
    BY <1>2, <1>3, <1>4

LEMMA SeenInitial == Init => SeenOK
  BY DEF Init, DeskInit, NoticesInit, NewWatcher, SeenOK

LEMMA SeenStep == DeskTyped /\ NoticesTyped /\ SeenOK /\ [Next]_vars => SeenOK'
  <1> SUFFICES ASSUME DeskTyped, NoticesTyped, SeenOK, [Next]_vars, "agent" \in session'
               PROVE  (/\ file = None => watcher.last = None
                       /\ file # None => watcher.last = file \/ (~looked /\ file.updated = now))'
    BY DEF SeenOK
  <1>0. "agent" \in session
    BY SameSession
  <1>1. CASE AgentStep
    <2>1. UNCHANGED <<file, now>>
      BY <1>1, AgentDesk DEF AgentStep, deskVars
    <2>2. CASE ReadFile
      BY <1>0, <2>1, <2>2, ReadFileSees
    <2>3. CASE ReadLogind \/ LogindUnreadable
      <3>1. UNCHANGED <<watcher, looked>>
        BY <2>3 DEF ReadLogind, LogindUnreadable
      <3> QED
        BY <1>0, <2>1, <3>1 DEF SeenOK
    <2> QED
      BY <1>1, <2>2, <2>3 DEF AgentStep, Agent
  <1>2. CASE ButtonStep \/ TrayStep \/ OtherStep
    <2>1. NoticesBystander
      BY <1>0, <1>2 DEF ButtonStep, TrayStep, OtherStep, BesideAgent
    <2>2. watcher' = watcher
      BY <2>1 DEF NoticesBystander
    <2>3. CASE file' = file /\ now' = now
      <3>1. ~looked => ~looked'
        BY <2>1 DEF NoticesBystander
      <3> QED
        BY <1>0, <2>2, <2>3, <3>1 DEF SeenOK
    <2>4. CASE file' # file \/ now' # now
      <3>1. looked /\ ~looked'
        BY <2>1, <2>4 DEF NoticesBystander
      <3>2. /\ file = None => watcher.last = None
            /\ file # None => watcher.last = file
        BY <1>0, <3>1 DEF SeenOK
      <3>3. CASE file' = file
        BY <2>2, <3>2, <3>3
      <3>4. CASE file' # file
        <4>1. Publish
          BY <1>2, <3>4, ButtonDesk, TrayDesk
             DEF ButtonStep, TrayStep, OtherStep, Ups, World, BatteryActs, BatteryGivesUp, SupplyChanges,
                 DaemonStops, DaemonStarts, OperatorSchedules, OperatorCancels, Tick, Fire
        <4>2. now' = now /\ file' \in Snapshots /\ file'.updated = now
          BY <4>1, PublishType DEF Publish, Snapshot
        <4> QED
          BY <3>1, <4>2, NoneApart
      <3> QED
        BY <3>3, <3>4
    <2> QED
      BY <2>3, <2>4
  <1>3. CASE UNCHANGED vars
    BY <1>0, <1>3 DEF vars, deskVars, noticeVars, SeenOK
  <1> QED
    BY <1>1, <1>2, <1>3 DEF Next

\* As long as the session has no excuse, it had none before.
LEMMA NoExcuse ==
    ASSUME NoticesBystander, ~excused'
    PROVE  /\ ~excused
           /\ recorded # None \/ Published # None => up' /\ level' # MISSING
  <1>1. ~(\/ excused
          \/ /\ recorded # None \/ (file # None /\ file.shutdown_at # None)
             /\ ~up' \/ level' = MISSING)
    BY DEF NoticesBystander
  <1> QED
    BY <1>1 DEF Published

LEMMA PublishedInitial == Init => PublishedOK
  BY DEF Init, DeskInit, Published, PublishedOK

\* What a publication publishes.
LEMMA PublicationIs ==
    ASSUME DeskTyped, Publish, ~excused', NoticesBystander
    PROVE  /\ Published' = recorded
           /\ UNCHANGED <<recorded, level, up>> /\ up
  <1>1. UNCHANGED <<recorded, level, up>> /\ up /\ file' \in Snapshots /\ file' # None
    BY PublishType, NoneApart DEF Publish
  <1>2. CASE level = MISSING
    <2>1. file'.shutdown_at = None
      BY <1>2 DEF Publish, Snapshot
    <2>2. recorded = None
      BY <1>1, <1>2, NoExcuse
    <2> QED
      BY <1>1, <2>1, <2>2 DEF Published
  <1>3. CASE level # MISSING
    <2>1. file'.shutdown_at = recorded
      BY <1>3 DEF Publish, Snapshot, ABSENT, DeskTyped
    <2> QED
      BY <1>1, <2>1 DEF Published
  <1> QED
    BY <1>2, <1>3

LEMMA PublishedStep == DeskTyped /\ PublishedOK /\ [Next]_vars => PublishedOK'
  <1> SUFFICES ASSUME DeskTyped, PublishedOK, [Next]_vars,
                      "agent" \in session', ~excused', Published' # None
               PROVE  (up /\ (recorded = Published \/ (recorded = None /\ due)))'
    BY DEF PublishedOK
  <1>0. "agent" \in session
    BY SameSession
  <1>1. CASE AgentStep
    <2>1. UNCHANGED <<excused, deskVars>>
      BY <1>1 DEF AgentStep, Agent, ReadFile, ReadLogind, LogindUnreadable
    <2> QED
      BY <1>0, <2>1 DEF PublishedOK, deskVars, Published
  <1>2. CASE ButtonStep \/ TrayStep
    <2>1. NoticesBystander /\ UNCHANGED <<recorded, file, up, due>>
      BY <1>0, <1>2, ButtonDesk, TrayDesk DEF ButtonStep, TrayStep, BesideAgent
    <2> QED
      BY <1>0, <2>1, NoExcuse DEF PublishedOK, Published
  <1>3. CASE OtherStep
    <2>0. NoticesBystander
      BY <1>0, <1>3 DEF OtherStep, BesideAgent
    <2>1. ~excused
      BY <2>0, NoExcuse
    <2>2. ASSUME file' = file
          PROVE  /\ Published' = Published /\ Published # None /\ up'
                 /\ up /\ (recorded = Published \/ (recorded = None /\ due))
      <3>1. Published' = Published
        BY <2>2 DEF Published
      <3>2. up /\ (recorded = Published \/ (recorded = None /\ due))
        BY <1>0, <2>1, <3>1 DEF PublishedOK
      <3>3. up'
        BY <2>0, <3>1, NoExcuse
      <3> QED
        BY <3>1, <3>2, <3>3
    <2>3. CASE BatteryActs
      <3>1. recorded = None /\ ~due /\ file' = file
        BY <2>3 DEF BatteryActs
      <3> QED
        BY <2>2, <3>1
    <2>4. CASE BatteryGivesUp
      <3>1. recorded' = None /\ file' = file /\ due' = TRUE
        BY <2>4 DEF BatteryGivesUp
      <3> QED
        BY <2>2, <3>1
    <2>5. CASE Publish
      BY <2>0, <2>5, PublicationIs
    <2>6. CASE DaemonStops
      BY <2>2, <2>6 DEF DaemonStops
    <2>7. CASE SupplyChanges \/ DaemonStarts \/ OperatorSchedules \/ OperatorCancels \/ Tick \/ Fire
      <3>1. file' = file /\ UNCHANGED <<recorded, due>>
        BY <2>7 DEF SupplyChanges, DaemonStarts, OperatorSchedules, OperatorCancels, Tick, Fire
      <3> QED
        BY <2>2, <3>1
    <2> QED
      BY <1>3, <2>3, <2>4, <2>5, <2>6, <2>7 DEF OtherStep, Ups, World
  <1>4. CASE UNCHANGED vars
    BY <1>0, <1>4 DEF vars, noticeVars, deskVars, PublishedOK, Published
  <1> QED
    BY <1>1, <1>2, <1>3, <1>4 DEF Next

LEMMA HeardInitial == Init => SeenHeard /\ UpsHeard /\ KnownHeard
  BY DEF Init, DeskInit, NoticesInit, NewWatcher, SeenHeard, UpsHeard, KnownHeard, Seen, Published

\* A look at the file leaves no poweroff in it unheard.
LEMMA ReadFileTells ==
    ASSUME DeskTyped, NoticesTyped, SeenOK, SeenHeard, "agent" \in session, ~excused, ReadFile
    PROVE  /\ Seen' = Published /\ Published' = Published
           /\ Published # None => Published \in Sent'
           /\ Sent \subseteq Sent'
  <1>1. file' = file
    BY DEF ReadFile, deskVars
  <1>2. Hear(SaidOf(watcher, file, now), Published)
    BY DEF ReadFile, Published
  <1>3. Sent \subseteq Sent'
    BY <1>2, HearKeeps
  <1>4. Published' = Published
    BY <1>1 DEF Published
  <1>5. Seen' = Published
    BY <1>1, ReadFileSees, NoneApart DEF Seen, Published
  <1>6. ASSUME Published # None PROVE Published \in Sent'
    <2>1. file # None /\ Published = file.shutdown_at
      BY <1>6 DEF Published
    <2>2. CASE Seen # None
      BY <1>3, <1>6, <2>2 DEF SeenHeard
    <2>3. CASE Seen = None
      <3>1. watcher.last = None \/ watcher.last.shutdown_at = None
        BY <2>3 DEF Seen
      <3>2. ~IsStale(file, now)
        <4>1. SUFFICES ASSUME IsStale(file, now) PROVE FALSE
          OBVIOUS
        <4>2. file.updated # now
          BY <2>1, <4>1, Times DEF DeskTyped, Snapshots, IsStale, Age
        <4>3. watcher.last = file
          BY <2>1, <4>2 DEF SeenOK
        <4> QED
          BY <1>6, <2>1, <2>3, <4>3 DEF Seen
      <3>3. Sent' = Sent \cup {Published}
        BY <1>2, <1>6, <2>1, <3>1, <3>2, SaidOfNew, HearKeeps
      <3> QED
        BY <3>3
    <2> QED
      BY <2>2, <2>3
  <1> QED
    BY <1>3, <1>4, <1>5, <1>6

LEMMA CloseToItself == ASSUME NEW a \in Int PROVE Close(a, a)
  BY Times DEF Close

\* A look at logind leaves what is scheduled close to what was heard, or to
\* what was known before.
LEMMA ReadLogindTells ==
    ASSUME DeskTyped, NoticesTyped, UpsHeard, "agent" \in session, ~excused, ReadLogind
    PROVE  /\ Sent \subseteq Sent'
           /\ sched = None => known' = None
           /\ sched # None =>
                \/ known # None /\ Close(known, sched.at) /\ known' = known
                \/ known' = sched.at /\ \E a \in Sent' : Close(a, sched.at)
  <1>1. CASE sched = None
    <2>1. /\ Hear(IF known = None THEN None ELSE Notice("Normal", "cancelled"), None)
          /\ known' = None
      BY <1>1 DEF ReadLogind
    <2>2. Sent' = Sent
      BY <2>1, HearKeeps DEF Notice, PoweroffTexts
    <2> QED
      BY <1>1, <2>1, <2>2
  <1>2. CASE sched # None
    <2>1. Hear(Announced(sched), sched.at) /\ known' = KnownAfter(sched)
      BY <1>2 DEF ReadLogind
    <2>2. sched.at \in Int
      BY <1>2 DEF DeskTyped, Shutdowns
    <2>3. Sent \subseteq Sent'
      BY <2>1, HearKeeps
    <2>4. CASE known # None /\ Close(known, sched.at)
      BY <1>2, <2>1, <2>3, <2>4 DEF KnownAfter
    <2>5. CASE ~(known # None /\ Close(known, sched.at))
      <3>1. known' = sched.at
        BY <2>1, <2>5 DEF KnownAfter
      <3>2. CASE ups_at # None /\ Close(ups_at, sched.at)
        <4>1. ups_at \in Sent'
          BY <2>3, <3>2 DEF UpsHeard
        <4> QED
          BY <1>2, <2>3, <3>1, <3>2, <4>1
      <3>3. CASE ~(ups_at # None /\ Close(ups_at, sched.at))
        <4>1. \E t \in {"button", "scheduled"} : Announced(sched) = Notice("Critical", t)
          BY <2>5, <3>3 DEF Announced
        <4>2. PICK t \in {"button", "scheduled"} : Announced(sched) = Notice("Critical", t)
          BY <4>1
        <4>3. Notice("Critical", t).text = t
          BY DEF Notice
        <4>4. "Critical" \in Urgencies /\ t \in NoticeTexts /\ t \in PoweroffTexts
          BY DEF Urgencies, NoticeTexts, PoweroffTexts
        <4>5. Announced(sched) # None /\ Announced(sched).text \in PoweroffTexts
          BY <4>2, <4>3, <4>4, NoneApart
        <4>6. sched.at \in Sent'
          BY <2>1, <4>5, HearKeeps
        <4> QED
          BY <1>2, <2>2, <2>3, <3>1, <4>6, CloseToItself
      <3> QED
        BY <3>2, <3>3
    <2> QED
      BY <2>4, <2>5
  <1> QED
    BY <1>1, <1>2

HeardInv == SeenHeard /\ UpsHeard /\ KnownHeard

LEMMA HeardStep ==
    /\ DeskTyped /\ NoticesTyped /\ SeenOK /\ PublishedOK /\ HeardInv
    /\ [Next]_vars
    => HeardInv'
  <1> SUFFICES ASSUME DeskTyped, NoticesTyped, SeenOK, PublishedOK, HeardInv, [Next]_vars,
                      "agent" \in session', ~excused'
               PROVE  (/\ Seen # None => Seen \in Sent /\ Published \in {Seen, None}
                       /\ ups_at # None => ups_at \in Sent
                       /\ known # None => \E a \in Sent : Close(a, known))'
    BY DEF HeardInv, SeenHeard, UpsHeard, KnownHeard
  <1>0. "agent" \in session
    BY SameSession
  <1>1. CASE AgentStep
    <2>1. UNCHANGED <<excused, file>>
      BY <1>1 DEF AgentStep, Agent, ReadFile, ReadLogind, LogindUnreadable, deskVars
    <2>2. ~excused /\ Published' = Published
      BY <2>1 DEF Published
    <2>3. /\ Seen # None => Seen \in Sent /\ Published \in {Seen, None}
          /\ ups_at # None => ups_at \in Sent
          /\ known # None => \E a \in Sent : Close(a, known)
      BY <1>0, <2>2 DEF HeardInv, SeenHeard, UpsHeard, KnownHeard
    <2>4. CASE ReadFile
      <3>1. ups_at' = Published /\ known' = known
        BY <2>4 DEF ReadFile, Published
      <3>2. /\ Seen' = Published
            /\ Published # None => Published \in Sent'
            /\ Sent \subseteq Sent'
        BY <1>0, <2>2, <2>4, ReadFileTells DEF HeardInv
      <3>3. known' # None => \E a \in Sent' : Close(a, known')
        BY <2>3, <3>1, <3>2
      <3> QED
        BY <2>2, <3>1, <3>2, <3>3 DEF Close
    <2>5. CASE ReadLogind
      <3>1. UNCHANGED <<watcher, ups_at>>
        BY <2>5 DEF ReadLogind
      <3>2. Seen' = Seen
        BY <3>1 DEF Seen
      <3>3. /\ Sent \subseteq Sent'
            /\ sched = None => known' = None
            /\ sched # None =>
                 \/ known # None /\ Close(known, sched.at) /\ known' = known
                 \/ known' = sched.at /\ \E a \in Sent' : Close(a, sched.at)
        BY <1>0, <2>2, <2>5, ReadLogindTells DEF HeardInv
      <3>4. known' # None => \E a \in Sent' : Close(a, known')
        BY <2>3, <3>3
      <3> QED
        BY <2>2, <2>3, <3>1, <3>2, <3>3, <3>4 DEF Close
    <2>6. CASE LogindUnreadable
      <3>1. UNCHANGED <<watcher, ups_at, known, Sent>>
        BY <2>6 DEF LogindUnreadable, Sent
      <3>2. Seen' = Seen
        BY <3>1 DEF Seen
      <3> QED
        BY <2>2, <2>3, <3>1, <3>2 DEF Close
    <2> QED
      BY <1>1, <2>4, <2>5, <2>6 DEF AgentStep, Agent
  <1>2. CASE ButtonStep \/ TrayStep \/ OtherStep
    <2>0. NoticesBystander
      BY <1>0, <1>2 DEF ButtonStep, TrayStep, OtherStep, BesideAgent
    <2>1. ~excused /\ UNCHANGED <<watcher, ups_at, known, Sent>>
      BY <2>0, NoExcuse DEF NoticesBystander, Sent
    <2>2. Seen' = Seen
      BY <2>1 DEF Seen
    <2>3. /\ Seen # None => Seen \in Sent /\ Published \in {Seen, None}
          /\ ups_at # None => ups_at \in Sent
          /\ known # None => \E a \in Sent : Close(a, known)
      BY <1>0, <2>1 DEF HeardInv, SeenHeard, UpsHeard, KnownHeard
    <2>4. ASSUME Seen # None PROVE Published' \in {Seen, None}
      <3>1. CASE file' = file
        BY <2>3, <2>4, <3>1 DEF Published
      <3>2. CASE file' # file
        <4>1. Publish
          BY <1>2, <3>2, ButtonDesk, TrayDesk
             DEF ButtonStep, TrayStep, OtherStep, Ups, World, BatteryActs, BatteryGivesUp, SupplyChanges,
                 DaemonStops, DaemonStarts, OperatorSchedules, OperatorCancels, Tick, Fire
        <4>2. Published' = recorded
          BY <2>0, <4>1, PublicationIs
        <4>3. looked
          BY <2>0, <3>2 DEF NoticesBystander
        <4>4. Seen = Published
          BY <1>0, <2>4, <4>3 DEF SeenOK, Seen, Published
        <4>5. recorded \in {Published, None}
          BY <1>0, <2>1, <2>4, <4>4 DEF PublishedOK
        <4> QED
          BY <4>2, <4>4, <4>5
      <3> QED
        BY <3>1, <3>2
    <2> QED
      BY <2>1, <2>2, <2>3, <2>4 DEF Close
  <1>3. CASE UNCHANGED vars
    <2>1. /\ UNCHANGED <<watcher, ups_at, known, Sent, excused, file>>
          /\ Seen' = Seen /\ Published' = Published
      BY <1>3 DEF vars, deskVars, noticeVars, Seen, Published, Sent
    <2>2. /\ Seen # None => Seen \in Sent /\ Published \in {Seen, None}
          /\ ups_at # None => ups_at \in Sent
          /\ known # None => \E a \in Sent : Close(a, known)
      BY <1>0, <2>1 DEF HeardInv, SeenHeard, UpsHeard, KnownHeard
    <2> QED
      BY <2>1, <2>2 DEF Close
  <1> QED
    BY <1>1, <1>2, <1>3 DEF Next

\* A look at logind by an agent that has kept up.
LEMMA LookTells ==
    ASSUME DeskTyped, NoticesTyped, HeardInv, ReadLogind, ~excused, sched # None,
           Sent' \subseteq Int
    PROVE  \E at \in Sent' : NearTwice(at, sched.at)
  <1>1. "agent" \in session
    BY DEF ReadLogind, NoticesTyped
  <1>2. sched.at \in Int /\ Tolerance \in Nat
    BY Times DEF DeskTyped, Shutdowns
  <1>3. /\ Sent \subseteq Sent'
        /\ \/ known # None /\ Close(known, sched.at)
           \/ \E a \in Sent' : Close(a, sched.at)
    BY <1>1, ReadLogindTells DEF HeardInv
  <1>4. CASE known # None /\ Close(known, sched.at)
    <2>1. PICK a \in Sent : Close(a, known)
      BY <1>1, <1>4 DEF HeardInv, KnownHeard
    <2>2. a \in Sent' /\ a \in Int /\ known \in Int
      BY <1>3, <1>4, <2>1 DEF NoticesTyped
    <2>3. NearTwice(a, sched.at)
      BY <1>2, <1>4, <2>1, <2>2 DEF Close, NearTwice
    <2> QED
      BY <2>2, <2>3
  <1>5. CASE \E a \in Sent' : Close(a, sched.at)
    <2>1. PICK a \in Sent' : Close(a, sched.at)
      BY <1>5
    <2>2. NearTwice(a, sched.at)
      BY <1>2, <2>1 DEF Close, NearTwice
    <2> QED
      BY <2>2
  <1> QED
    BY <1>3, <1>4, <1>5

-----------------------------------------------------------------------------
(* The tray. *)

\* The menu's poweroff is scheduled and not noted yet.
Unnoted == menu = "asked" /\ answered # None

\* What is shown says what logind holds.
Shows(p, s) == IF s = None THEN p = None ELSE p # None /\ p.at = s.at

\* Said to be this tray's, with its wake.
SaidOurs(p) == p # None /\ p.wake

TrayTyped ==
    /\ scheduled = None \/ scheduled \in Shutdowns
    /\ poll \in {"refresh", "logind", "ours", "push", "view"}

\* What the menu wrote and the loop has not pushed over is what logind holds,
\* and this tray's.
MenuOK ==
    /\ Unnoted => answered = sched /\ tray_pending = None
    /\ tray_pending # shown_pending => Unnoted \/ Shows(tray_pending, sched)
    /\ tray_pending # shown_pending /\ tray_pending # None => tray_ours = tray_pending.at

\* What a round makes of a reading that is still true.
RoundOK ==
    /\ ~blind /\ poll \in {"ours", "push"} => scheduled = sched
    /\ poll = "push" => Shows(now_pending, scheduled)
    /\ poll = "push" /\ ~blind /\ SaidOurs(now_pending) => tray_ours = sched.at

PushedOK ==
    ~blind /\ poll \in {"view", "refresh", "logind"} =>
        /\ Unnoted \/ Shows(tray_pending, sched)
        /\ SaidOurs(tray_pending) => tray_ours = sched.at

TrayInv == "tray" \in session => TrayTyped /\ MenuOK /\ RoundOK /\ PushedOK

LEMMA TrayInitial == Init => TrayInv
  BY DEF Init, DeskInit, TrayInit, TrayInv, TrayTyped, MenuOK, RoundOK, PushedOK, Unnoted

\* Behind the tray's back: it goes blind, and not between a click and what the
\* loop makes of it.
LEMMA BehindTheTray ==
    ASSUME ~Hasty, TrayInv, "tray" \in session, session' = session, TrayBystander
    PROVE  TrayInv'
  <1>1. TrayTyped /\ MenuOK /\ RoundOK /\ PushedOK
    BY DEF TrayInv
  <1>2. /\ UNCHANGED <<poll, scheduled, now_pending, shown_pending, tray_pending, tray_ours, menu, answered>>
        /\ ~blind' => ~blind /\ sched' = sched
        /\ sched' # sched => menu = "closed" /\ tray_pending = shown_pending
    BY DEF TrayBystander
  <1>3. TrayTyped'
    BY <1>1, <1>2 DEF TrayTyped
  <1>4. Unnoted' = Unnoted
    BY <1>2 DEF Unnoted
  <1>5. MenuOK'
    <2>1. CASE sched' = sched
      BY <1>1, <1>2, <1>4, <2>1 DEF MenuOK, Shows
    <2>2. CASE sched' # sched
      BY <1>1, <1>2, <1>4, <2>2 DEF MenuOK, Unnoted
    <2> QED BY <2>1, <2>2
  <1>6. RoundOK'
    BY <1>1, <1>2 DEF RoundOK, Shows, SaidOurs
  <1>7. PushedOK'
    <2> SUFFICES ASSUME ~blind', poll' \in {"view", "refresh", "logind"}
                 PROVE  /\ Unnoted' \/ Shows(tray_pending, sched)'
                        /\ SaidOurs(tray_pending)' => tray_ours' = sched'.at
      BY DEF PushedOK
    <2> QED BY <1>1, <1>2, <1>4 DEF PushedOK, Shows, SaidOurs
  <1> QED BY <1>3, <1>5, <1>6, <1>7 DEF TrayInv

LEMMA PendingShows ==
    ASSUME NEW s, s = None \/ s \in Shutdowns, NEW o
    PROVE  /\ Shows(PendingOf(s, o), s)
           /\ SaidOurs(PendingOf(s, o)) => o = s.at
  <1>1. CASE s = None
    BY <1>1 DEF PendingOf, Shows, SaidOurs
  <1>2. CASE s # None /\ s \in Shutdowns
    <2> DEFINE ours == o # None /\ s.at = o
    <2>1. s.at \in Int /\ ours \in BOOLEAN /\ (ours => s.at = o)
      BY <1>2 DEF Shutdowns
    <2>2. PendingOf(s, o) = [at |-> s.at, wake |-> ours]
      BY <1>2 DEF PendingOf, Pending
    <2> HIDE DEF ours
    <2>3. PendingOf(s, o) \in Pendings
      BY <2>2, <2>1 DEF Pendings
    <2>4. PendingOf(s, o).at = s.at /\ (PendingOf(s, o).wake => s.at = o)
      BY <2>1, <2>2
    <2>5. PendingOf(s, o) # None
      BY <2>3, TrayAssumption
    <2> QED BY <1>2, <2>4, <2>5 DEF Shows, SaidOurs
  <1> QED BY <1>1, <1>2

\* The loop's own steps.
LEMMA LoopKeeps ==
    ASSUME DeskTyped, TrayTyped, MenuOK, RoundOK, PushedOK, Loop
    PROVE  TrayTyped' /\ MenuOK' /\ RoundOK' /\ PushedOK'
  <1>0. sched = None \/ sched \in Shutdowns
    BY DEF DeskTyped
  <1>1. sched' = sched /\ UNCHANGED <<menu, answered, tray_ours>>
    BY DEF Loop, Refresh, TrayReadsLogind, ReadOurs, Push, ReadView, deskVars
  <1>2. Unnoted' = Unnoted
    BY <1>1 DEF Unnoted
  <1>3. CASE Refresh \/ ReadView
    <2>1. /\ UNCHANGED <<scheduled, now_pending, shown_pending, tray_pending, blind>>
          /\ poll \in {"refresh", "view"} /\ poll' \in {"refresh", "logind"}
      BY <1>3 DEF Refresh, ReadView
    <2>2. TrayTyped'
      BY <2>1 DEF TrayTyped
    <2>3. MenuOK'
      BY <1>1, <1>2, <2>1 DEF MenuOK, Shows
    <2>4. RoundOK'
      BY <2>1 DEF RoundOK
    <2>5. PushedOK'
      BY <1>1, <1>2, <2>1 DEF PushedOK, Shows, SaidOurs
    <2> QED BY <2>2, <2>3, <2>4, <2>5
  <1>4. CASE TrayReadsLogind
    <2>1. /\ UNCHANGED <<now_pending, shown_pending, tray_pending>>
          /\ poll' = "ours" /\ scheduled' \in {sched, None} /\ blind' = (scheduled' # sched)
      BY <1>4 DEF TrayReadsLogind
    <2>2. TrayTyped'
      BY <1>0, <2>1 DEF TrayTyped
    <2>3. MenuOK'
      BY <1>1, <1>2, <2>1 DEF MenuOK, Shows
    <2>4. RoundOK'
      BY <1>1, <2>1 DEF RoundOK
    <2>5. PushedOK'
      BY <2>1 DEF PushedOK
    <2> QED BY <2>2, <2>3, <2>4, <2>5
  <1>5. CASE ReadOurs
    <2>1. /\ UNCHANGED <<scheduled, shown_pending, tray_pending, blind>>
          /\ poll = "ours" /\ poll' = "push" /\ now_pending' = PendingOf(scheduled, tray_ours)
      BY <1>5 DEF ReadOurs
    <2>2. TrayTyped'
      BY <2>1 DEF TrayTyped
    <2>3. MenuOK'
      BY <1>1, <1>2, <2>1 DEF MenuOK, Shows
    <2>4. RoundOK'
      <3>1. Shows(now_pending', scheduled) /\ (SaidOurs(now_pending') => tray_ours = scheduled.at)
        BY <2>1, PendingShows DEF TrayTyped
      <3>2. ~blind => scheduled = sched
        BY <2>1 DEF RoundOK
      <3> QED BY <1>1, <2>1, <3>1, <3>2 DEF RoundOK, Shows, SaidOurs
    <2>5. PushedOK'
      BY <2>1 DEF PushedOK
    <2> QED BY <2>2, <2>3, <2>4, <2>5
  <1>6. CASE Push
    <2>1. /\ UNCHANGED <<scheduled, now_pending, blind>> /\ poll = "push" /\ poll' = "view"
          /\ \/ now_pending = shown_pending /\ UNCHANGED <<tray_pending, shown_pending>>
             \/ menu = "closed" /\ tray_pending' = now_pending /\ shown_pending' = now_pending
      BY <1>6 DEF Push
    <2>2. TrayTyped'
      BY <2>1 DEF TrayTyped
    <2>3. ~blind => scheduled = sched /\ Shows(now_pending, sched) /\ (SaidOurs(now_pending) => tray_ours = sched.at)
      BY <2>1 DEF RoundOK
    <2>4. MenuOK'
      BY <1>1, <1>2, <2>1 DEF MenuOK, Shows, Unnoted
    <2>5. RoundOK'
      BY <2>1 DEF RoundOK
    <2>6. PushedOK'
      <3> SUFFICES ASSUME ~blind
                   PROVE  /\ Unnoted \/ Shows(tray_pending', sched)
                          /\ SaidOurs(tray_pending') => tray_ours = sched.at
        BY <1>1, <1>2, <2>1 DEF PushedOK, Shows, SaidOurs
      <3>1. CASE tray_pending' = now_pending
        BY <2>3, <3>1
      <3>2. CASE now_pending = shown_pending /\ tray_pending' = tray_pending /\ tray_pending # shown_pending
        <4>1. Unnoted \/ Shows(tray_pending, sched)
          BY <3>2 DEF MenuOK
        <4>2. SaidOurs(tray_pending) => tray_ours = sched.at
          BY <3>2, <4>1 DEF MenuOK, SaidOurs, Shows
        <4> QED BY <3>2, <4>1, <4>2
      <3> QED BY <2>1, <3>1, <3>2
    <2> QED BY <2>2, <2>4, <2>5, <2>6
  <1> QED BY <1>3, <1>4, <1>5, <1>6 DEF Loop

\* The menu's steps.
LEMMA MenuKeeps ==
    ASSUME ~Hasty, DeskTyped, TrayTyped, MenuOK, RoundOK, PushedOK, Menu
    PROVE  TrayTyped' /\ MenuOK' /\ RoundOK' /\ PushedOK'
  <1>0. /\ sched = None \/ sched \in Shutdowns
        /\ \A s \in Shutdowns : s # None
    BY ButtonAssumption DEF DeskTyped
  <1>1. UNCHANGED <<poll, scheduled, now_pending, shown_pending>> /\ TrayTyped'
    BY DEF Menu, AskPowerOff, NotePowerOff, AskCancel, AskCancelBattery, TrayTyped
  <1>2. CASE AskPowerOff
    <2>1. /\ menu = "closed" /\ menu' = "asked" /\ tray_pending = None
          /\ UNCHANGED <<tray_pending, tray_ours>>
          /\ ~blind' => ~blind /\ sched' = sched
          /\ answered' = None => sched' = sched
          /\ answered' # None => answered' = sched'
      <3>1. menu = "closed" /\ menu' = "asked" /\ tray_pending = None /\ UNCHANGED <<tray_pending, tray_ours>>
        BY <1>2 DEF AskPowerOff, Offer
      <3>2. ~blind' => ~blind /\ sched' = sched
        BY <1>2 DEF AskPowerOff
      <3>3. \/ answered' = sched' /\ sched' = Scheduled(now + Lead, "wake")
            \/ answered' = None /\ sched' = sched
        BY <1>2 DEF AskPowerOff
      <3>4. Scheduled(now + Lead, "wake") # None
        <4>1. Scheduled(now + Lead, "wake") \in Shutdowns
          BY Times DEF DeskTyped, Scheduled, Shutdowns
        <4> QED BY <1>0, <4>1
      <3> QED BY <3>1, <3>2, <3>3, <3>4
    <2>2. ~Unnoted
      BY <2>1 DEF Unnoted
    <2>3. MenuOK'
      <3>1. CASE answered' = None
        BY <1>1, <2>1, <2>2, <3>1 DEF MenuOK, Shows, Unnoted
      <3>2. CASE answered' # None
        BY <1>1, <2>1, <3>2 DEF MenuOK, Unnoted
      <3> QED BY <3>1, <3>2
    <2>4. RoundOK'
      BY <1>1, <2>1 DEF RoundOK, Shows, SaidOurs
    <2>5. PushedOK'
      <3> SUFFICES ASSUME ~blind', poll \in {"view", "refresh", "logind"}
                   PROVE  Shows(tray_pending', sched') /\ ~SaidOurs(tray_pending')
        BY <1>1 DEF PushedOK, Shows, SaidOurs
      <3> QED BY <2>1, <2>2 DEF PushedOK, Shows, SaidOurs
    <2> QED BY <1>1, <2>3, <2>4, <2>5
  <1>3. CASE NotePowerOff
    <2>0. sched' = sched /\ menu = "asked" /\ menu' = "closed" /\ answered' = None /\ UNCHANGED blind
      BY <1>3 DEF NotePowerOff, deskVars
    <2>1. ~Unnoted'
      BY <2>0 DEF Unnoted
    <2>2. CASE answered = None
      <3>1. UNCHANGED <<tray_pending, tray_ours>> /\ ~Unnoted
        BY <1>3, <2>2 DEF NotePowerOff, Unnoted
      <3>2. MenuOK'
        BY <1>1, <2>0, <2>1, <3>1 DEF MenuOK, Shows
      <3>3. RoundOK'
        BY <1>1, <2>0, <3>1 DEF RoundOK, Shows, SaidOurs
      <3>4. PushedOK'
        BY <1>1, <2>0, <2>1, <3>1 DEF PushedOK, Shows, SaidOurs
      <3> QED BY <1>1, <3>2, <3>3, <3>4
    <2>3. CASE answered # None
      <3>1. answered = sched /\ sched \in Shutdowns
        BY <1>0, <2>0, <2>3 DEF MenuOK, Unnoted
      <3>2. tray_ours' = sched.at /\ tray_pending' = [at |-> sched.at, wake |-> TRUE]
        BY <1>3, <2>3, <3>1 DEF NotePowerOff, Pending
      <3>3. sched.at \in Int /\ sched # None
        BY <1>0, <3>1 DEF Shutdowns
      <3>4. tray_pending' \in Pendings
        BY <3>2, <3>3 DEF Pendings
      <3>5. tray_pending'.at = sched.at /\ Shows(tray_pending', sched)
        BY <3>2, <3>3, <3>4, TrayAssumption DEF Shows
      <3>6. MenuOK'
        BY <1>1, <2>0, <2>1, <3>2, <3>5 DEF MenuOK, Shows
      <3>7. RoundOK'
        BY <1>1, <2>0, <3>2 DEF RoundOK, Shows, SaidOurs
      <3>8. PushedOK'
        BY <2>0, <3>2, <3>5 DEF PushedOK, Shows, SaidOurs
      <3> QED BY <1>1, <3>6, <3>7, <3>8
    <2> QED BY <2>2, <2>3
  <1>4. CASE AskCancel
    <2>0. /\ menu = "closed" /\ UNCHANGED <<menu, answered, tray_ours>>
          /\ ~blind' => ~blind /\ sched' = sched
          /\ \/ sched' = None /\ tray_pending' = None
             \/ UNCHANGED <<sched, tray_pending>>
      BY <1>4 DEF AskCancel
    <2>1. ~Unnoted /\ ~Unnoted'
      BY <2>0 DEF Unnoted
    <2>2. MenuOK'
      BY <1>1, <2>0, <2>1 DEF MenuOK, Shows
    <2>3. RoundOK'
      BY <1>1, <2>0 DEF RoundOK, Shows, SaidOurs
    <2>4. PushedOK'
      BY <1>1, <2>0, <2>1 DEF PushedOK, Shows, SaidOurs
    <2> QED BY <1>1, <2>2, <2>3, <2>4
  <1>5. CASE AskCancelBattery
    <2>0. /\ menu = "closed" /\ UNCHANGED <<menu, answered, tray_ours, tray_pending>>
          /\ ~blind' => ~blind /\ sched' = sched
          /\ sched' # sched => tray_pending = shown_pending
      BY <1>5 DEF AskCancelBattery
    <2>1. ~Unnoted /\ ~Unnoted'
      BY <2>0 DEF Unnoted
    <2>2. MenuOK'
      BY <1>1, <2>0, <2>1 DEF MenuOK, Shows
    <2>3. RoundOK'
      BY <1>1, <2>0 DEF RoundOK, Shows, SaidOurs
    <2>4. PushedOK'
      BY <1>1, <2>0, <2>1 DEF PushedOK, Shows, SaidOurs
    <2> QED BY <1>1, <2>2, <2>3, <2>4
  <1> QED BY <1>2, <1>3, <1>4, <1>5 DEF Menu

LEMMA TrayInductive ==
    ASSUME ~Hasty PROVE DeskTyped /\ TrayInv /\ [Next]_vars => TrayInv'
  <1> SUFFICES ASSUME DeskTyped, TrayInv, [Next]_vars, "tray" \in session
               PROVE  TrayInv'
    BY SameSession DEF TrayInv
  <1>0. session' = session
    BY SameSession
  <1>1. CASE TrayStep
    BY <1>0, <1>1, LoopKeeps, MenuKeeps DEF TrayStep, TrayInv
  <1>2. CASE ButtonStep \/ AgentStep \/ OtherStep
    <2>1. TrayBystander
      BY <1>2 DEF ButtonStep, AgentStep, OtherStep, BesideTray
    <2> QED BY <1>0, <2>1, BehindTheTray
  <1>3. CASE UNCHANGED vars
    <2>1. UNCHANGED trayVars /\ sched' = sched
      BY <1>3 DEF vars, deskVars
    <2> QED BY <1>0, <2>1 DEF trayVars, TrayInv, TrayTyped, MenuOK, RoundOK, PushedOK, Unnoted, Shows, SaidOurs
  <1> QED BY <1>1, <1>2, <1>3 DEF Next

-----------------------------------------------------------------------------
(* Theorems. *)

\* What the desk, the press, the agent and a person's knowledge have in common
\* at every moment.
DesktopInv ==
    /\ DeskTyped /\ NoticesTyped /\ ButtonInv /\ StandingOK /\ SeenOK /\ PublishedOK /\ HeardInv

LEMMA DesktopInductive == Spec => []DesktopInv
  <1>1. Init => DesktopInv
    BY DeskInitial, NoticesInitial, ButtonInitial, StandingInitial, SeenInitial, PublishedInitial,
       HeardInitial DEF DesktopInv, HeardInv
  <1>2. DesktopInv /\ [Next]_vars => DesktopInv'
    BY DeskStep, NoticesStep, ButtonInductive, StandingStep, SeenStep, PublishedStep, HeardStep
       DEF DesktopInv
  <1> QED
    BY <1>1, <1>2, PTL DEF Spec

\* A press never cancels a shutdown that is not the button's and never replaces
\* one that was pending when it was made, however often the daemon restarts
\* between its questions (button.rs of the daemon, Button::press).
THEOREM PressSparesOthersAlways == Spec => PressSparesOthers
  <1>1. DesktopInv /\ [Next]_vars =>
          [ButtonStep /\ sched # None /\ sched' # sched /\ ~disturbed /\ ~mistaken => sched.by = "button"
             /\ sched' = None]_vars
    BY PressSpares DEF DesktopInv, ButtonInv
  <1> QED
    BY <1>1, DesktopInductive, PTL DEF Spec, PressSparesOthers

\* No notice says that a poweroff is cancelled while it stands, unless the
\* daemon stopped or lost the UPS over it (Watcher::observe, notice).
THEOREM NoFalseReliefAlways == Spec => []NoFalseRelief
  <1>1. Init => NoFalseRelief
    BY DEF Init, NoticesInit, NoFalseRelief
  <1>2. DesktopInv /\ NoFalseRelief /\ [Next]_vars => NoFalseRelief'
    BY ReliefStep DEF DesktopInv
  <1> QED
    BY <1>1, <1>2, DesktopInductive, PTL DEF Spec

\* After a look at logind a person has been told of the poweroff that is
\* pending, by one of the two watchers that each leave it to the other
\* (notify.rs, ShutdownWatcher::observe).
THEOREM NothingUnsaidAlways == Spec => NothingUnsaid
  <1>1. DesktopInv /\ DesktopInv' /\ [Next]_vars =>
          [ReadLogind /\ ~excused /\ sched # None =>
             \E at \in heard' \cup unheard' : NearTwice(at, sched.at)]_vars
    <2>1. DesktopInv' => Sent' \subseteq Int
      BY DEF DesktopInv, NoticesTyped
    <2> QED
      BY <2>1, LookTells DEF DesktopInv, Sent
  <1> QED
    BY <1>1, DesktopInductive, PTL DEF Spec, NothingUnsaid

\* Where the tray has pushed a round and logind has not changed since it was
\* read, the panel shows what logind holds, and promises a wake only of the
\* poweroff that was this tray's.
TrayIsTrue ==
    "tray" \in session /\ ~blind /\ menu = "closed" /\ poll \in {"view", "refresh", "logind"} =>
        /\ Shows(tray_pending, sched)
        /\ SaidOurs(tray_pending) => tray_ours = sched.at

\* main.rs of the tray, wake::pending: if nobody else uses logind between a click
\* in the menu and the next round.
THEOREM TrayIsTrueAlways ==
    ASSUME ~Hasty PROVE Spec => []TrayIsTrue
  <1>1. TrayInv => TrayIsTrue
    BY DEF TrayInv, PushedOK, Unnoted, TrayIsTrue
  <1>2. DeskTyped /\ TrayInv /\ [Next]_vars => TrayInv'
    BY TrayInductive
  <1>3. Spec => []DeskTyped
    BY DeskInitial, DeskStep, PTL DEF Spec
  <1> QED BY <1>1, <1>2, <1>3, TrayInitial, PTL DEF Spec

=============================================================================
