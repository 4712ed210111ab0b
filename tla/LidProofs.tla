------------------------------ MODULE LidProofs ------------------------------
(***************************************************************************)
(* What closing the lid turned down is known until it is turned up again,  *)
(* and the machine powers off only on a lid that is still shut: for any    *)
(* radios, policies and countdown, and however often the lid moves, the    *)
(* agent or argond stops and a write fails.                                *)
(***************************************************************************)
EXTENDS LidAgent, SequenceTheorems, TLAPS

-----------------------------------------------------------------------------
(* The CPU cap. *)

CapTypes ==
    /\ limit \in [Policies -> {"own", "min"}]
    /\ saved = NoneSaved \/ saved \in [Policies -> {"own", "min"}]

\* Also, what is on record is the machine's own limit.
CapKept ==
    ~slipped => \A p \in Policies : (limit[p] = "own" \/ p \in Capped)
                                    /\ (p \in Capped => saved[p] = "own")

CapInv == CapTypes /\ CapKept

LEMMA NoneIsSaved == DOMAIN NoneSaved = {}
  BY DEF NoneSaved

LEMMA LiftKeeps == ASSUME CapInv, NEW failed, LiftAll(failed) PROVE CapInv'
<1>1. CapTypes'
  <2>1. \A p \in Policies : (IF p \in Capped \ failed THEN saved[p] ELSE limit[p]) \in {"own", "min"}
    BY NoneIsSaved DEF CapInv, CapTypes, Capped
  <2> QED BY <2>1 DEF LiftAll, CapTypes
<1>2. CASE slipped'
  BY <1>1, <1>2, Zenon DEF CapInv, CapKept
<1>3. CASE ~slipped'
  <2>1. ~slipped /\ failed = {}
    BY <1>3, Zenon DEF LiftAll
  <2>2. \A p \in Policies : limit'[p] = "own"
    BY <2>1 DEF LiftAll, CapInv, CapKept, Capped
  <2>3. saved' = NoneSaved
    BY DEF LiftAll
  <2> QED BY <1>1, <2>2, <2>3, NoneIsSaved DEF CapInv, CapKept, Capped
<1> QED BY <1>2, <1>3

LEMMA CapKeeps == ASSUME CapInv, Cap PROVE CapInv'
<1>1. CASE saved # NoneSaved
  <2>1. UNCHANGED <<limit, saved, slipped>>
    BY <1>1 DEF Cap
  <2> QED BY <2>1, Zenon DEF CapInv, CapTypes, CapKept, Capped
<1>2. CASE saved = NoneSaved /\ saved' = [p \in Policies |-> limit[p]]
           /\ limit' = [p \in Policies |-> "min"] /\ UNCHANGED slipped
  <2>1. CapTypes'
    BY <1>2 DEF CapInv, CapTypes
  <2>2. CASE slipped
    BY <1>2, <2>1, <2>2, Zenon DEF CapInv, CapKept
  <2>3. CASE ~slipped
    <3>1. \A p \in Policies : p \in DOMAIN saved' /\ saved'[p] = "own"
      BY <1>2, <2>3, NoneIsSaved DEF CapInv, CapKept, Capped
    <3> QED BY <2>1, <3>1 DEF CapInv, CapKept, Capped
  <2> QED BY <2>2, <2>3
<1>3. ASSUME saved = NoneSaved, NEW stuck,
             limit' = [p \in Policies |-> IF p \in stuck THEN "min" ELSE limit[p]],
             saved' = NoneSaved, slipped' = (slipped \/ stuck # {})
      PROVE  CapInv'
  <2>1. CapTypes'
    BY <1>3 DEF CapInv, CapTypes
  <2>2. CASE slipped'
    BY <2>1, <2>2, Zenon DEF CapInv, CapKept
  <2>3. CASE ~slipped'
    <3>1. ~slipped /\ stuck = {}
      BY <1>3, <2>3, Zenon
    <3>2. \A p \in Policies : limit'[p] = "own"
      BY <1>3, <3>1, NoneIsSaved DEF CapInv, CapKept, Capped
    <3> QED BY <1>3, <2>1, <3>2, NoneIsSaved DEF CapInv, CapKept, Capped
  <2> QED BY <2>2, <2>3
<1> QED BY <1>1, <1>2, <1>3 DEF Cap

LEMMA CapFrame == ASSUME CapInv, UNCHANGED <<limit, saved, slipped>> PROVE CapInv'
  BY Zenon DEF CapInv, CapTypes, CapKept, Capped

LEMMA SetCapKeeps == ASSUME CapInv, NEW capped \in BOOLEAN, SetCpuCap(capped) PROVE CapInv'
<1>1. Cap \/ (\E failed : LiftAll(failed)) \/ UNCHANGED <<limit, saved, slipped>>
  BY DEF SetCpuCap, Lift, daemonVars
<1> QED BY <1>1, CapKeeps, LiftKeeps, CapFrame

LEMMA InitCap == Init => CapInv
<1> SUFFICES ASSUME Init PROVE CapInv
  OBVIOUS
<1> QED BY NoneIsSaved DEF Init, DaemonInit, CapInv, CapTypes, CapKept, Capped

LEMMA StepCap == CapInv /\ [Next]_vars => CapInv'
<1> SUFFICES ASSUME CapInv, [Next]_vars PROVE CapInv'
  OBVIOUS
<1>1. CASE CarryOut
  <2>1. SetCpuCap(TRUE) \/ SetCpuCap(FALSE) \/ UNCHANGED daemonVars
    BY <1>1 DEF CarryOut
  <2>2. UNCHANGED daemonVars => UNCHANGED <<limit, saved, slipped>>
    BY DEF daemonVars
  <2> QED BY <2>1, <2>2, SetCapKeeps, CapFrame
<1>2. CASE DaemonMoves
  <2>1. (\E failed : LiftAll(failed)) \/ DaemonDies \/ UNCHANGED <<limit, saved, slipped>>
    BY <1>2 DEF DaemonMoves, Daemon, SetOled, DaemonExits, DaemonServes, Lift
  <2>2. CASE DaemonDies
    <3>1. CapTypes'
      BY <2>2 DEF DaemonDies, CapInv, CapTypes
    <3>2. CASE slipped'
      BY <3>1, <3>2, Zenon DEF CapInv, CapKept
    <3>3. CASE ~slipped'
      <4>1. ~slipped /\ saved = NoneSaved /\ UNCHANGED limit
        BY <2>2, <3>3, Zenon DEF DaemonDies
      <4>2. \A p \in Policies : limit'[p] = "own"
        BY <4>1, NoneIsSaved DEF CapInv, CapKept, Capped
      <4>3. saved' = NoneSaved
        BY <2>2 DEF DaemonDies
      <4> QED BY <3>1, <4>2, <4>3, NoneIsSaved DEF CapInv, CapKept, Capped
    <3> QED BY <3>2, <3>3
  <2> QED BY <2>1, <2>2, LiftKeeps, CapFrame
<1>3. CASE Boot
  <2>1. limit' = [p \in Policies |-> "own"] /\ saved' = NoneSaved
    BY <1>3 DEF Boot
  <2> QED BY <2>1, NoneIsSaved DEF CapInv, CapTypes, CapKept, Capped
<1>4. CASE StartAgent \/ FirstReport \/ TakeSignal \/ TimeOut \/ Deadline \/ Exit \/ Leave \/ MoveLid
           \/ Killed \/ Tick \/ UNCHANGED vars
  <2>1. UNCHANGED <<limit, saved, slipped>>
    BY <1>4 DEF StartAgent, FirstReport, TakeSignal, TimeOut, Deadline, Exit, Leave, MoveLid, Killed, Tick,
                vars, daemonVars
  <2> QED BY <2>1, CapFrame
<1> QED BY <1>1, <1>2, <1>3, <1>4 DEF Next, Agent

\* For any policies and any failing writes: a cap is undone, on record, or past
\* undoing.
THEOREM CapIsUndoneAlways == Spec => []CapIsUndone
<1>1. CapInv => CapIsUndone
  BY DEF CapInv, CapKept, CapIsUndone
<1> QED BY <1>1, InitCap, StepCap, PTL DEF Spec

-----------------------------------------------------------------------------
(* The effects still to be carried out. *)

\* Those that will switch the radios off, and those that will restore them.
Closing == {<<"ScreenOff", "RadiosOff", "CpuCap">>, <<"RadiosOff", "CpuCap">>}
Cancelled == <<"ShutdownCancelled">>
Restoring ==
    {<<"ScreenOn", "RadiosRestore", "CpuLift">>, <<"RadiosRestore", "CpuLift">>,
     <<"ScreenOn", "RadiosRestore", "CpuLift", "ShutdownCancelled">>,
     <<"RadiosRestore", "CpuLift", "ShutdownCancelled">>}
Others ==
    {<<>>, <<"CpuCap">>, <<"ShutdownAlert">>, <<"PowerOff">>, <<"CpuLift">>,
     <<"CpuLift", "ShutdownCancelled">>, <<"ShutdownCancelled">>, <<"ScreenOn">>,
     <<"ScreenOn", "ShutdownCancelled">>}
Todos == Closing \cup Restoring \cup Others

Following(t) ==
    /\ Tail(t) \in Todos
    /\ Tail(t) # <<"ShutdownAlert">> /\ (t = <<"ShutdownAlert">> => Tail(t) = <<>>)
    /\ Tail(t) \in Closing => t \in Closing
    /\ Tail(t) \in Restoring => t \in Restoring
    /\ Head(t) = "RadiosOff" => t \in Closing /\ Tail(t) = <<"CpuCap">>
    /\ t \in Restoring /\ Head(t) # "RadiosRestore" => Tail(t) \in Restoring
    /\ Head(t) = "RadiosRestore" => t \in Restoring

LEMMA OneStep ==
    ASSUME NEW t \in Todos, t # <<>> PROVE Following(t)
<1> USE DEF Todos, Closing, Restoring, Others, Following
<1>1. CASE t = <<"ScreenOff", "RadiosOff", "CpuCap">>
  <2>1. Head(t) = "ScreenOff" /\ Tail(t) = <<"RadiosOff", "CpuCap">>
    BY <1>1
  <2> QED BY <1>1, <2>1
<1>2. CASE t = <<"RadiosOff", "CpuCap">>
  <2>1. Head(t) = "RadiosOff" /\ Tail(t) = <<"CpuCap">>
    BY <1>2
  <2> QED BY <1>2, <2>1
<1>3. CASE t = <<"ScreenOn", "RadiosRestore", "CpuLift">>
  <2>1. Head(t) = "ScreenOn" /\ Tail(t) = <<"RadiosRestore", "CpuLift">>
    BY <1>3
  <2> QED BY <1>3, <2>1
<1>4. CASE t = <<"RadiosRestore", "CpuLift">>
  <2>1. Head(t) = "RadiosRestore" /\ Tail(t) = <<"CpuLift">>
    BY <1>4
  <2> QED BY <1>4, <2>1
<1>5. CASE t = <<"ScreenOn", "RadiosRestore", "CpuLift", "ShutdownCancelled">>
  <2>1. Head(t) = "ScreenOn" /\ Tail(t) = <<"RadiosRestore", "CpuLift", "ShutdownCancelled">>
    BY <1>5
  <2> QED BY <1>5, <2>1
<1>6. CASE t = <<"RadiosRestore", "CpuLift", "ShutdownCancelled">>
  <2>1. Head(t) = "RadiosRestore" /\ Tail(t) = <<"CpuLift", "ShutdownCancelled">>
    BY <1>6
  <2> QED BY <1>6, <2>1
<1>7. ASSUME NEW e \in {"CpuLift", "ScreenOn"}, t = <<e, "ShutdownCancelled">> PROVE Following(t)
  <2>1. Head(t) = e /\ Tail(t) = <<"ShutdownCancelled">>
    BY <1>7
  <2> QED BY <1>7, <2>1
<1>8. ASSUME NEW e \in {"CpuCap", "ShutdownAlert", "PowerOff", "CpuLift", "ShutdownCancelled", "ScreenOn"},
             t = <<e>>
      PROVE  Following(t)
  <2>1. Head(t) = e /\ Tail(t) = <<>>
    BY <1>8
  <2> QED BY <1>8, <2>1
<1> QED BY <1>1, <1>2, <1>3, <1>4, <1>5, <1>6, <1>7, <1>8

LEMMA OneAndOne == ASSUME NEW a, NEW b PROVE <<a>> \o <<b>> = <<a, b>>
<1> DEFINE S == {a, b}
<1>1. <<a>> \in Seq(S) /\ <<b>> \in Seq(S) /\ <<a, b>> \in Seq(S)
  OBVIOUS
<1>2. <<a>> \o <<b>> \in Seq(S) /\ Len(<<a>> \o <<b>>) = 2
  BY <1>1, ConcatProperties
<1>3. (<<a>> \o <<b>>)[1] = a /\ (<<a>> \o <<b>>)[2] = b
  OBVIOUS
<1>4. \A i \in 1..2 : (<<a>> \o <<b>>)[i] = <<a, b>>[i]
  BY <1>3
<1> HIDE DEF S
<1> QED BY <1>1, <1>2, <1>4, SeqEqual

LEMMA ThreeAndOne == ASSUME NEW a, NEW b, NEW c, NEW d PROVE <<a, b, c>> \o <<d>> = <<a, b, c, d>>
<1> DEFINE S == {a, b, c, d}
<1>1. <<a, b, c>> \in Seq(S) /\ <<d>> \in Seq(S) /\ <<a, b, c, d>> \in Seq(S)
  OBVIOUS
<1>2. <<a, b, c>> \o <<d>> \in Seq(S) /\ Len(<<a, b, c>> \o <<d>>) = 4
  BY <1>1, ConcatProperties
<1>3. LET t == <<a, b, c>> \o <<d>> IN t[1] = a /\ t[2] = b /\ t[3] = c /\ t[4] = d
  OBVIOUS
<1>4. \A i \in 1..4 : (<<a, b, c>> \o <<d>>)[i] = <<a, b, c, d>>[i]
  BY <1>3
<1> HIDE DEF S
<1> QED BY <1>1, <1>2, <1>4, SeqEqual

LEMMA UndoTodos ==
    /\ Undo \in Restoring /\ Undo \o <<>> = Undo /\ Undo \o <<"ShutdownCancelled">> \in Restoring
    /\ <<"ScreenOn">> \o <<>> = <<"ScreenOn">>
    /\ <<"ScreenOn">> \o <<"ShutdownCancelled">> = <<"ScreenOn", "ShutdownCancelled">>
<1>1. Undo \o <<>> = Undo /\ <<"ScreenOn">> \o <<>> = <<"ScreenOn">>
  BY DEF Undo
<1> QED BY <1>1, OneAndOne, ThreeAndOne DEF Undo, Restoring

\* What a report comes to.
LEMMA OpenTodos ==
    ASSUME OnOpen
    PROVE  /\ todo' \in IF saving THEN Restoring ELSE Others
           /\ todo' # <<"ShutdownAlert">> /\ todo' # <<>>
           /\ ~saving' /\ shutdown_at' = None /\ powering_off' = powering_off
<1>1. todo' = (IF saving THEN Undo ELSE <<"ScreenOn">>)
              \o (IF shutdown_at # None THEN <<"ShutdownCancelled">> ELSE <<>>)
  BY DEF OnOpen
<1>2. todo' \in IF saving THEN Restoring ELSE {<<"ScreenOn">>, <<"ScreenOn", "ShutdownCancelled">>}
  BY <1>1, UndoTodos
<1>3. ~saving' /\ shutdown_at' = None /\ powering_off' = powering_off
  BY Zenon DEF OnOpen
<1>4. todo' # <<"ShutdownAlert">> /\ todo' # <<>>
  BY <1>2 DEF Restoring
<1> QED BY <1>2, <1>3, <1>4 DEF Others

LEMMA CloseTodos ==
    ASSUME OnClose
    PROVE  \/ todo' = <<"ScreenOff", "RadiosOff", "CpuCap">> /\ saving'
              /\ UNCHANGED <<shutdown_at, powering_off>>
           \/ todo' = <<>> /\ UNCHANGED <<saving, shutdown_at, powering_off>>
           \/ todo' = <<"ShutdownAlert">> /\ shutdown_at' = Delay /\ UNCHANGED <<saving, powering_off>>
<1>1. CASE action = "power-save"
  BY <1>1, Zenon DEF OnClose
<1>2. CASE action # "power-save" /\ powering_off
  BY <1>2, Zenon DEF OnClose
<1>3. CASE action # "power-save" /\ ~powering_off
  BY <1>3, Zenon DEF OnClose
<1> QED BY <1>1, <1>2, <1>3

LEMMA ReportCases ==
    ASSUME NEW shut, Report(shut)
    PROVE  /\ closed' = shut
           /\ \/ closed = FALSE /\ shut /\ OnClose
              \/ closed = TRUE /\ ~shut /\ OnOpen
              \/ ~(closed = FALSE /\ shut) /\ ~(closed = TRUE /\ ~shut)
                 /\ todo' = <<>> /\ UNCHANGED <<saving, shutdown_at, powering_off>>
<1>1. CASE closed = FALSE /\ shut
  BY <1>1, Zenon DEF Report
<1>2. CASE ~(closed = FALSE /\ shut) /\ closed = TRUE /\ ~shut
  BY <1>2, Zenon DEF Report
<1>3. CASE ~(closed = FALSE /\ shut) /\ ~(closed = TRUE /\ ~shut)
  BY <1>3, Zenon DEF Report
<1> QED BY <1>1, <1>2, <1>3

-----------------------------------------------------------------------------
(* The radios. *)

\* What is off and was not before is on record, or passed over; and where the
\* radios are about to be switched off, what is off is past restoring.
RadioTypes ==
    /\ todo \in Todos /\ blocked \subseteq Radios
    /\ record = None \/ record \subseteq Radios
    /\ phase \in {"off", "start", "loop", "tick", "leave"}

RestoredFirst ==
    /\ todo \in Closing => saving /\ taken \subseteq lost
    /\ phase \in {"start", "loop", "tick"} /\ ~saving /\ todo \notin Restoring => taken \subseteq lost

RadioInv ==
    /\ RadioTypes
    /\ taken \subseteq blocked /\ taken \subseteq Recorded \cup passed
    /\ passed \subseteq lost
    /\ RestoredFirst
    /\ saving => closed = TRUE
    /\ phase \in {"off", "start"} => todo = <<>>
    /\ phase = "start" => ~saving

LEMMA InitRadios == Init => RadioInv
<1> SUFFICES ASSUME Init PROVE RadioInv
  OBVIOUS
<1>1. RadioTypes
  BY DEF Init, RadioTypes, Todos, Others
<1>2. ~saving
  BY Zenon DEF Init, NewLid
<1>3. taken = {} /\ passed = {} /\ phase = "off" /\ todo = <<>>
  BY DEF Init
<1>4. todo \notin Closing
  BY <1>3 DEF Closing
<1> QED BY <1>1, <1>2, <1>3, <1>4 DEF RadioInv, RestoredFirst

LEMMA RestoreKeeps ==
    ASSUME RadioInv, RestoreRadios
    PROVE  /\ blocked' \subseteq Radios /\ (record' = None \/ record' \subseteq Radios)
           /\ taken' \subseteq blocked' /\ taken' \subseteq Recorded' \cup passed'
           /\ taken' \subseteq lost' /\ passed' \subseteq lost'
<1>1. PICK back : (record' = None \/ record' = record) /\ Restored(back)
  BY DEF RestoreRadios
<1>2. taken' \subseteq blocked' /\ taken' \subseteq lost' /\ passed' \subseteq lost'
  BY <1>1 DEF Restored, RadioInv
<1>3. taken' \subseteq Recorded' \cup passed'
  <2>1. CASE record' = None
    BY <1>1, <2>1 DEF Restored, RadioInv
  <2>2. CASE record' # None
    BY <1>1, <2>2 DEF Restored, RadioInv, Recorded
  <2> QED BY <2>1, <2>2
<1> QED BY <1>1, <1>2, <1>3 DEF Restored, RadioInv, RadioTypes

LEMMA RadiosOffKeeps ==
    ASSUME RadioInv, taken \subseteq lost, RadiosOff
    PROVE  /\ blocked' \subseteq Radios /\ (record' = None \/ record' \subseteq Radios)
           /\ taken' \subseteq blocked' /\ taken' \subseteq Recorded' \cup passed'
           /\ passed' \subseteq lost'
<1>1. PICK seen \in Listings :
        \/ record' \in {record, {}} /\ UNCHANGED <<blocked, taken>>
        \/ \E done \in SUBSET ToBlock(seen) :
             /\ record' = ToBlock(seen)
             /\ blocked' = blocked \cup done
             /\ taken' = taken \cup (done \ blocked)
  BY DEF RadiosOff
<1>2. passed' = passed \cup (lost \cap (Recorded \ Recorded')) /\ lost' = lost
  BY DEF RadiosOff
<1>3. ToBlock(seen) \subseteq Radios /\ ToBlock(seen) # None
  BY LidAssumption DEF ToBlock
<1>4. \A r \in taken' : r \in taken \/ r \in Recorded'
  BY <1>1, <1>3 DEF Recorded
<1>5. taken' \subseteq Recorded' \cup passed'
  BY <1>2, <1>4 DEF RadioInv
<1>6. blocked' \subseteq Radios /\ (record' = None \/ record' \subseteq Radios) /\ taken' \subseteq blocked'
  BY <1>1, <1>3 DEF RadioInv, RadioTypes
<1> QED BY <1>2, <1>5, <1>6 DEF RadioInv

\* What touches neither the radios nor what is to be done.
LEMMA RadioFrame ==
    ASSUME RadioInv, UNCHANGED <<blocked, record, taken, lost, passed, todo>>,
           phase' \in {"off", "start", "loop", "tick", "leave"},
           todo = <<>>,
           phase' = "start" => ~saving', saving' => closed' = TRUE,
           phase' \in {"start", "loop", "tick"} /\ ~saving' =>
             ~saving /\ phase \in {"start", "loop", "tick"}
    PROVE  RadioInv'
<1>1. todo' \notin Closing /\ todo \notin Restoring
  BY DEF Closing, Restoring
<1> QED BY <1>1 DEF RadioInv, RadioTypes, RestoredFirst, Recorded

\* A report.
LEMMA ReportKeepsRadios ==
    ASSUME RadioInv, NEW shut \in BOOLEAN, Report(shut), todo = <<>>,
           phase \in {"start", "loop"}, phase' \in {"loop", "tick"},
           UNCHANGED <<blocked, record, taken, lost, passed>>
    PROVE  RadioInv'
<1>0. closed' = shut /\ (~saving => taken \subseteq lost)
  BY ReportCases DEF RadioInv, RestoredFirst, Restoring
<1>1. CASE closed = FALSE /\ shut /\ OnClose
  <2>1. ~saving
    BY <1>1, Zenon DEF RadioInv
  <2>2. closed' = TRUE
    BY <1>0, <1>1
  <2>3. todo' \in Todos /\ todo' \notin Restoring /\ (todo' \in Closing => saving')
    BY CloseTodos, <1>1 DEF Todos, Closing, Others, Restoring
  <2> QED BY <1>0, <2>1, <2>2, <2>3 DEF RadioInv, RadioTypes, RestoredFirst, Recorded
<1>2. CASE closed = TRUE /\ ~shut /\ OnOpen
  <2>1. ~saving'
    BY <1>2, OpenTodos
  <2>2. todo' \in Todos /\ todo' \notin Closing /\ (saving => todo' \in Restoring)
    BY <1>2, OpenTodos DEF Todos, Closing, Others, Restoring
  <2> QED BY <1>0, <2>1, <2>2 DEF RadioInv, RadioTypes, RestoredFirst, Recorded
<1>3. CASE /\ ~(closed = FALSE /\ shut) /\ ~(closed = TRUE /\ ~shut)
           /\ todo' = <<>> /\ UNCHANGED <<saving, shutdown_at, powering_off>>
  <2>1. saving' = saving /\ UNCHANGED <<blocked, record, taken, lost, passed, todo>>
    BY <1>3
  <2>2. saving' => closed' = TRUE
    BY <1>0, <1>3 DEF RadioInv
  <2>3. phase' # "start" /\ phase' # "off" /\ phase' \in {"off", "start", "loop", "tick", "leave"}
    OBVIOUS
  <2>4. ~saving' => ~saving
    BY <2>1
  <2>5. phase \in {"start", "loop", "tick"}
    OBVIOUS
  <2> QED BY <2>1, <2>2, <2>3, <2>4, <2>5, RadioFrame, Zenon
<1> QED BY <1>1, <1>2, <1>3, ReportCases

\* What the watching thread sends.
SignalTypes == lid \in BOOLEAN /\ queue \in Seq(BOOLEAN)

LEMMA InitSignals == Init => SignalTypes
  BY DEF Init, SignalTypes

LEMMA StepSignals == SignalTypes /\ [Next]_vars => SignalTypes'
<1> SUFFICES ASSUME SignalTypes, [Next]_vars PROVE SignalTypes'
  OBVIOUS
<1>1. CASE TakeSignal
  BY <1>1, HeadTailProperties DEF TakeSignal, SignalTypes, worldVars
<1>2. CASE MoveLid
  <2>1. lid' \in BOOLEAN /\ (queue' = queue \/ queue' = Append(queue, lid'))
    BY <1>2 DEF MoveLid
  <2> QED BY <2>1, AppendProperties DEF SignalTypes
<1>3. CASE Boot
  BY <1>3 DEF Boot, SignalTypes
<1>4. CASE StartAgent \/ Exit \/ Killed
  <2>1. queue' = <<>> /\ lid' = lid
    BY <1>4, Zenon DEF StartAgent, Exit, Killed, worldVars
  <2> QED BY <2>1 DEF SignalTypes
<1>5. CASE CarryOut \/ FirstReport \/ TimeOut \/ Deadline \/ Leave \/ Tick \/ DaemonMoves \/ UNCHANGED vars
  BY <1>5 DEF CarryOut, FirstReport, TimeOut, Deadline, Leave, Tick, DaemonMoves, SignalTypes, worldVars,
              agentVars, vars
<1> QED BY <1>1, <1>2, <1>3, <1>4, <1>5 DEF Next, Agent

LEMMA CarryOutKeepsRadios == ASSUME RadioInv, CarryOut PROVE RadioInv'
<1> DEFINE e == Head(todo)
<1>1. todo \in Todos /\ todo # <<>> /\ todo' = Tail(todo) /\ UNCHANGED <<phase, saving, closed>>
  BY DEF CarryOut, RadioInv, RadioTypes, policyVars
<1>2. Following(todo)
  BY <1>1, OneStep
<1>3. phase \notin {"off", "start"}
  BY <1>1 DEF RadioInv
<1>4. todo' \in Todos /\ (todo' \in Closing => todo \in Closing)
  BY <1>1, <1>2 DEF Following
<1>5. CASE e = "RadiosOff"
  <2>1. RadiosOff
    BY <1>5, Zenon DEF CarryOut
  <2>2. todo \in Closing /\ todo' = <<"CpuCap">>
    BY <1>1, <1>2, <1>5 DEF Following
  <2>3. saving /\ taken \subseteq lost
    BY <2>2 DEF RadioInv, RestoredFirst
  <2>4. todo' \notin Closing
    BY <2>2 DEF Closing
  <2> QED BY <1>1, <1>3, <1>4, <2>1, <2>3, <2>4, RadiosOffKeeps DEF RadioInv, RadioTypes, RestoredFirst
<1>6. CASE e = "RadiosRestore"
  <2>1. RestoreRadios
    BY <1>6, Zenon DEF CarryOut
  <2>2. todo \in Restoring
    BY <1>2, <1>6 DEF Following
  <2>3. todo' \notin Closing
    BY <1>4, <2>2 DEF Closing, Restoring
  <2> QED BY <1>1, <1>3, <1>4, <2>1, <2>3, RestoreKeeps DEF RadioInv, RadioTypes, RestoredFirst
<1>7. CASE e # "RadiosOff" /\ e # "RadiosRestore"
  <2>1. UNCHANGED <<blocked, record, taken, lost, passed>>
    BY <1>7, Zenon DEF CarryOut
  <2>2. todo \in Restoring => todo' \in Restoring
    BY <1>1, <1>2, <1>7 DEF Following
  <2> QED BY <1>1, <1>3, <1>4, <2>1, <2>2 DEF RadioInv, RadioTypes, RestoredFirst, Recorded
<1> QED BY <1>5, <1>6, <1>7

LEMMA StepRadios == SignalTypes /\ RadioInv /\ [Next]_vars => RadioInv'
<1> SUFFICES ASSUME SignalTypes, RadioInv, [Next]_vars PROVE RadioInv'
  OBVIOUS
<1>1. CASE CarryOut
  BY <1>1, CarryOutKeepsRadios
<1>2. CASE StartAgent
  <2>1. RestoreRadios /\ phase' = "start"
    BY <1>2, Zenon DEF StartAgent
  <2>2. ~saving'
    BY <1>2, Zenon DEF StartAgent
  <2>3. todo' = <<>>
    BY <1>2 DEF StartAgent, RadioInv
  <2>4. todo' \in Todos /\ todo' \notin Closing
    BY <2>3 DEF Todos, Others, Closing
  <2> QED BY <2>1, <2>2, <2>3, <2>4, RestoreKeeps DEF RadioInv, RadioTypes, RestoredFirst
<1>3. CASE FirstReport
  <2>1. todo = <<>> /\ ~saving /\ phase = "start" /\ phase' = "loop"
    BY <1>3 DEF FirstReport, RadioInv
  <2>2. UNCHANGED <<blocked, record, taken, lost, passed>>
    BY <1>3, Zenon DEF FirstReport, worldVars, historyVars
  <2>3. CASE Report(lid)
    BY <2>1, <2>2, <2>3, ReportKeepsRadios DEF SignalTypes
  <2>4. CASE UNCHANGED <<policyVars, todo>>
    <3>1. UNCHANGED <<saving, closed, todo>>
      BY <2>4, Zenon DEF policyVars
    <3>2. saving' => closed' = TRUE
      BY <2>1, <3>1
    <3> QED BY <2>1, <2>2, <3>1, <3>2, RadioFrame
  <2> QED BY <1>3, <2>3, <2>4, Zenon DEF FirstReport
<1>4. CASE TakeSignal
  <2>1. Head(queue) \in BOOLEAN
    BY <1>4, HeadTailProperties DEF TakeSignal, SignalTypes
  <2>2. Report(Head(queue)) /\ todo = <<>> /\ phase = "loop" /\ phase' = "tick"
    BY <1>4, Zenon DEF TakeSignal
  <2>3. UNCHANGED <<blocked, record, taken, lost, passed>>
    BY <1>4, Zenon DEF TakeSignal, worldVars
  <2> QED BY <2>1, <2>2, <2>3, ReportKeepsRadios
<1>5. CASE Deadline
  <2>1. todo = <<>> /\ (todo' = <<>> \/ todo' = <<"PowerOff">>) /\ phase = "tick" /\ phase' = "loop"
    BY <1>5 DEF Deadline
  <2>2. UNCHANGED <<blocked, record, taken, lost, passed, saving, closed>>
    BY <1>5, Zenon DEF Deadline, worldVars, historyVars
  <2>3. todo' \in Todos /\ todo' \notin Closing /\ todo \notin Restoring
    BY <2>1 DEF Todos, Others, Closing, Restoring
  <2> QED BY <2>1, <2>2, <2>3 DEF RadioInv, RadioTypes, RestoredFirst, Recorded
<1>6. CASE Leave
  <2>1. phase' = "leave" /\ (todo' = Undo \/ todo' = <<>>)
    BY <1>6 DEF Leave
  <2>2. ~saving'
    BY <1>6, Zenon DEF Leave
  <2>3. UNCHANGED <<blocked, record, taken, lost, passed>>
    BY <1>6, Zenon DEF Leave, worldVars, historyVars
  <2>4. todo' \in Todos /\ todo' \notin Closing
    BY <2>1 DEF Undo, Todos, Others, Closing, Restoring
  <2> QED BY <2>1, <2>2, <2>3, <2>4 DEF RadioInv, RadioTypes, RestoredFirst, Recorded
<1>7. CASE Exit
  <2>1. UNCHANGED <<blocked, record, taken, lost, passed, todo, saving, closed>>
    BY <1>7, Zenon DEF Exit, worldVars, historyVars, policyVars
  <2>2. todo = <<>> /\ phase' = "off"
    BY <1>7 DEF Exit
  <2>3. saving' => closed' = TRUE
    BY <2>1 DEF RadioInv
  <2> QED BY <2>1, <2>2, <2>3, RadioFrame
<1>8. CASE Killed
  <2>1. UNCHANGED <<blocked, record, taken, lost, passed, saving, closed>>
    BY <1>8, Zenon DEF Killed, worldVars, policyVars
  <2>2. todo' = <<>> /\ phase' = "off"
    BY <1>8 DEF Killed
  <2>3. todo' \in Todos /\ todo' \notin Closing
    BY <2>2 DEF Todos, Others, Closing
  <2> QED BY <2>1, <2>2, <2>3 DEF RadioInv, RadioTypes, RestoredFirst, Recorded
<1>9. CASE Boot
  <2>1. UNCHANGED <<blocked, record, taken, lost, passed>> /\ todo' = <<>> /\ phase' = "off"
    BY <1>9 DEF Boot
  <2>2. ~saving'
    BY <1>9, Zenon DEF Boot
  <2>3. todo' \in Todos /\ todo' \notin Closing
    BY <2>1 DEF Todos, Others, Closing
  <2> QED BY <2>1, <2>2, <2>3 DEF RadioInv, RadioTypes, RestoredFirst, Recorded
<1>10. CASE TimeOut
  <2>1. UNCHANGED <<blocked, record, taken, lost, passed, todo, saving, closed>>
    BY <1>10, Zenon DEF TimeOut, worldVars, historyVars, policyVars
  <2>2. todo = <<>> /\ phase = "loop" /\ phase' = "tick"
    BY <1>10, Zenon DEF TimeOut
  <2>3. saving' => closed' = TRUE
    BY <2>1 DEF RadioInv
  <2> QED BY <2>1, <2>2, <2>3, RadioFrame
<1>11. CASE MoveLid \/ Tick \/ DaemonMoves \/ UNCHANGED vars
  <2>1. UNCHANGED <<blocked, record, taken, lost, passed, todo, saving, closed, phase>>
    BY <1>11, Zenon DEF MoveLid, Tick, DaemonMoves, vars, worldVars, historyVars, policyVars, agentVars
  <2> QED BY <2>1, Zenon DEF RadioInv, RadioTypes, RestoredFirst, Recorded
<1> QED BY <1>1, <1>2, <1>3, <1>4, <1>5, <1>6, <1>7, <1>8, <1>9, <1>10, <1>11 DEF Next, Agent

\* For any radios, any failing writes, listings and reads, and any deaths of the
\* agent: a radio that was switched off stays on record until it is on again, a
\* restore removes the record without seeing it, or a closing after a restore
\* that came to nothing writes over it.
THEOREM RecordedUntilRestoredAlways == Spec => []RecordedUntilRestored
<1>1. RadioInv => RecordedUntilRestored
  BY Zenon DEF RadioInv, RecordedUntilRestored, Recorded
<1> QED BY <1>1, InitSignals, StepSignals, InitRadios, StepRadios, PTL DEF Spec

-----------------------------------------------------------------------------
(* The countdown to a poweroff. *)

Working == phase \in {"start", "loop", "tick"}

\* The signals not yet taken alternate, up to where the lid is now.
SignalsKept ==
    /\ SignalTypes
    /\ phase = "off" => queue = <<>>
    /\ \A i \in 1..(Len(queue) - 1) : queue[i] # queue[i + 1]
    /\ queue # <<>> => queue[Len(queue)] = lid

CountTypes ==
    /\ shutdown_at \in {None} \cup 0..Delay
    /\ spent \in 0..MaxBlock /\ (todo = <<>> => spent = 0)
    /\ open_long => ~lid
    /\ phase \in {"off", "start"} => todo = <<>>
    /\ phase = "start" => closed = None /\ shutdown_at = None

\* The countdown runs on a lid that was shut, and of which no opening has been
\* missed; and when it is looked at, all of it was waited for.
CountKept ==
    /\ Working /\ shutdown_at # None => closed = TRUE /\ alerted /\ (queue # <<>> => ~queue[1])
    /\ Working /\ queue = <<>> => closed \in {None, lid}
    /\ phase = "tick" /\ shutdown_at # None /\ todo # <<>> =>
         todo = <<"ShutdownAlert">> /\ shutdown_at + spent >= Delay
    /\ phase = "tick" /\ shutdown_at = 0 /\ todo = <<>> => ~open_long

CountInv == SignalsKept /\ CountTypes /\ CountKept

LEMMA InitCount == Init => CountInv
<1> SUFFICES ASSUME Init PROVE CountInv
  OBVIOUS
<1>1. SignalsKept
  BY DEF Init, SignalsKept, SignalTypes
<1>2. shutdown_at = None /\ closed = None /\ phase = "off" /\ spent = 0 /\ todo = <<>>
  BY Zenon DEF Init, NewLid
<1>3. ~open_long
  BY Zenon DEF Init
<1> QED BY <1>1, <1>2, <1>3, LidAssumption DEF CountInv, CountTypes, CountKept, Working

LEMMA StepSignalsKept == SignalsKept /\ [Next]_vars => SignalsKept'
<1> SUFFICES ASSUME SignalsKept, [Next]_vars PROVE SignalsKept'
  OBVIOUS
<1>0. SignalTypes'
  BY StepSignals DEF SignalsKept
<1>1. CASE TakeSignal
  <2>1. queue \in Seq(BOOLEAN) /\ queue # <<>> /\ queue' = Tail(queue) /\ lid' = lid /\ phase' = "tick"
    BY <1>1 DEF TakeSignal, SignalsKept, SignalTypes, worldVars
  <2>2. Len(queue') = Len(queue) - 1 /\ Len(queue) \in Nat
        /\ \A i \in 1..Len(queue') : queue'[i] = queue[i + 1]
    BY <2>1, HeadTailProperties, LenProperties
  <2>3. \A i \in 1..(Len(queue') - 1) : queue'[i] # queue'[i + 1]
    BY <2>2 DEF SignalsKept
  <2>4. queue' # <<>> => queue'[Len(queue')] = lid'
    <3>1. SUFFICES ASSUME queue' # <<>> PROVE queue'[Len(queue')] = lid'
      OBVIOUS
    <3>2. Len(queue') # 0
      BY <1>0, <3>1, EmptySeq DEF SignalTypes
    <3> QED BY <2>1, <2>2, <3>2 DEF SignalsKept
  <2> QED BY <1>0, <2>1, <2>3, <2>4 DEF SignalsKept
<1>2. CASE MoveLid
  <2>1. CASE phase = "off"
    BY <1>0, <1>2, <2>1 DEF MoveLid, SignalsKept
  <2>2. CASE phase # "off"
    <3>1. queue \in Seq(BOOLEAN) /\ queue' = Append(queue, lid') /\ lid' = ~lid /\ phase' = phase
      BY <1>2, <2>2 DEF MoveLid, SignalsKept, SignalTypes
    <3>2. lid' # lid /\ lid' \in BOOLEAN /\ queue' \in Seq(BOOLEAN)
      BY <1>0, <3>1 DEF SignalsKept, SignalTypes
    <3>3. Len(queue') = Len(queue) + 1 /\ queue'[Len(queue) + 1] = lid' /\ Len(queue) \in Nat
          /\ \A i \in 1..Len(queue) : queue'[i] = queue[i]
      BY <3>1, <3>2, AppendProperties, LenProperties
    <3>4. \A i \in 1..(Len(queue') - 1) : queue'[i] # queue'[i + 1]
      <4>1. SUFFICES ASSUME NEW i \in 1..Len(queue) PROVE queue'[i] # queue'[i + 1]
        BY <3>3
      <4>2. CASE i = Len(queue)
        <5>1. queue[i] = lid
          BY <4>2, <3>1, EmptySeq DEF SignalsKept
        <5> QED BY <3>2, <3>3, <4>2, <5>1
      <4>3. CASE i # Len(queue)
        BY <3>3, <4>3 DEF SignalsKept
      <4> QED BY <4>2, <4>3
    <3> QED BY <1>0, <2>2, <3>1, <3>3, <3>4 DEF SignalsKept
  <2> QED BY <2>1, <2>2
<1>3. CASE Boot \/ StartAgent \/ Exit \/ Killed
  <2>1. queue' = <<>>
    BY <1>3, Zenon DEF Boot, StartAgent, Exit, Killed
  <2> QED BY <1>0, <2>1 DEF SignalsKept
<1>4. CASE CarryOut \/ FirstReport \/ TimeOut \/ Deadline \/ Leave \/ Tick \/ DaemonMoves \/ UNCHANGED vars
  <2>1. queue' = queue /\ lid' = lid
    BY <1>4, Zenon DEF CarryOut, FirstReport, TimeOut, Deadline, Leave, Tick, DaemonMoves, worldVars,
                       agentVars, vars
  <2>2. phase' = "off" => phase = "off"
    BY <1>4 DEF CarryOut, FirstReport, TimeOut, Deadline, Leave, Tick, DaemonMoves, agentVars, vars
  <2> QED BY <1>0, <2>1, <2>2 DEF SignalsKept
<1> QED BY <1>1, <1>2, <1>3, <1>4 DEF Next, Agent

LEMMA NoneApart == None # TRUE /\ None # FALSE /\ None # 0 /\ \A n \in Int : n # None
<1>1. TRUE \in BOOLEAN /\ FALSE \in BOOLEAN /\ 0 \in Int
  OBVIOUS
<1> QED BY <1>1, LidAssumption, Zenon

\* Taking a signal.
LEMMA TakeSignalKeepsCount ==
    ASSUME MaxBlock < Delay, CountInv, SignalsKept', TakeSignal PROVE CountInv'
<1> DEFINE shut == Head(queue)
<1>1. /\ Report(shut) /\ closed' = shut /\ todo = <<>> /\ phase = "loop" /\ phase' = "tick"
      /\ queue # <<>> /\ queue' = Tail(queue) /\ UNCHANGED <<lid, spent, open_long>>
  BY ReportCases, Zenon DEF TakeSignal, worldVars
<1>2. alerted' = (todo' = <<"ShutdownAlert">> \/ (alerted /\ shut))
  BY Zenon DEF TakeSignal
<1>3. shut \in BOOLEAN /\ shut = queue[1] /\ queue \in Seq(BOOLEAN) /\ Len(queue) \in Nat
  BY <1>1, HeadTailProperties, LenProperties DEF CountInv, SignalsKept, SignalTypes
<1>4. queue' # <<>> => Len(queue) > 1 /\ queue'[1] = queue[2] /\ queue[1] # queue[2]
  <2>1. SUFFICES ASSUME queue' # <<>> PROVE Len(queue) > 1 /\ queue'[1] = queue[2] /\ queue[1] # queue[2]
    OBVIOUS
  <2>2. Len(Tail(queue)) = Len(queue) - 1 /\ \A i \in 1..Len(Tail(queue)) : Tail(queue)[i] = queue[i + 1]
    BY <1>1, <1>3, HeadTailProperties
  <2>3. Len(Tail(queue)) # 0
    BY <1>1, <2>1, EmptySeq DEF SignalsKept, SignalTypes
  <2>4. Len(queue) > 1
    <3>1. Tail(queue) \in Seq(BOOLEAN)
      BY <1>1, <1>3, HeadTailProperties
    <3>2. Len(Tail(queue)) \in Nat
      BY <3>1, LenProperties
    <3> HIDE DEF shut
    <3> QED BY <1>3, <2>2, <2>3, <3>2
  <2>5. Tail(queue)[1] = queue[2]
    BY <1>3, <2>2, <2>4
  <2> QED BY <1>1, <2>4, <2>5 DEF CountInv, SignalsKept
<1>5. queue' = <<>> => closed' = lid
  <2>1. SUFFICES ASSUME queue' = <<>> PROVE shut = lid
    BY <1>1
  <2>2. Len(queue) = 1
    <3>1. Len(queue') = Len(queue) - 1
      BY <1>1, <1>3, HeadTailProperties
    <3> QED BY <2>1, <3>1, <1>3
  <2> QED BY <1>1, <1>3, <2>2 DEF CountInv, SignalsKept
<1>6. spent = 0 /\ shutdown_at \in {None} \cup 0..Delay /\ (open_long => ~lid)
  BY <1>1 DEF CountInv, CountTypes
<1>7. shutdown_at # None => closed = TRUE /\ alerted /\ ~shut
  BY <1>1, <1>3 DEF CountInv, CountKept, Working
<1>8. \/ shutdown_at' = None
      \/ shutdown_at' = Delay /\ todo' = <<"ShutdownAlert">> /\ shut
  <2>1. CASE closed = FALSE /\ shut /\ OnClose
    BY <1>7, <2>1, CloseTodos
  <2>2. CASE closed = TRUE /\ ~shut /\ OnOpen
    BY <2>2, OpenTodos
  <2>3. CASE ~(closed = TRUE /\ ~shut) /\ UNCHANGED shutdown_at
    BY <1>3, <1>7, <2>3
  <2> QED BY <1>1, <2>1, <2>2, <2>3, ReportCases
<1>9. CASE shutdown_at' = None
  <2>1. shutdown_at' # 0
    BY <1>9, LidAssumption
  <2>2. CountTypes'
    BY <1>1, <1>6, <1>9 DEF CountInv, CountTypes
  <2>3. CountKept'
    BY <1>1, <1>5, <1>9, <2>1 DEF CountKept
  <2> QED BY <2>2, <2>3 DEF CountInv
<1>10. CASE shutdown_at' = Delay /\ todo' = <<"ShutdownAlert">> /\ shut
  <2>1. alerted'
    BY <1>2, <1>10
  <2>2. closed' = TRUE /\ (queue' # <<>> => ~queue'[1])
    <3>1. closed' = TRUE
      BY <1>1, <1>3, <1>10
    <3>2. ASSUME queue' # <<>> PROVE ~queue'[1]
      <4>1. queue[2] \in BOOLEAN /\ queue[1] \in BOOLEAN
        BY <1>3, <1>4, <3>2, ElementOfSeq
      <4>2. queue[1] = TRUE /\ queue[1] # queue[2] /\ queue'[1] = queue[2]
        BY <1>3, <1>4, <1>10, <3>2
      <4> QED BY <4>1, <4>2, Zenon
    <3> QED BY <3>1, <3>2
  <2>3. Delay \in Nat /\ Delay # 0 /\ Delay # None
    BY LidAssumption
  <2>4. CountTypes'
    <3>0. todo' = <<"ShutdownAlert">> /\ todo' # <<>>
      BY <1>10
    <3>1. shutdown_at' \in 0..Delay
      <4>1. shutdown_at' = Delay
        BY <1>10, Zenon
      <4> QED BY <2>3, <4>1
    <3>2. phase' = "tick"
      BY <1>1, Zenon
    <3>3. open_long' => ~lid'
      BY <1>1, <1>6, Zenon
    <3>4. spent' = 0 /\ 0 \in 0..MaxBlock
      BY <1>1, <1>6, LidAssumption
    <3> QED BY <3>0, <3>1, <3>2, <3>3, <3>4 DEF CountTypes
  <2>5. CountKept'
    <3>1. shutdown_at' = Delay /\ spent' = 0
      BY <1>1, <1>6, <1>10, Zenon
    <3>2. shutdown_at' + spent' >= Delay
      BY <3>1, <2>3
    <3>3. queue' = <<>> => closed' \in {None, lid'}
      BY <1>1, <1>5, Zenon
    <3> QED BY <1>10, <2>1, <2>2, <3>1, <3>2, <3>3 DEF CountKept
  <2> QED BY <2>4, <2>5 DEF CountInv
<1> QED BY <1>8, <1>9, <1>10

LEMMA StepCount ==
    ASSUME MaxBlock < Delay, CountInv, [Next]_vars PROVE CountInv'
<1>0. SignalsKept' /\ None \notin Int /\ None \notin BOOLEAN /\ MaxBlock \in Nat /\ Delay \in Nat
  BY StepSignalsKept, LidAssumption DEF CountInv
<1>1. CASE TakeSignal
  BY <1>0, <1>1, TakeSignalKeepsCount
<1>2. CASE CarryOut
  <2>1. UNCHANGED <<phase, lid, queue, closed, shutdown_at, alerted, open_long>>
    BY <1>2, Zenon DEF CarryOut, policyVars
  <2>2. todo # <<>> /\ todo' = Tail(todo) /\ spent' = 0
    BY <1>2, Zenon DEF CarryOut
  <2>3. CountTypes'
    BY <1>0, <2>1, <2>2 DEF CountInv, CountTypes
  <2>4. ASSUME phase = "tick", shutdown_at # None
        PROVE  todo' = <<>> /\ shutdown_at # 0
    <3>1. todo = <<"ShutdownAlert">> /\ shutdown_at + spent >= Delay
      BY <2>2, <2>4 DEF CountInv, CountKept
    <3>2. spent \in 0..MaxBlock /\ shutdown_at \in Int
      BY <2>4 DEF CountInv, CountTypes
    <3> QED BY <1>0, <2>2, <3>1, <3>2
  <2>5. CountKept'
    BY <1>0, <2>1, <2>4 DEF CountInv, CountKept, Working
  <2> QED BY <1>0, <2>3, <2>5 DEF CountInv
<1>3. CASE MoveLid
  <2>1. UNCHANGED <<phase, todo, spent, closed, shutdown_at, alerted>> /\ ~open_long' /\ lid' = ~lid
    BY <1>3, Zenon DEF MoveLid, policyVars
  <2>2. phase # "off" => queue' = Append(queue, lid')
    BY <1>3 DEF MoveLid
  <2>3. CountTypes'
    BY <2>1 DEF CountInv, CountTypes
  <2>4. queue \in Seq(BOOLEAN) /\ lid \in BOOLEAN /\ lid' \in BOOLEAN
    BY <2>1 DEF CountInv, SignalsKept, SignalTypes
  <2>5. ASSUME Working PROVE queue' # <<>> /\ queue'[1] = IF queue = <<>> THEN lid' ELSE queue[1]
    <3>1. queue' = Append(queue, lid')
      BY <2>2, <2>5 DEF Working
    <3>2. Len(queue) \in Nat /\ (Len(queue) = 0 <=> queue = <<>>)
      BY <2>4, EmptySeq, LenProperties
    <3> QED BY <2>4, <3>1, <3>2, AppendProperties
  <2>6. ASSUME Working, shutdown_at # None PROVE closed = TRUE /\ alerted /\ ~queue'[1]
    <3>1. closed = TRUE /\ alerted /\ (queue # <<>> => ~queue[1])
      BY <2>6 DEF CountInv, CountKept
    <3>2. CASE queue = <<>>
      <4>1. lid = TRUE
        BY <1>0, <2>6, <3>1, <3>2 DEF CountInv, CountKept
      <4> QED BY <2>1, <2>5, <2>6, <3>1, <3>2, <4>1
    <3>3. CASE queue # <<>>
      BY <2>5, <2>6, <3>1, <3>3
    <3> QED BY <3>2, <3>3
  <2>7. CountKept'
    BY <2>1, <2>5, <2>6 DEF CountInv, CountKept, Working
  <2> QED BY <1>0, <2>3, <2>7 DEF CountInv
<1>4. CASE Tick
  <2>1. UNCHANGED <<phase, lid, queue, todo, closed, alerted>> /\ open_long' = ~lid
    BY <1>4, Zenon DEF Tick, worldVars
  <2>2. phase = "tick" => todo # <<>>
    BY <1>4 DEF Tick
  <2>3. /\ IF todo # <<>> THEN spent < MaxBlock /\ spent' = spent + 1 ELSE UNCHANGED spent
        /\ shutdown_at' = IF shutdown_at \in {None, 0} THEN shutdown_at ELSE shutdown_at - 1
    BY <1>4, Zenon DEF Tick
  <2>4. shutdown_at \in {None} \cup 0..Delay /\ spent \in 0..MaxBlock
    BY DEF CountInv, CountTypes
  <2>5. shutdown_at' \in {None} \cup 0..Delay /\ (shutdown_at' = None <=> shutdown_at = None)
    BY <1>0, <2>3, <2>4
  <2>6. CountTypes'
    <3>1. spent' \in 0..MaxBlock /\ (todo' = <<>> => spent' = 0)
      BY <1>0, <2>1, <2>3, <2>4 DEF CountInv, CountTypes
    <3>2. open_long' => ~lid'
      BY <2>1, Zenon
    <3> QED BY <2>1, <2>5, <3>1, <3>2 DEF CountInv, CountTypes
  <2>7. ASSUME phase = "tick", shutdown_at # None
        PROVE  todo = <<"ShutdownAlert">> /\ shutdown_at' + spent' >= Delay
    <3>1. todo = <<"ShutdownAlert">> /\ shutdown_at + spent >= Delay
      BY <2>2, <2>7 DEF CountInv, CountKept
    <3> QED BY <1>0, <2>2, <2>3, <2>4, <2>7, <3>1
  <2>8. CountKept'
    BY <2>1, <2>2, <2>5, <2>7 DEF CountInv, CountKept, Working
  <2> QED BY <1>0, <2>6, <2>8 DEF CountInv
<1>5. CASE StartAgent
  <2>1. closed' = None /\ shutdown_at' = None /\ queue' = <<>> /\ phase' = "start"
        /\ UNCHANGED <<lid, todo, spent, open_long>>
    BY <1>5, Zenon DEF StartAgent
  <2>2. todo = <<>>
    BY <1>5 DEF StartAgent, CountInv, CountTypes
  <2>3. CountTypes'
    BY <2>1, <2>2 DEF CountInv, CountTypes
  <2> QED BY <1>0, <2>1, <2>3 DEF CountInv, CountKept
<1>6. CASE FirstReport
  <2>1. phase = "start" /\ phase' = "loop" /\ closed = None /\ shutdown_at = None
        /\ UNCHANGED <<lid, queue, spent, open_long, alerted>>
    BY <1>6 DEF FirstReport, CountInv, CountTypes, worldVars, historyVars
  <2>2. lid \in BOOLEAN
    BY DEF CountInv, SignalsKept, SignalTypes
  <2>3. ((closed' = lid /\ todo' = <<>>) \/ (closed' = None /\ todo' = todo)) /\ shutdown_at' = None
    <3>1. CASE Report(lid)
      <4>1. closed # FALSE /\ closed # TRUE
        BY <2>1, NoneApart, Zenon
      <4>2. closed' = lid /\ todo' = <<>> /\ shutdown_at' = shutdown_at
        BY <3>1, <4>1, Zenon DEF Report
      <4> QED BY <2>1, <4>2
    <3>2. CASE UNCHANGED <<policyVars, todo>>
      BY <2>1, <3>2 DEF policyVars
    <3> QED BY <1>6, <3>1, <3>2, Zenon DEF FirstReport
  <2>4. spent = 0
    BY <2>1 DEF CountInv, CountTypes
  <2>5. CountTypes'
    BY <1>0, <2>1, <2>3, <2>4 DEF CountInv, CountTypes
  <2>6. CountKept'
    BY <1>0, <2>1, <2>3 DEF CountKept
  <2> QED BY <1>0, <2>5, <2>6 DEF CountInv
<1>7. CASE TimeOut
  <2>1. UNCHANGED <<lid, queue, todo, spent, closed, shutdown_at, alerted, open_long>>
    BY <1>7, Zenon DEF TimeOut, worldVars, policyVars, historyVars
  <2>2. phase = "loop" /\ phase' = "tick" /\ todo = <<>> /\ queue = <<>> /\ shutdown_at = 0
    BY <1>7, Zenon DEF TimeOut
  <2>3. closed = TRUE /\ lid = TRUE
    <3>1. shutdown_at # None /\ Working
      BY <2>2, NoneApart DEF Working
    <3>2. closed = TRUE /\ closed \in {None, lid}
      BY <2>2, <3>1 DEF CountInv, CountKept
    <3> QED BY <3>2, NoneApart, Zenon
  <2>4. ~open_long
    BY <2>3 DEF CountInv, CountTypes
  <2> QED BY <1>0, <2>1, <2>2, <2>4 DEF CountInv, CountTypes, CountKept, Working
<1>8. CASE Deadline
  <2>1. phase = "tick" /\ phase' = "loop" /\ todo = <<>>
        /\ UNCHANGED <<lid, queue, spent, closed, alerted, open_long>>
    BY <1>8, Zenon DEF Deadline, worldVars, historyVars
  <2>2. shutdown_at' \in {None, shutdown_at}
    BY <1>8 DEF Deadline
  <2> QED BY <1>0, <2>1, <2>2 DEF CountInv, CountTypes, CountKept, Working
<1>9. CASE Leave
  <2>1. phase' = "leave" /\ shutdown_at' = None /\ todo = <<>> /\ UNCHANGED <<lid, queue, spent, open_long>>
    BY <1>9, Zenon DEF Leave, worldVars, historyVars
  <2> QED BY <1>0, <2>1 DEF CountInv, CountTypes, CountKept, Working
<1>10. CASE Exit \/ Killed
  <2>1. phase' = "off" /\ todo' = <<>> /\ UNCHANGED <<lid, shutdown_at, open_long>>
    BY <1>10, Zenon DEF Exit, Killed, worldVars, policyVars, historyVars
  <2>2. spent' \in 0..MaxBlock /\ (todo' = <<>> => spent' = 0)
    BY <1>0, <1>10 DEF Exit, Killed, CountInv, CountTypes
  <2> QED BY <1>0, <2>1, <2>2 DEF CountInv, CountTypes, CountKept, Working
<1>11. CASE Boot
  <2>1. phase' = "off" /\ shutdown_at' = None /\ spent' = 0 /\ todo' = <<>> /\ ~open_long'
    BY <1>11, Zenon DEF Boot
  <2> QED BY <1>0, <2>1 DEF CountInv, CountTypes, CountKept, Working
<1>12. CASE DaemonMoves \/ UNCHANGED vars
  <2>1. UNCHANGED <<phase, lid, queue, todo, spent, closed, shutdown_at, alerted, open_long>>
    BY <1>12, Zenon DEF DaemonMoves, vars, worldVars, agentVars, policyVars, historyVars
  <2> QED BY <1>0, <2>1 DEF CountInv, CountTypes, CountKept, Working
<1> QED BY <1>1, <1>2, <1>3, <1>4, <1>5, <1>6, <1>7, <1>8, <1>9, <1>10, <1>11, <1>12 DEF Next, Agent

\* When carrying out an effect takes less than the countdown: the machine is
\* told to power off only after an alert, on a lid that is shut, or was opened
\* since the last tick.
THEOREM PowerOffOnlyShutAlways ==
    ASSUME MaxBlock < Delay PROVE Spec => PowerOffOnlyShut
<1>1. ASSUME CountInv, [Next]_vars PROVE [Deadline /\ todo' # <<>> => alerted /\ ~open_long]_vars
  <2>1. SUFFICES ASSUME Deadline, todo' # <<>> PROVE alerted /\ ~open_long
    OBVIOUS
  <2>2. phase = "tick" /\ todo = <<>> /\ shutdown_at = 0
    BY <2>1 DEF Deadline, DueNow
  <2>3. shutdown_at # None /\ Working
    BY <2>2, NoneApart DEF Working
  <2>4. alerted
    BY <1>1, <2>3 DEF CountInv, CountKept
  <2>5. ~open_long
    BY <1>1, <2>2, Zenon DEF CountInv, CountKept
  <2> QED BY <2>4, <2>5
<1>2. CountInv /\ [Next]_vars => CountInv'
  BY StepCount
<1> QED BY <1>1, <1>2, InitCount, PTL DEF Spec, PowerOffOnlyShut
=============================================================================
