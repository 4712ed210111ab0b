----------------------------- MODULE FanProofs -----------------------------
(* Proofs about module Fan and the controller it uses, for every curve that  *)
(* FanCurve::new accepts, every margin and floor, and every set of readings.  *)
EXTENDS Fan, WellFoundedInduction, TLAPS

(***************************************************************************)
(* The controller                                                          *)
(***************************************************************************)
\* Among the points of the curve reached at a temperature there is a last one.
\* curve.rs:94-100, where the loop stops.
LEMMA LastReached ==
    ASSUME NEW t \in Int, Reached(t) # {}
    PROVE  \E i \in Reached(t) : \A j \in Reached(t) : j <= i
<1> DEFINE R == OpToRel(<, Nat)
           Left == {n \in Nat : \E i \in Reached(t) : n = Len(Curve) - i}
<1>1. Len(Curve) \in Nat
  BY CurveAssumption DEF IsCurve
<1>2. Reached(t) \subseteq 1 .. Len(Curve)
  BY DEF Reached
<1>3. Left # {}
  <2>1. PICK i : i \in Reached(t)
    OBVIOUS
  <2>2. Len(Curve) - i \in Left
    BY <1>1, <1>2, <2>1
  <2> QED BY <2>2
<1>4. \E n \in Left : \A m \in Left : ~ (<<m, n>> \in R)
  <2>1. IsWellFoundedOn(R, Nat)
    BY NatLessThanWellFounded
  <2>2. Left \subseteq Nat
    OBVIOUS
  <2> HIDE DEF R, Left
  <2> QED BY <1>3, <2>1, <2>2, WFMin
<1>5. PICK n \in Left : \A m \in Left : ~ (m < n)
  BY <1>4 DEF OpToRel
<1>6. PICK i \in Reached(t) : n = Len(Curve) - i
  BY <1>5
<1>7. ASSUME NEW j \in Reached(t) PROVE j <= i
  <2>1. Len(Curve) - j \in Left
    BY <1>1, <1>2
  <2>2. ~ (Len(Curve) - j < Len(Curve) - i)
    BY <1>5, <1>6, <2>1
  <2> QED BY <1>1, <1>2, <2>2
<1> QED BY <1>7

\* The point whose duty is taken is one of the curve's, and no later one is reached.
LEMMA DutyForReached ==
    ASSUME NEW t \in Int, Reached(t) # {}
    PROVE  \E i \in 1 .. Len(Curve) :
              /\ i \in Reached(t) /\ \A j \in Reached(t) : j <= i
              /\ DutyFor(t) = Curve[i].duty
<1> DEFINE top == CHOOSE i \in Reached(t) : \A j \in Reached(t) : j <= i
<1>1. top \in Reached(t) /\ \A j \in Reached(t) : j <= top
  BY LastReached
<1>2. DutyFor(t) = Curve[top].duty
  BY DEF DutyFor
<1>3. top \in 1 .. Len(Curve)
  BY <1>1 DEF Reached
<1> QED BY <1>1, <1>2, <1>3

\* A point of the curve has a duty.
LEMMA PointDuty ==
    ASSUME NEW i \in 1 .. Len(Curve)
    PROVE  Curve[i].duty \in Duty /\ Curve[i].at \in Int
<1> DEFINE Point == [at : Int, duty : Duty]
<1>1. Curve \in Seq(Point)
  BY CurveAssumption DEF IsCurve
<1> HIDE DEF Point
<1>2. Curve[i] \in Point
  BY <1>1
<1> QED BY <1>2 DEF Point

\* duty_for answers with a duty at every temperature.
LEMMA DutyForType ==
    ASSUME NEW t \in Int
    PROVE  DutyFor(t) \in Duty
<1>1. CASE Reached(t) = {}
  BY <1>1, CurveAssumption DEF DutyFor, Duty, Off
<1>2. CASE Reached(t) # {}
  BY <1>2, DutyForReached, PointDuty
<1> QED BY <1>1, <1>2

\* The duty never falls as the temperature rises: the property the curve's
\* validation is for (curve.rs:57-78).
THEOREM DutyForMonotone ==
    ASSUME NEW s \in Int, NEW t \in Int, s <= t
    PROVE  DutyFor(s) <= DutyFor(t)
<1>1. CASE Reached(s) = {}
  <2>1. DutyFor(s) = 0
    BY <1>1 DEF DutyFor, Off
  <2> QED BY <2>1, DutyForType, CurveAssumption DEF Duty, Off
<1>2. CASE Reached(s) # {}
  <2>1. PICK i \in 1 .. Len(Curve) : i \in Reached(s) /\ DutyFor(s) = Curve[i].duty
    BY <1>2, DutyForReached
  <2>2. i \in Reached(t)
    BY <2>1, PointDuty DEF Reached
  <2>3. PICK j \in 1 .. Len(Curve) :
            (\A k \in Reached(t) : k <= j) /\ DutyFor(t) = Curve[j].duty
    BY <2>2, DutyForReached
  <2>4. i <= j
    BY <2>2, <2>3
  <2>5. Curve[i].duty <= Curve[j].duty
    <3>1. CASE i = j
      BY <3>1, PointDuty DEF Duty, Off
    <3>2. CASE i < j
      BY <3>2, CurveAssumption DEF IsCurve
    <3> QED BY <2>4, <3>1, <3>2
  <2> QED BY <2>1, <2>3, <2>5
<1> QED BY <1>1, <1>2

\* apply_floor answers with a duty that is no less than the one it was given, and
\* never stops the fan unless that is allowed.
LEMMA FlooredBounds ==
    ASSUME NEW d \in Duty, NEW a \in BOOLEAN
    PROVE  /\ Floored(d, a) \in Duty /\ Floored(d, a) >= d
           /\ ~a => Floored(d, a) # Off
BY CurveAssumption DEF Floored, AtMost, AtLeast, Duty, Off

\* Applying the floor again changes nothing.
LEMMA FlooredIdempotent ==
    ASSUME NEW d \in Duty, NEW a \in BOOLEAN
    PROVE  Floored(Floored(d, a), a) = Floored(d, a)
BY CurveAssumption DEF Floored, AtMost, AtLeast, Duty, Off

\* update answers with a duty no lower than the curve's for the temperature.
LEMMA UpdateBounds ==
    ASSUME NEW c \in Duty \cup {None}, NEW t \in Int, NEW a \in BOOLEAN
    PROVE  /\ Update(c, t, a) \in Duty /\ Update(c, t, a) >= DutyFor(t)
           /\ ~a => Update(c, t, a) # Off
<1> DEFINE chosen == IF c = None \/ DutyFor(t) >= c \/ DutyFor(t + Hysteresis) < c
                       THEN DutyFor(t) ELSE c
<1>1. chosen \in Duty /\ chosen >= DutyFor(t)
  BY DutyForType DEF Duty, Off
<1>2. Floored(chosen, a) \in Duty /\ Floored(chosen, a) >= chosen
        /\ (~a => Floored(chosen, a) # Off)
  BY <1>1, FlooredBounds
<1>3. Update(c, t, a) = Floored(chosen, a)
  BY DEF Update
<1>4. DutyFor(t) \in Int /\ chosen \in Int /\ Floored(chosen, a) \in Int
  BY <1>1, <1>2, DutyForType DEF Duty, Off
<1> HIDE DEF chosen
<1> QED BY <1>1, <1>2, <1>3, <1>4

(***************************************************************************)
(* The writes                                                              *)
(***************************************************************************)
\* What a write leaves behind, by what became of it (i2c.rs:220-238).
LEMMA WriteOutcome ==
    ASSUME FanTypeOK, NEW d, Write(d)
    PROVE  /\ recent' \in BOOLEAN /\ unsure' \in BOOLEAN
           /\ \/ mcu' = mcu /\ (recent \/ bus = "fails") /\ unsure' = unsure
              \/ mcu' = d /\ unsure'
              \/ mcu' = d /\ ~recent /\ bus = "works"
<1> USE DEF FanTypeOK
<1>1. recent' \in BOOLEAN
  BY Zenon DEF FanFlagsOK, Write
<1>2. CASE recent \/ bus = "fails"
  BY <1>1, <1>2, Zenon DEF FanFlagsOK, Write
<1>3. CASE ~ (recent \/ bus = "fails") /\ bus = "loses"
  BY <1>1, <1>3, Zenon DEF FanFlagsOK, Write
<1>4. CASE ~ (recent \/ bus = "fails") /\ bus # "loses"
  <2>1. mcu' = d /\ unsure' = (bus = "loses")
    BY <1>4, Zenon DEF Write
  <2>2. unsure' \in BOOLEAN
    BY <2>1, Zenon
  <2>3. bus = "works"
    BY <1>4, Zenon
  <2> QED BY <1>1, <1>4, <2>1, <2>2, <2>3, Zenon
<1> QED BY <1>2, <1>3, <1>4, Zenon

(***************************************************************************)
(* The invariant                                                           *)
(***************************************************************************)
\* A process that has not taken a step remembers nothing.
Fresh ==
    main \in {"down", "gone", "assert", "idle"} =>
        current = None /\ written = None /\ reading = None

\* The duty in force is what the curve called for at the reading remembered.
WarmOK ==
    current # None => warm # None /\ Floored(DutyFor(warm), allowStop) = current

FanInv == FanTypeOK /\ Fresh /\ NeverBelowCurve /\ WarmOK /\ BelievedIsHeld

LEMMA FanInitial == FanInit => FanInv
<1> SUFFICES ASSUME FanInit PROVE FanInv
  OBVIOUS
<1>1. FanFlagsOK
  BY Zenon DEF FanInit, Blank, FanFlagsOK
<1>2. FanTypeOK
  BY <1>1 DEF FanInit, Blank, FanTypeOK, Alive, Loop, Reading
<1> QED BY <1>2 DEF FanInit, Blank, FanInv, Fresh, NeverBelowCurve, WarmOK,
               BelievedIsHeld, Alive, Loop

\* The Boolean variables stay Boolean.
LEMMA FlagsStep ==
    ASSUME FanTypeOK, [FanNext]_vars
    PROVE  FanFlagsOK'
<1> USE DEF FanTypeOK
<1>1. ASSUME UNCHANGED <<recent, unsure, stopping, allowStop>> PROVE FanFlagsOK'
  BY <1>1, Zenon DEF FanFlagsOK
<1>2. ASSUME NEW d, Write(d), UNCHANGED <<stopping, allowStop>> PROVE FanFlagsOK'
  BY <1>2, WriteOutcome, Zenon DEF FanFlagsOK
<1>3. ASSUME NEW d, WriteIfChanged(d), UNCHANGED <<stopping, allowStop>> PROVE FanFlagsOK'
  BY <1>1, <1>2, <1>3, Zenon DEF WriteIfChanged, device
<1>4. CASE AssertSafe
  BY <1>2, <1>4, Zenon DEF AssertSafe, task
<1>5. CASE Step
  BY <1>3, <1>5, Zenon DEF Step, SensorFailed, Applied
<1>6. CASE Restore
  BY <1>2, <1>6, Zenon DEF Restore, task
<1>7. ASSUME Vanish PROVE FanFlagsOK'
  BY <1>7, Zenon DEF Vanish, FanFlagsOK
<1>8. CASE Leave \/ Kill \/ Watchdog
  BY <1>7, <1>8, Zenon DEF Leave, Kill, Watchdog
<1>9. CASE Look \/ Sleep \/ Join \/ Unwind \/ Release \/ Signal \/ UpsFails \/ UpsReturns
  BY <1>1, <1>9, Zenon DEF Look, Sleep, Join, Unwind, Release, Signal, UpsFails, UpsReturns,
       device, task
<1>10. CASE Flag \/ Stalled
  BY <1>10, Zenon DEF Flag, Stalled, device, task, FanFlagsOK
<1>11. CASE Boot
  BY <1>11, Zenon DEF Boot, device, FanFlagsOK
<1>12. CASE StopPost \/ BusChanges \/ UNCHANGED vars
  BY <1>1, <1>12, Zenon DEF StopPost, BusChanges, vars, device, threads, task
<1>13. CASE Elapse
  BY <1>13, Zenon DEF Elapse, task, threads, FanFlagsOK
<1> QED BY <1>4, <1>5, <1>6, <1>8, <1>9, <1>10, <1>11, <1>12, <1>13, Zenon
       DEF FanNext, Main, Handler

\* A write by the loop keeps what it believes true, whatever becomes of it.
LEMMA WriteIfChangedBelieved ==
    ASSUME FanInv, main = "step", NEW d \in Duty, WriteIfChanged(d), UNCHANGED handler
    PROVE  mcu' \in Duty /\ written' \in Duty \cup {None} /\ BelievedIsHeld'
<1> USE DEF FanInv
<1>1. CASE written = d
  <2>1. UNCHANGED <<mcu, unsure, written>>
    BY <1>1, Zenon DEF WriteIfChanged, device
  <2>2. main \in Alive
    BY DEF Alive, Loop
  <2> QED BY <2>1, <2>2 DEF BelievedIsHeld, FanTypeOK
<1>2. CASE written # d
  <2>1. Write(d) /\ written' = Believed(d)
    BY <1>2, Zenon DEF WriteIfChanged
  <2>2. main \in Alive
    BY DEF Alive, Loop
  <2>3. CASE mcu' = mcu /\ (recent \/ bus = "fails") /\ unsure' = unsure
    <3>1. written' = written
      BY <2>1, <2>3 DEF Believed
    <3> QED BY <2>2, <2>3, <3>1 DEF BelievedIsHeld, FanTypeOK
  <2>4. CASE mcu' = d /\ unsure'
    <3>1. written' \in {written, d}
      BY <2>1 DEF Believed
    <3> QED BY <2>2, <2>4, <3>1 DEF BelievedIsHeld, FanTypeOK
  <2>5. CASE mcu' = d /\ ~recent /\ bus = "works"
    <3>1. written' = d
      BY <2>1, <2>5 DEF Believed
    <3> QED BY <2>5, <3>1 DEF BelievedIsHeld
  <2> QED BY <2>1, <2>3, <2>4, <2>5, WriteOutcome
<1> QED BY <1>1, <1>2

\* A step of the loop with a temperature: FanTask::step, fan.rs:106-115.
LEMMA AppliedKeeps ==
    ASSUME FanInv, NEW t \in Temps, Applied(t)
    PROVE  FanInv'
<1> USE DEF FanInv
<1> DEFINE new == Update(current, t, allowStop)
<1>0. FanFlagsOK' /\ FanFlagsOK
  <2>1. Step
    BY Zenon DEF Step
  <2> QED BY <2>1, FlagsStep, Zenon DEF FanNext, Main, FanTypeOK
<1>1. t \in Int /\ t # None
  BY FanAssumption, NoDutyAssumption
<1>2. allowStop \in BOOLEAN /\ current \in Duty \cup {None}
  BY <1>0 DEF FanTypeOK, FanFlagsOK
<1>3. new \in Duty /\ new >= DutyFor(t) /\ (~allowStop => new # Off)
  BY <1>1, <1>2, UpdateBounds
<1>4. new # None
  BY <1>3, NoDutyAssumption DEF Duty, Off
<1>5. /\ main = "step" /\ main' = "after" /\ reading' = t /\ current' = new
      /\ warm' = WarmFor(new, t) /\ WriteIfChanged(new)
      /\ UNCHANGED <<bus, handler, stopping, ups, allowStop>>
  BY Zenon DEF Applied
<1> HIDE DEF new
<1>6. mcu' \in Duty /\ written' \in Duty \cup {None} /\ BelievedIsHeld'
  BY <1>3, <1>5, WriteIfChangedBelieved
<1>7. warm' \in Reading
  BY <1>5 DEF WarmFor, FanTypeOK, Reading
<1>8. (current' # None /\ ~allowStop' => current' # Off)
  <2>1. allowStop' = allowStop
    BY <1>5
  <2> QED BY <1>3, <1>5, <2>1
<1>9. FanTypeOK'
  <2>1. main' \in Alive /\ reading' \in Reading /\ current' \in Duty \cup {None}
    BY <1>3, <1>5 DEF Alive, Loop, Reading
  <2> QED BY <1>0, <1>5, <1>6, <1>7, <1>8, <2>1 DEF FanTypeOK
<1>10. NeverBelowCurve'
  <2>1. DutyFor(reading)' = DutyFor(t)
    BY <1>5 DEF DutyFor, Reached
  <2> QED BY <1>1, <1>3, <1>4, <1>5, <2>1 DEF NeverBelowCurve
<1>11. WarmOK'
  <2>1. warm' # None /\ Floored(DutyFor(warm'), allowStop) = new
    <3>1. CASE current = new /\ (Floored(DutyFor(t), allowStop) # new \/ warm < t)
      <4>1. warm' = warm
        BY <1>5, <3>1 DEF WarmFor
      <4> QED BY <1>4, <3>1, <4>1 DEF WarmOK
    <3>2. CASE current # new
      <4>1. warm' = t
        BY <1>5, <3>2 DEF WarmFor
      <4>2. new = Floored(DutyFor(t), allowStop)
        <5>1. CASE current = None \/ DutyFor(t) >= current \/ DutyFor(t + Hysteresis) < current
          BY <5>1 DEF new, Update
        <5>2. CASE ~ (current = None \/ DutyFor(t) >= current \/ DutyFor(t + Hysteresis) < current)
          <6>1. new = Floored(current, allowStop)
            BY <5>2 DEF new, Update
          <6>2. current = Floored(DutyFor(warm), allowStop) /\ warm \in Int
            BY <5>2, FanAssumption DEF WarmOK, FanTypeOK, Reading
          <6>3. Floored(current, allowStop) = current
            BY <6>2, <1>2, DutyForType, FlooredIdempotent
          <6> QED BY <3>2, <6>1, <6>3
        <5> QED BY <5>1, <5>2
      <4> QED BY <1>1, <4>1, <4>2
    <3>3. CASE current = new /\ ~ (Floored(DutyFor(t), allowStop) # new \/ warm < t)
      <4>1. warm' = t
        BY <1>5, <3>3 DEF WarmFor
      <4> QED BY <1>1, <3>3, <4>1
    <3> QED BY <3>1, <3>2, <3>3
  <2>2. current' = new /\ allowStop' = allowStop
    BY <1>5
  <2>3. Floored(DutyFor(warm), allowStop)' = Floored(DutyFor(warm'), allowStop)
    BY <2>2 DEF Floored, DutyFor, Reached
  <2> QED BY <2>1, <2>2, <2>3 DEF WarmOK
<1>12. Fresh'
  BY <1>5 DEF Fresh
<1> QED BY <1>6, <1>9, <1>10, <1>11, <1>12

\* A step of the loop without one: fan.rs:94-105.
LEMMA SensorFailedKeeps ==
    ASSUME FanInv, SensorFailed
    PROVE  FanInv'
<1> USE DEF FanInv
<1>1. FanFlagsOK'
  <2>1. Step
    BY Zenon DEF Step
  <2> QED BY <2>1, FlagsStep, Zenon DEF FanNext, Main, FanTypeOK
<1>2. Safe \in Duty
  BY FanAssumption, CurveAssumption DEF Duty, Off
<1>3. /\ main = "step" /\ main' = "after" /\ reading' = None /\ current' = None
      /\ warm' = None /\ WriteIfChanged(Safe)
      /\ UNCHANGED <<bus, handler, stopping, ups, allowStop>>
  BY Zenon DEF SensorFailed
<1>4. mcu' \in Duty /\ written' \in Duty \cup {None} /\ BelievedIsHeld'
  BY <1>2, <1>3, WriteIfChangedBelieved
<1>5. FanTypeOK'
  BY <1>1, <1>3, <1>4 DEF FanTypeOK, Alive, Loop, Reading
<1> QED BY <1>3, <1>4, <1>5 DEF Fresh, NeverBelowCurve, WarmOK

\* Whatever leaves the loop's own memory alone keeps the parts about it.
LEMMA TaskKept ==
    ASSUME FanInv, UNCHANGED task,
           main' \in {"down", "gone", "assert", "idle"} =>
               main \in {"down", "gone", "assert", "idle"}
    PROVE  Fresh' /\ NeverBelowCurve' /\ WarmOK'
             /\ (current' # None /\ ~allowStop' => current' # Off)
             /\ current' \in Duty \cup {None} /\ written' \in Duty \cup {None}
             /\ reading' \in Reading /\ warm' \in Reading
<1> USE DEF FanInv
<1>1. UNCHANGED <<allowStop, current, written, reading, warm>>
  BY DEF task
<1>2. DutyFor(reading)' = DutyFor(reading)
  BY <1>1 DEF DutyFor, Reached
<1>3. Floored(DutyFor(warm), allowStop)' = Floored(DutyFor(warm), allowStop)
  BY <1>1 DEF Floored, DutyFor, Reached
<1> QED BY <1>1, <1>2, <1>3 DEF Fresh, NeverBelowCurve, WarmOK, FanTypeOK

\* An action that leaves the loop's memory and the device alone.
LEMMA QuietKeeps ==
    ASSUME FanInv, FanFlagsOK', UNCHANGED <<task, mcu, unsure>>,
           bus' \in {"works", "fails", "loses"}, ups' \in {"polls", "wedged", "dead"},
           main' \in Alive \cup {"down"}, main' = "down" => main \in {"gone", "down"},
           main' \in Alive => main \in Alive \/ written = None,
           main' \in {"assert", "idle"} => main \in {"down", "assert", "idle"},
           handler' \in {"waits", "restores", "flags", "drops", "done"},
           handler \in {"flags", "drops", "done"} => handler' \in {"flags", "drops", "done"}
    PROVE  FanInv'
<1> USE DEF FanInv
<1>1. main' \in {"down", "gone", "assert", "idle"} => main \in {"down", "gone", "assert", "idle"}
  BY DEF Alive, Loop
<1>2. Fresh' /\ NeverBelowCurve' /\ WarmOK'
        /\ (current' # None /\ ~allowStop' => current' # Off)
        /\ current' \in Duty \cup {None} /\ written' \in Duty \cup {None}
        /\ reading' \in Reading /\ warm' \in Reading
  BY <1>1, TaskKept
<1>3. FanTypeOK'
  BY <1>2 DEF FanTypeOK
<1>4. BelievedIsHeld'
  BY DEF BelievedIsHeld, task
<1> QED BY <1>2, <1>3, <1>4

\* A write of the safe duty that FanTask does not know of.
LEMMA SafeWriteKeeps ==
    ASSUME FanInv, FanFlagsOK', Write(Safe), UNCHANGED <<task, bus, ups>>,
           \/ main = "assert" /\ main' = "look" /\ UNCHANGED handler
           \/ UNCHANGED main /\ handler = "restores" /\ handler' = "flags"
    PROVE  FanInv'
<1> USE DEF FanInv
<1>1. main' \in {"down", "gone", "assert", "idle"} => main \in {"down", "gone", "assert", "idle"}
  OBVIOUS
<1>2. Fresh' /\ NeverBelowCurve' /\ WarmOK'
        /\ (current' # None /\ ~allowStop' => current' # Off)
        /\ current' \in Duty \cup {None} /\ written' \in Duty \cup {None}
        /\ reading' \in Reading /\ warm' \in Reading
  BY <1>1, TaskKept
<1>3. mcu' \in Duty
  BY WriteOutcome, FanAssumption, CurveAssumption DEF FanTypeOK, Duty, Off
<1>4. FanTypeOK'
  BY <1>2, <1>3 DEF FanTypeOK, Alive, Loop
<1>5. BelievedIsHeld'
  <2>1. written' = written
    BY DEF task
  <2>2. CASE main = "assert"
    BY <2>1, <2>2 DEF BelievedIsHeld, Fresh
  <2>3. CASE UNCHANGED main /\ handler = "restores" /\ handler' = "flags"
    <3>1. CASE mcu' = mcu /\ unsure' = unsure
      BY <2>1, <2>3, <3>1 DEF BelievedIsHeld
    <3>2. CASE unsure'
      BY <3>2 DEF BelievedIsHeld
    <3>3. CASE mcu' = Safe
      BY <2>3, <3>3 DEF BelievedIsHeld
    <3> QED BY <3>1, <3>2, <3>3, WriteOutcome
  <2> QED BY <2>2, <2>3
<1> QED BY <1>2, <1>4, <1>5

\* The end of a process.
LEMMA VanishKeeps ==
    ASSUME FanInv, FanFlagsOK', Vanish, mcu' \in {mcu, Safe}
    PROVE  FanInv'
<1> USE DEF FanInv
<1>1. mcu' \in Duty
  BY FanAssumption, CurveAssumption DEF FanTypeOK, Duty, Off
<1>2. FanTypeOK'
  BY <1>1 DEF FanTypeOK, Vanish, Reading, Alive, Loop
<1> QED BY <1>2 DEF Vanish, Fresh, NeverBelowCurve, WarmOK, BelievedIsHeld, Alive, Loop

\* Every step keeps the invariant.
LEMMA FanStep ==
    ASSUME FanInv, [FanNext]_vars
    PROVE  FanInv'
<1> USE DEF FanInv
<1>0. FanFlagsOK'
  BY FlagsStep
<1>1. CASE Boot
  <2>1. /\ main = "down" /\ main' \in {"assert", "idle"} /\ current' = None
        /\ UNCHANGED <<mcu, unsure, bus, handler, ups, current, written, reading, warm>>
    BY <1>1 DEF Boot, device, Fresh
  <2>2. written' = None /\ reading' = None
    BY <2>1 DEF Fresh
  <2>3. FanTypeOK'
    BY <1>0, <2>1 DEF FanTypeOK, Alive
  <2> QED BY <2>1, <2>2, <2>3 DEF Fresh, NeverBelowCurve, WarmOK, BelievedIsHeld
<1>2. CASE AssertSafe
  BY <1>0, <1>2, SafeWriteKeeps DEF AssertSafe
<1>3. CASE Restore
  BY <1>0, <1>3, SafeWriteKeeps DEF Restore
<1>4. CASE SensorFailed
  BY <1>4, SensorFailedKeeps
<1>5. ASSUME NEW t \in Temps, Applied(t) PROVE FanInv'
  BY <1>5, AppliedKeeps
<1>6. CASE Leave
  BY <1>0, <1>6, VanishKeeps DEF Leave
<1>7. CASE Kill \/ Watchdog
  BY <1>0, <1>7, VanishKeeps DEF Kill, Watchdog
<1>8. CASE Look
  <2>1. main = "look" /\ main' \in {"join", "step"}
    BY <1>8 DEF Look
  <2> QED BY <1>0, <1>8, <2>1, QuietKeeps DEF Look, device, Alive, Loop, FanTypeOK
<1>9. CASE Sleep \/ Stalled
  BY <1>0, <1>9, QuietKeeps DEF Sleep, Stalled, device, Alive, Loop, FanTypeOK
<1>10. CASE Join \/ Unwind
  BY <1>0, <1>10, QuietKeeps DEF Join, Unwind, device, Alive, Loop, FanTypeOK
<1>11. CASE Signal
  BY <1>0, <1>11, QuietKeeps DEF Signal, device, Alive, Loop, FanTypeOK
<1>12. CASE Flag \/ Release
  BY <1>0, <1>12, QuietKeeps DEF Flag, Release, device, Alive, Loop, FanTypeOK
<1>13. CASE StopPost
  <2>1. main = "gone" /\ main' = "down" /\ mcu' \in {mcu, Safe} /\ UNCHANGED task
        /\ UNCHANGED <<bus, handler, ups>>
    BY <1>13 DEF StopPost
  <2>2. Fresh' /\ NeverBelowCurve' /\ WarmOK'
        /\ (current' # None /\ ~allowStop' => current' # Off)
        /\ current' \in Duty \cup {None} /\ written' \in Duty \cup {None}
        /\ reading' \in Reading /\ warm' \in Reading
    BY <2>1, TaskKept
  <2>3. mcu' \in Duty
    BY <2>1, FanAssumption, CurveAssumption DEF FanTypeOK, Duty, Off
  <2>4. FanTypeOK'
    BY <1>0, <2>1, <2>2, <2>3 DEF FanTypeOK
  <2> QED BY <2>1, <2>2, <2>4 DEF BelievedIsHeld, Alive, Loop
<1>14. ASSUME UNCHANGED <<task, mcu, unsure, main, handler>>,
              bus' \in {"works", "fails", "loses"}, ups' \in {"polls", "wedged", "dead"}
       PROVE  FanInv'
  <2>1. Fresh' /\ NeverBelowCurve' /\ WarmOK'
        /\ (current' # None /\ ~allowStop' => current' # Off)
        /\ current' \in Duty \cup {None} /\ written' \in Duty \cup {None}
        /\ reading' \in Reading /\ warm' \in Reading
    BY <1>14, TaskKept
  <2>2. FanTypeOK'
    BY <1>0, <1>14, <2>1 DEF FanTypeOK
  <2> QED BY <1>14, <2>1, <2>2 DEF BelievedIsHeld, task
<1>15. CASE UpsFails \/ UpsReturns
  BY <1>14, <1>15 DEF UpsFails, UpsReturns, device, FanTypeOK
<1>16. CASE Elapse \/ BusChanges \/ UNCHANGED vars
  BY <1>14, <1>16 DEF Elapse, BusChanges, vars, threads, task, device, FanTypeOK
<1> QED BY <1>1, <1>2, <1>3, <1>4, <1>5, <1>6, <1>7, <1>8, <1>9, <1>10, <1>11, <1>12,
       <1>13, <1>15, <1>16, Zenon DEF FanNext, Main, Handler, Step

(***************************************************************************)
(* The theorems                                                            *)
(***************************************************************************)
THEOREM FanInvariant == FanSpec => []FanInv
<1>1. FanInit => FanInv
  BY FanInitial
<1>2. FanInv /\ [FanNext]_vars => FanInv'
  BY FanStep
<1> QED BY <1>1, <1>2, PTL DEF FanSpec

\* Types, and a fan that may not be stopped is never told to by the controller
\* (curve.rs:228-237).
THEOREM FanTypeCorrect == FanSpec => []FanTypeOK
<1>1. FanInv => FanTypeOK
  BY DEF FanInv
<1> QED BY <1>1, FanInvariant, PTL

\* The controller never answers with less than the curve (curve.rs:200-221).
THEOREM NeverBelowCurveAlways == FanSpec => []NeverBelowCurve
<1>1. FanInv => NeverBelowCurve
  BY DEF FanInv
<1> QED BY <1>1, FanInvariant, PTL

\* FanTask's belief about the MCU is right (fan.rs:118-142).
THEOREM BelievedIsHeldAlways == FanSpec => []BelievedIsHeld
<1>1. FanInv => BelievedIsHeld
  BY DEF FanInv
<1> QED BY <1>1, FanInvariant, PTL

\* A duty goes down only past the margin (curve.rs:206-218).
LEMMA StepsDownPastMargin ==
    ASSUME FanInv, FanNext, current # None, current' # None, current' < current,
           DutyFor(warm) = current
    PROVE  reading' + Hysteresis < warm
<1> USE DEF FanInv
<1>1. \E t \in Temps : Applied(t)
  <2>1. current \in Int
    BY DEF FanTypeOK, Duty, Off
  <2>2. current' # current
    BY <2>1
  <2>3. ~ SensorFailed /\ ~ Vanish
    BY DEF SensorFailed, Vanish
  <2> QED BY <2>2, <2>3, Zenon DEF FanNext, Main, Handler, Step, AssertSafe, Look, Sleep,
         Join, Leave, Restore, Flag, Release, Stalled, Unwind, Boot, Signal, Kill, Watchdog,
         StopPost, UpsFails, UpsReturns, Elapse, BusChanges, task
<1>2. PICK t \in Temps : Applied(t)
  BY <1>1
<1>3. reading' = t /\ current' = Update(current, t, allowStop)
  BY <1>2 DEF Applied
<1>4. /\ t \in Int /\ t + Hysteresis \in Int /\ warm \in Int /\ current \in Duty
      /\ allowStop \in BOOLEAN
  BY FanAssumption, CurveAssumption DEF WarmOK, FanTypeOK, FanFlagsOK, Reading
<1>5. DutyFor(t) >= current => Update(current, t, allowStop) >= DutyFor(t)
  BY <1>4, UpdateBounds
<1>6. DutyFor(t + Hysteresis) < current
  <2>1. SUFFICES ASSUME ~ (DutyFor(t + Hysteresis) < current) PROVE FALSE
    OBVIOUS
  <2>2. DutyFor(t) \in Duty /\ Update(current, t, allowStop) \in Duty
    BY <1>4, DutyForType, UpdateBounds
  <2>3. CASE DutyFor(t) >= current
    BY <1>3, <1>4, <1>5, <2>2, <2>3 DEF Duty, Off
  <2>4. CASE ~ (DutyFor(t) >= current)
    <3>1. Update(current, t, allowStop) = Floored(current, allowStop)
      BY <2>1, <2>4 DEF Update
    <3>2. Floored(current, allowStop) >= current /\ Floored(current, allowStop) \in Duty
      BY <1>4, FlooredBounds
    <3> QED BY <1>3, <1>4, <3>1, <3>2 DEF Duty, Off
  <2> QED BY <2>3, <2>4
<1>7. DutyFor(t + Hysteresis) \in Int /\ DutyFor(warm) \in Int
  BY <1>4, DutyForType DEF Duty, Off
<1>8. ~ (warm <= t + Hysteresis)
  BY <1>4, <1>6, <1>7, DutyForMonotone
<1> QED BY <1>3, <1>4, <1>8

\* The margin is kept wherever the duty is the curve's own.
THEOREM MarginKeptAlways == FanSpec => MarginKept
<1>1. FanInv /\ [FanNext]_vars =>
        [current # None /\ current' # None /\ current' < current
          /\ DutyFor(warm) = current => reading' + Hysteresis < warm]_vars
  <2> SUFFICES ASSUME FanInv, [FanNext]_vars, vars' # vars
               PROVE  current # None /\ current' # None /\ current' < current
                        /\ DutyFor(warm) = current => reading' + Hysteresis < warm
    OBVIOUS
  <2>1. FanNext
    OBVIOUS
  <2> QED BY <2>1, StepsDownPastMargin
<1> QED BY <1>1, FanInvariant, PTL DEF FanSpec, MarginKept
=============================================================================
