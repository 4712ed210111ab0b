----------------------------- MODULE ToolsProofs -----------------------------
(***************************************************************************)
(* What holds of the fan's writers, of the check of the UPS clock and its  *)
(* record, of the fuel gauge, of the start of argond, of the serial port,  *)
(* of the display and of the commands of setup, whatever is asked of them, *)
(* for all values of their constants.                                      *)
(***************************************************************************)
EXTENDS Clock, Start, FanTools, Port, Gauge, Panel, Setup, FiniteSetTheorems, SequenceTheorems,
        WellFoundedInduction, TLAPS

-----------------------------------------------------------------------------
(* The fan. *)

FanToolTypes ==
    /\ dialect \in {"legacy", "register"} /\ firmware \in {"legacy", "register", "none"}
    /\ duty \in 0..100 /\ asked \in 0..100 /\ shadow_duty \in -1..100
    /\ argond \in {"down", "activating", "up"} /\ percent \in 0..255

FanToolFlags == harmed \in BOOLEAN /\ checked \in BOOLEAN /\ crossed \in BOOLEAN

\* A tool that looked before argond was there, or did not see it, is a crossing.
FanToolInv ==
    /\ FanToolTypes /\ FanToolFlags
    /\ ~harmed
    /\ firmware # "none" => duty >= asked
    /\ Runs /\ checked => crossed
    /\ ~Runs => shadow_duty = -1
    /\ ~crossed => SoleWriter

\* A duty is taken as at least that duty, by either firmware in either dialect,
\* and as exactly it where they agree.
LEMMA SetFanIsTaken ==
    ASSUME FanToolTypes, ~harmed, NEW d \in 0..100, SetFan(d)
    PROVE  /\ ~harmed' /\ asked' = d /\ duty' \in 0..100
           /\ firmware # "none" => duty' >= d
           /\ dialect = firmware => duty' = d
<1> DEFINE T == Takes(Frame(d))
<1>1. asked' = d /\ duty' = IF T \in 0..100 THEN T ELSE duty
  BY DEF SetFan, OnTheBus
<1>0. T # Harm => ~harmed'
  BY Zenon DEF SetFan, OnTheBus
<1> HIDE DEF T
<1>2. CASE firmware = "none"
  <2>1. T = Nothing
    BY <1>2 DEF Takes, T
  <2> QED BY <1>0, <1>1, <1>2, <2>1 DEF FanToolTypes, Nothing, Harm
<1>3. CASE firmware = "legacy"
  <2>1. CASE dialect = "legacy"
    <3>1. T = d
      BY <1>3, <2>1 DEF T, Takes, Frame, LegacyTakes, Harms, IR_WRITE, AtMost100
    <3> QED BY <1>0, <1>1, <3>1 DEF FanToolTypes, Harm
  <2>2. CASE dialect = "register"
    <3>1. T = 100
      BY <1>3, <2>2 DEF T, Takes, Frame, LegacyTakes, Harms, IR_WRITE, AtMost100
    <3> QED BY <1>0, <1>1, <1>3, <2>2, <3>1 DEF FanToolTypes, Harm
  <2> QED BY <2>1, <2>2 DEF FanToolTypes
<1>4. CASE firmware = "register"
  <2>1. T = d
    <3>1. CASE dialect = "legacy"
      <4>1. Frame(d) = <<d>> /\ Len(<<d>>) = 1 /\ <<d>>[1] = d
        BY <3>1 DEF Frame
      <4> QED BY <1>4, <4>1 DEF T, Takes, RegisterTakes
    <3>2. CASE dialect = "register"
      <4>1. Frame(d) = <<128, d>> /\ Len(<<128, d>>) = 2 /\ <<128, d>>[1] = 128 /\ <<128, d>>[2] = d
        BY <3>2 DEF Frame
      <4> QED BY <1>4, <4>1 DEF T, Takes, RegisterTakes, AtMost100
    <3> QED BY <3>1, <3>2 DEF FanToolTypes
  <2> QED BY <1>0, <1>1, <2>1 DEF FanToolTypes, Harm
<1> QED BY <1>2, <1>3, <1>4 DEF FanToolTypes

\* A bare byte of the experiment is at worst full speed.
LEMMA ByteIsTaken ==
    ASSUME FanToolTypes, ~harmed, NEW b \in {25, 50, 128}, OnTheBus(<<b>>)
    PROVE  /\ ~harmed' /\ duty' \in 0..100
           /\ firmware # "none" => duty' >= (IF b = 128 THEN duty ELSE b)
<1>1. Len(<<b>>) = 1 /\ <<b>>[1] = b
  OBVIOUS
<1>2. Takes(<<b>>) \in (0..100) \cup {Nothing}
  BY <1>1 DEF Takes, LegacyTakes, RegisterTakes, Harms, IR_WRITE, AtMost100, Harm, Nothing, FanToolTypes
<1>3. firmware # "none" => Takes(<<b>>) = (IF b # 128 THEN b ELSE IF firmware = "legacy" THEN 100 ELSE Nothing)
  BY <1>1 DEF Takes, LegacyTakes, RegisterTakes, Harms, IR_WRITE, AtMost100, Nothing, FanToolTypes
<1>4. Takes(<<b>>) # Harm
  BY <1>2 DEF Harm, Nothing
<1>5. ~harmed'
  BY <1>4, Zenon DEF OnTheBus
<1>6. duty' = IF Takes(<<b>>) \in 0..100 THEN Takes(<<b>>) ELSE duty
  BY DEF OnTheBus
<1> QED BY <1>2, <1>3, <1>5, <1>6 DEF Nothing, FanToolTypes

LEMMA InitFanTools == FanToolsInit => FanToolInv
<1> SUFFICES ASSUME FanToolsInit PROVE FanToolInv
  OBVIOUS
<1>1. FanToolTypes /\ firmware # "none" => duty >= asked
  BY FanToolsAssumption DEF FanToolsInit, FanToolTypes
<1>2. FanToolFlags /\ ~harmed
  BY Zenon DEF FanToolsInit, FanToolFlags
<1>3. FanToolTypes
  BY FanToolsAssumption DEF FanToolsInit, FanToolTypes
<1>4. ~Runs /\ shadow_duty = -1
  BY DEF FanToolsInit, Runs
<1> QED BY <1>1, <1>2, <1>3, <1>4 DEF FanToolInv, SoleWriter

\* The flags are flags, and a crossing lasts until argond writes or leaves.
LEMMA FlagsKept == FanToolFlags /\ [FanToolsNext]_fanToolVars => FanToolFlags'
<1> SUFFICES ASSUME FanToolFlags, [FanToolsNext]_fanToolVars PROVE FanToolFlags'
  OBVIOUS
<1>1. CASE Command
  BY <1>1, Zenon DEF Command, FanToolFlags
<1>2. CASE CheckArgond
  BY <1>2, Zenon DEF CheckArgond, Done, NotSent, FanToolFlags
<1>3. CASE SetDuty
  BY <1>3, Zenon DEF SetDuty, Done, NotSent, SetCapped, SetFan, OnTheBus, FanToolFlags
<1>4. CASE T5Write
  BY <1>4, Zenon DEF T5Write, Done, NotSent, OnTheBus, FanToolFlags
<1>5. CASE T5Probe
  BY <1>5, Zenon DEF T5Probe, Done, OnTheBus, FanToolFlags
<1>6. CASE SetSafe
  BY <1>6, Zenon DEF SetSafe, Done, NotSent, SetFan, OnTheBus, FanToolFlags
<1>7. CASE ArgondDrives
  BY <1>7, Zenon DEF ArgondDrives, NotSent, SetFan, OnTheBus, FanToolFlags
<1>8. CASE ArgondWrites
  BY <1>8, Zenon DEF ArgondWrites, NotSent, SetFan, OnTheBus, FanToolFlags
<1>9. CASE ArgondLeaves
  BY <1>9, Zenon DEF ArgondLeaves, NotSent, SetFan, OnTheBus, FanToolFlags
<1>10. CASE ArgondReady
  BY <1>10, Zenon DEF ArgondReady, FanToolFlags
<1>11. CASE UNCHANGED fanToolVars
  BY <1>11, Zenon DEF fanToolVars, FanToolFlags
<1> QED BY <1>1, <1>2, <1>3, <1>4, <1>5, <1>6, <1>7, <1>8, <1>9, <1>10, <1>11, Zenon DEF FanToolsNext

\* Every step keeps the invariant: one case for each that writes.
LEMMA StepFanTools == FanToolInv /\ [FanToolsNext]_fanToolVars => FanToolInv'
<1> SUFFICES ASSUME FanToolInv, [FanToolsNext]_fanToolVars PROVE FanToolInv'
  OBVIOUS
<1>0. FanToolTypes /\ ~harmed /\ FanToolFlags'
  BY FlagsKept DEF FanToolInv
<1> USE DEF toolBus, driver
<1>1. CASE Command
  <2>1. ~harmed' /\ (Runs' /\ checked' => crossed') /\ (~crossed' => ~crossed)
    BY <1>1, Zenon DEF Command, FanToolInv, Runs
  <2>2. UNCHANGED <<dialect, firmware, duty, asked, argond, shadow_duty>>
    BY <1>1 DEF Command
  <2>3. percent' = percent \/ percent' \in Duties
    BY <1>1, Zenon DEF Command
  <2>4. percent' \in 0..255
    <3>1. percent \in 0..255
      BY <1>0 DEF FanToolTypes
    <3>2. Duties \subseteq 0..255
      BY FanToolsAssumption
    <3>3. CASE percent' = percent
      BY <3>1, <3>3
    <3>4. CASE percent' \in Duties
      BY <3>2, <3>4
    <3> QED BY <2>3, <3>3, <3>4
  <2> QED BY <1>0, <2>1, <2>2, <2>4 DEF FanToolInv, FanToolTypes, SoleWriter, Runs
<1>2. CASE CheckArgond
  <2>1. ~harmed' /\ (Runs' /\ checked' => crossed') /\ (~crossed' => ~crossed)
    BY <1>2, Zenon DEF CheckArgond, Refuses, Done, NotSent, FanToolInv, Runs
  <2>2. UNCHANGED <<dialect, firmware, duty, asked, argond, shadow_duty>> /\ percent' \in 0..255
    BY <1>2, <1>0 DEF CheckArgond, Refuses, Done, NotSent, FanToolTypes
  <2> QED BY <1>0, <2>1, <2>2 DEF FanToolInv, FanToolTypes, SoleWriter, Runs
<1>3. CASE SetDuty
  <2>1. ~checked' /\ (~crossed' => ~crossed /\ ~Runs)
    BY <1>3, Zenon DEF SetDuty, Done, FanToolInv
  <2>2. UNCHANGED <<dialect, firmware, argond, shadow_duty>> /\ percent' = 0
    BY <1>3 DEF SetDuty, Done
  <2>3. ASSUME NotSent PROVE FanToolInv'
    <3>1. ~harmed' /\ UNCHANGED <<duty, asked>>
      BY <1>0, <2>3, Zenon DEF NotSent
    <3> QED BY <1>0, <2>1, <2>2, <3>1 DEF FanToolInv, FanToolTypes, SoleWriter, Runs
  <2>4. ASSUME SetFan(AtMost100(percent)) PROVE FanToolInv'
    <3>1. AtMost100(percent) \in 0..100
      BY <1>0 DEF AtMost100, FanToolTypes
    <3>2. ~harmed' /\ asked' \in 0..100 /\ duty' \in 0..100 /\ (firmware # "none" => duty' >= asked')
      BY <1>0, <2>4, <3>1, SetFanIsTaken
    <3> QED BY <1>0, <2>1, <2>2, <3>2 DEF FanToolInv, FanToolTypes, SoleWriter, Runs
  <2> QED BY <1>3, <2>3, <2>4 DEF SetDuty, SetCapped
<1>4. CASE T5Write
  <2>1. ~checked'
    BY <1>4, Zenon DEF T5Write, Done
  <2>2. UNCHANGED <<dialect, firmware, argond, shadow_duty>> /\ percent' = 0
    BY <1>4 DEF T5Write, Done
  <2>3. ASSUME NotSent, UNCHANGED crossed PROVE FanToolInv'
    <3>1. ~harmed' /\ UNCHANGED <<duty, asked>> /\ (~crossed' => ~crossed)
      BY <1>0, <2>3, Zenon DEF NotSent
    <3> QED BY <1>0, <2>1, <2>2, <3>1 DEF FanToolInv, FanToolTypes, SoleWriter, Runs
  <2>4. ASSUME NEW b \in {25, 50}, OnTheBus(<<b>>), asked' = b, crossed' = (crossed \/ Runs) PROVE FanToolInv'
    <3>1. ~harmed' /\ duty' \in 0..100 /\ (firmware # "none" => duty' >= asked')
      <4>1. b \in {25, 50, 128} /\ b # 128
        OBVIOUS
      <4> QED BY <1>0, <2>4, <4>1, ByteIsTaken
    <3>2. ~crossed' => ~Runs
      BY <2>4, Zenon
    <3> QED BY <1>0, <2>1, <2>2, <2>4, <3>1, <3>2 DEF FanToolInv, FanToolTypes, SoleWriter, Runs
  <2> QED BY <1>4, <2>3, <2>4 DEF T5Write
<1>5. CASE T5Probe
  <2>1. ~checked' /\ (~crossed' => ~Runs)
    BY <1>5, Zenon DEF T5Probe, Done
  <2>2. UNCHANGED <<dialect, firmware, argond, shadow_duty, asked>> /\ percent' = 0 /\ OnTheBus(<<128>>)
    BY <1>5 DEF T5Probe, Done
  <2>3. ~harmed' /\ duty' \in 0..100 /\ (firmware # "none" => duty' >= duty)
    BY <1>0, <2>2, ByteIsTaken
  <2> QED BY <1>0, <2>1, <2>2, <2>3 DEF FanToolInv, FanToolTypes, SoleWriter, Runs
<1>6. CASE SetSafe
  <2>1. ~checked'
    BY <1>6, Zenon DEF SetSafe, Done
  <2>2. UNCHANGED <<dialect, firmware, argond, shadow_duty>> /\ percent' = 0
    BY <1>6 DEF SetSafe, Done
  <2>3. ASSUME NotSent, UNCHANGED crossed PROVE FanToolInv'
    <3>1. ~harmed' /\ UNCHANGED <<duty, asked>> /\ (~crossed' => ~crossed)
      BY <1>0, <2>3, Zenon DEF NotSent
    <3> QED BY <1>0, <2>1, <2>2, <3>1 DEF FanToolInv, FanToolTypes, SoleWriter, Runs
  <2>4. ASSUME SetFan(SafeDuty), crossed' = (crossed \/ Runs) PROVE FanToolInv'
    <3>1. ~harmed' /\ asked' \in 0..100 /\ duty' \in 0..100 /\ (firmware # "none" => duty' >= asked')
      BY <1>0, <2>4, SetFanIsTaken, FanToolsAssumption
    <3>2. ~crossed' => ~Runs
      BY <2>4, Zenon
    <3> QED BY <1>0, <2>1, <2>2, <3>1, <3>2 DEF FanToolInv, FanToolTypes, SoleWriter, Runs
  <2> QED BY <1>6, <2>3, <2>4 DEF SetSafe
<1>7. CASE ArgondDrives
  <2>1. checked' => crossed'
    BY <1>7, Zenon DEF ArgondDrives
  <2>2. UNCHANGED <<dialect, firmware, percent>> /\ argond' = "activating"
    BY <1>7 DEF ArgondDrives
  <2>3. CASE NotSent /\ shadow_duty' = -1
    <3>1. ~harmed' /\ UNCHANGED <<duty, asked>>
      BY <1>0, <2>3, Zenon DEF NotSent
    <3> QED BY <1>0, <2>1, <2>2, <2>3, <3>1 DEF FanToolInv, FanToolTypes, SoleWriter, Runs
  <2>4. CASE SetFan(SafeDuty) /\ shadow_duty' \in {SafeDuty, -1}
    <3>1. /\ ~harmed' /\ asked' \in 0..100 /\ duty' \in 0..100 /\ (firmware # "none" => duty' >= asked')
          /\ dialect = firmware => duty' = SafeDuty
      BY <1>0, <2>4, SetFanIsTaken, FanToolsAssumption
    <3> QED BY <1>0, <2>1, <2>2, <2>4, <3>1, FanToolsAssumption DEF FanToolInv, FanToolTypes, SoleWriter, Runs
  <2> QED BY <1>7, <2>3, <2>4 DEF ArgondDrives
<1>8. CASE ArgondWrites
  <2>1. Runs /\ Runs' /\ (checked => crossed) /\ checked' = checked
    BY <1>8, Zenon DEF ArgondWrites, FanToolInv, Runs
  <2>2. UNCHANGED <<dialect, firmware, percent, argond>>
    BY <1>8 DEF ArgondWrites
  <2>3. PICK d \in CurveDuties :
          \/ SetFan(d) /\ shadow_duty' = d /\ crossed' = (crossed /\ checked)
          \/ SetFan(d) /\ crossed' = TRUE /\ shadow_duty' = shadow_duty
          \/ NotSent /\ UNCHANGED <<shadow_duty, crossed>>
    BY <1>8 DEF ArgondWrites
  <2>4. CASE NotSent /\ UNCHANGED <<shadow_duty, crossed>>
    <3>1. ~harmed' /\ UNCHANGED <<duty, asked>> /\ (~crossed' => ~crossed)
      BY <1>0, <2>4, Zenon DEF NotSent
    <3>2. checked' => crossed'
      BY <2>1, <2>4, Zenon
    <3> QED BY <1>0, <2>1, <2>2, <2>4, <3>1, <3>2 DEF FanToolInv, FanToolTypes, SoleWriter, Runs
  <2>5. ASSUME SetFan(d)
        PROVE  /\ ~harmed' /\ asked' \in 0..100 /\ duty' \in 0..100 /\ (firmware # "none" => duty' >= asked')
               /\ dialect = firmware => duty' = d
    BY <1>0, <2>5, SetFanIsTaken, FanToolsAssumption
  <2>6. CASE SetFan(d) /\ shadow_duty' = d /\ crossed' = (crossed /\ checked)
    <3>1. checked' => crossed'
      BY <2>1, <2>6, Zenon
    <3> QED BY <1>0, <2>1, <2>2, <2>5, <2>6, <3>1, FanToolsAssumption DEF FanToolInv, FanToolTypes, SoleWriter, Runs
  <2>7. CASE SetFan(d) /\ crossed' = TRUE /\ shadow_duty' = shadow_duty
    BY <1>0, <2>1, <2>2, <2>5, <2>7, FanToolsAssumption DEF FanToolInv, FanToolTypes, SoleWriter, Runs
  <2> QED BY <2>3, <2>4, <2>6, <2>7
<1>9. CASE ArgondLeaves
  <2>2. UNCHANGED <<dialect, firmware, percent>> /\ argond' = "down" /\ shadow_duty' = -1
    BY <1>9 DEF ArgondLeaves
  <2>3. ASSUME NotSent PROVE FanToolInv'
    <3>1. ~harmed' /\ UNCHANGED <<duty, asked>>
      BY <1>0, <2>3, Zenon DEF NotSent
    <3> QED BY <1>0, <2>2, <3>1 DEF FanToolInv, FanToolTypes, SoleWriter, Runs
  <2>4. ASSUME SetFan(SafeDuty) PROVE FanToolInv'
    <3>1. ~harmed' /\ asked' \in 0..100 /\ duty' \in 0..100 /\ (firmware # "none" => duty' >= asked')
      BY <1>0, <2>4, SetFanIsTaken, FanToolsAssumption
    <3> QED BY <1>0, <2>2, <3>1 DEF FanToolInv, FanToolTypes, SoleWriter, Runs
  <2> QED BY <1>9, <2>3, <2>4 DEF ArgondLeaves
<1>10. CASE ArgondReady
  <2>1. argond = "activating" /\ argond' = "up" /\ UNCHANGED <<dialect, firmware, duty, asked, shadow_duty, percent>>
    BY <1>10 DEF ArgondReady
  <2>2. ~harmed' /\ checked' = checked /\ crossed' = crossed
    BY <1>10, Zenon DEF ArgondReady, FanToolInv
  <2> QED BY <1>0, <2>1, <2>2 DEF FanToolInv, FanToolTypes, SoleWriter, Runs
<1>11. CASE UNCHANGED fanToolVars
  <2>1. ~harmed' /\ (Runs' /\ checked' => crossed') /\ (~crossed' => ~crossed)
    BY <1>11, Zenon DEF fanToolVars, driver, FanToolInv, Runs
  <2>2. UNCHANGED <<dialect, firmware, duty, asked, argond, shadow_duty, percent>>
    BY <1>11 DEF fanToolVars
  <2> QED BY <1>0, <2>1, <2>2 DEF FanToolInv, FanToolTypes, SoleWriter, Runs
<1> QED BY <1>1, <1>2, <1>3, <1>4, <1>5, <1>6, <1>7, <1>8, <1>9, <1>10, <1>11 DEF FanToolsNext

\* For every byte asked for and every curve: only duties reach the MCU, the fan
\* turns at least as fast as last asked, and what argond believes is so where it
\* was not crossed.
THEOREM FanIsArgondsAlways == FanToolsSpec => []FanIsArgonds
<1>1. FanToolInv => FanIsArgonds
  BY DEF FanToolInv, FanIsArgonds, NothingElseIsAsked
<1> QED BY <1>1, InitFanTools, StepFanTools, PTL DEF FanToolsSpec

-----------------------------------------------------------------------------
(* The check of the UPS clock. *)

\* A check that sets has found the system clock synchronised, and it still is.
CheckInv ==
    /\ check = "set" => trusted
    /\ trusted => synced
    /\ synced => system = 0

LEMMA InitCheck == Init => CheckInv
  BY Zenon DEF Init, CheckInv

LEMMA CorrectIsTrusted == Judge(ups, system, trusted) = "Correct" => trusted
  BY DEF Judge

LEMMA StepCheck == CheckInv /\ [Next]_vars => CheckInv'
<1> SUFFICES ASSUME CheckInv, [Next]_vars PROVE CheckInv'
  OBVIOUS
<1>1. CASE BeginCheck
  <2>1. check' = "read" /\ (trusted' => synced)
    BY <1>1, Zenon DEF BeginCheck
  <2>2. UNCHANGED <<synced, system>>
    BY <1>1 DEF BeginCheck
  <2> QED BY <2>1, <2>2 DEF CheckInv
<1>2. CASE ReadClock
  <2>1. (check' = "set" => trusted) /\ (trusted' => trusted)
    <3>1. ASSUME EndCheck PROVE check' = "rest" /\ ~trusted'
      BY <3>1, Zenon DEF EndCheck
    <3>2. EndCheck \/ (Judge(ups, system, trusted) = "Correct" /\ trusted' = trusted)
      BY <1>2 DEF ReadClock
    <3>3. CASE EndCheck
      BY <3>1, <3>3
    <3>4. CASE Judge(ups, system, trusted) = "Correct" /\ trusted' = trusted
      BY <3>4, CorrectIsTrusted, Zenon
    <3> QED BY <3>2, <3>3, <3>4
  <2>2. UNCHANGED <<synced, system>>
    BY <1>2 DEF ReadClock
  <2>3. check' = "set" => trusted'
    <3>1. EndCheck \/ trusted' = trusted
      BY <1>2 DEF ReadClock
    <3>2. CASE EndCheck
      BY <3>2 DEF EndCheck
    <3>3. CASE trusted' = trusted
      BY <2>1, <3>3, Zenon
    <3> QED BY <3>1, <3>2, <3>3
  <2> QED BY <2>1, <2>2, <2>3 DEF CheckInv
<1>3. CASE SetClock \/ Verify
  <2>1. check' # "set" /\ (trusted' => trusted)
    <3>1. check' # "set"
      BY <1>3 DEF SetClock, Verify, EndCheck
    <3>2. trusted' => trusted
      BY <1>3, Zenon DEF SetClock, Verify, EndCheck
    <3> QED BY <3>1, <3>2
  <2>2. UNCHANGED <<synced, system>>
    BY <1>3 DEF SetClock, Verify
  <2> QED BY <2>1, <2>2 DEF CheckInv
<1>4. CASE T15 \/ T17 \/ Interrupted
  <2>1. UNCHANGED <<check, trusted, synced, system>>
    BY <1>4 DEF T15, T17, BeginT15, SendWrong, Reread, Restore, RereadRight, Report, BeginT17,
                WriteFirst, WriteSecond, WriteWake, Result, Interrupted, Unsettled, checkVars
  <2> QED BY <2>1, Zenon DEF CheckInv
<1>5. CASE ArgondStops \/ ArgondStarts
  <2>1. check' # "set" /\ (trusted' => trusted)
    <3>1. check' # "set"
      BY <1>5 DEF ArgondStops, ArgondStarts
    <3>2. trusted' => trusted
      BY <1>5, Zenon DEF ArgondStops, ArgondStarts
    <3> QED BY <3>1, <3>2
  <2>2. UNCHANGED <<synced, system>>
    BY <1>5 DEF ArgondStops, ArgondStarts
  <2> QED BY <2>1, <2>2 DEF CheckInv
<1>6. CASE NtpSyncs
  <2>1. synced' /\ system' = 0
    BY <1>6, Zenon DEF NtpSyncs
  <2>2. UNCHANGED <<check, trusted>>
    BY <1>6 DEF NtpSyncs, checkVars
  <2> QED BY <2>1, <2>2, Zenon DEF CheckInv
<1>7. CASE DeepDischarge \/ Tick \/ UNCHANGED vars
  <2>1. UNCHANGED <<check, trusted, synced, system>>
    BY <1>7 DEF DeepDischarge, Tick, vars, checkVars
  <2> QED BY <2>1, Zenon DEF CheckInv
<1> QED BY <1>1, <1>2, <1>3, <1>4, <1>5, <1>6, <1>7 DEF Next, Check, World

\* For every drift, threshold and interval: argond sets the UPS clock only to
\* the true time, since it asks first and no clock becomes unsynchronised.
THEOREM NeverSetWrongAlways == Spec => NeverSetWrong
<1>1. CheckInv /\ [Next]_vars => [SetClock /\ ups' # ups => ups' = 0]_vars
  BY DEF CheckInv, SetClock
<1> QED BY <1>1, InitCheck, StepCheck, PTL DEF Spec, NeverSetWrong

-----------------------------------------------------------------------------
(* The record of the drift, and the experiments. *)

Lines == [unix : Int, offset : Int, after : {None} \cup Int]

ClockTypes ==
    /\ now \in Int /\ system \in Int /\ offset_s \in Int
    /\ ups \in Int \cup {Implausible}
    /\ log \in Seq(Lines)

\* The step of the check: a correction is under way only of a trusted clock,
\* and what it found holds until a clock is stepped.
CheckUnderWay ==
    /\ check \in {"set", "verify"} => trusted
    /\ check \in {"set", "verify"} /\ ~jumped => ups \in Int /\ offset_s = ups

\* Every point after the last correction on record, and that correction's, lies
\* on the line of the drift through what the clock says now.
LogIsTrue ==
    ~jumped /\ log # <<>> =>
        /\ synced /\ ups \in Int
        /\ \A i \in Stretch(log) : PointOf(log[i]) + Drift * (now - log[i].unix) = ups

\* What an experiment has confirmed.
Told ==
    /\ experiment # "none" => check = "off"
    /\ experiment \in {"wrong", "reread", "restore", "rereadRight", "report"} => synced
    /\ experiment \in {"restore", "rereadRight"} /\ confirmed /\ ~obeys =>
         ups = Implausible \/ Abs(ups) > Threshold
    /\ experiment \in {"wrong", "reread", "none"} => ~confirmed
    /\ ~obeys => wake = None
    /\ first => obeys

LEMMA ClockNumbers ==
    /\ Threshold \in Nat /\ MinSpan \in Nat /\ Drift \in Int /\ Unsynced \in Int
    /\ Wrong \in Int /\ Wrong > 2 * Threshold
    /\ MaxLines \in Nat /\ KeepLines \in 1..MaxLines
    /\ None \notin Int /\ Implausible \notin Int
  BY ClockAssumption

\* append keeps a last part of the record, the new line at its end.
LEMMA AppendedIsASuffix ==
    ASSUME NEW entries \in Seq(Lines), NEW e \in Lines
    PROVE  /\ Appended(entries, e) \in Seq(Lines)
           /\ \E d \in Nat :
                /\ Len(Appended(entries, e)) + d = Len(entries) + 1
                /\ Len(Appended(entries, e)) >= 1
                /\ \A i \in 1 .. Len(Appended(entries, e)) :
                     Appended(entries, e)[i] = IF i + d = Len(entries) + 1 THEN e ELSE entries[i + d]
<1> DEFINE all == Append(entries, e)
<1>1. /\ all \in Seq(Lines) /\ Len(all) = Len(entries) + 1 /\ Len(entries) \in Nat
      /\ \A i \in 1 .. Len(all) : all[i] = IF i = Len(entries) + 1 THEN e ELSE entries[i]
  BY AppendProperties
<1>2. Appended(entries, e) = IF Len(all) <= MaxLines THEN all
                             ELSE SubSeq(all, Len(all) - KeepLines + 1, Len(all))
  BY DEF Appended
<1> HIDE DEF all
<1>3. CASE Len(all) <= MaxLines
  <2>1. Appended(entries, e) = all
    BY <1>2, <1>3
  <2>2. 0 \in Nat /\ \A i \in 1 .. Len(all) : all[i] = IF i + 0 = Len(entries) + 1 THEN e ELSE entries[i + 0]
    BY <1>1
  <2> QED BY <1>1, <2>1, <2>2
<1>4. CASE ~(Len(all) <= MaxLines)
  <2> DEFINE d == Len(all) - KeepLines
             kept == SubSeq(all, d + 1, Len(all))
  <2>1. d \in Nat /\ d + 1 <= Len(all) /\ d + 1 \in Nat /\ Len(all) \in Nat /\ Len(all) - d = KeepLines
        /\ KeepLines \in Nat /\ KeepLines >= 1
    BY <1>1, <1>4, ClockNumbers
  <2>2. Appended(entries, e) = kept
    BY <1>2, <1>4
  <2> HIDE DEF d
  <2>3. /\ kept \in Seq(Lines) /\ Len(kept) = Len(all) - d
        /\ \A i \in 1 .. Len(kept) : kept[i] = all[i + d]
    BY <1>1, <2>1, SubSeqProperties
  <2> HIDE DEF kept
  <2>4. \A i \in 1 .. Len(kept) : i + d \in 1 .. Len(all)
    BY <1>1, <2>1, <2>3
  <2>5. \A i \in 1 .. Len(kept) : kept[i] = IF i + d = Len(entries) + 1 THEN e ELSE entries[i + d]
    BY <1>1, <2>3, <2>4
  <2>6. Len(kept) + d = Len(entries) + 1 /\ Len(kept) >= 1
    BY <1>1, <2>1, <2>3
  <2> QED BY <2>1, <2>2, <2>3, <2>5, <2>6
<1> QED BY <1>3, <1>4

\* After a line is recorded, the stretch is that line and, unless it is a
\* correction, what is left of the stretch before.
LEMMA StretchOfAppended ==
    ASSUME NEW entries \in Seq(Lines), NEW e \in Lines, NEW i \in Stretch(Appended(entries, e))
    PROVE  \/ Appended(entries, e)[i] = e
           \/ e.after = None /\ \E k \in Stretch(entries) : Appended(entries, e)[i] = entries[k]
<1> DEFINE new == Appended(entries, e)
<1>1. /\ new \in Seq(Lines) /\ i \in DOMAIN new
      /\ \A j \in DOMAIN new : j > i => new[j].after = None
  BY AppendedIsASuffix DEF Stretch
<1>2. PICK d \in Nat : /\ Len(new) + d = Len(entries) + 1
                       /\ Len(new) >= 1
                       /\ \A j \in 1 .. Len(new) :
                            new[j] = IF j + d = Len(entries) + 1 THEN e ELSE entries[j + d]
  BY AppendedIsASuffix
<1> HIDE DEF new
<1>3. /\ DOMAIN new = 1 .. Len(new) /\ DOMAIN entries = 1 .. Len(entries)
      /\ Len(new) \in Nat /\ Len(entries) \in Nat
  BY <1>1
<1>4. CASE i + d = Len(entries) + 1
  BY <1>1, <1>2, <1>3, <1>4 DEF new
<1>5. CASE i + d # Len(entries) + 1
  <2>1. /\ i + d \in DOMAIN entries /\ new[i] = entries[i + d]
        /\ Len(new) \in DOMAIN new /\ Len(new) > i /\ new[Len(new)] = e
    BY <1>1, <1>2, <1>3, <1>5
  <2>2. ASSUME NEW j \in DOMAIN entries, j > i + d PROVE entries[j].after = None
    <3>1. j - d \in DOMAIN new /\ j - d > i /\ new[j - d] = entries[j]
      BY <1>1, <1>2, <1>3, <2>2
    <3> QED BY <1>1, <3>1
  <2>3. i + d \in Stretch(entries)
    BY <2>1, <2>2 DEF Stretch
  <2> QED BY <1>1, <2>1, <2>3 DEF new
<1> QED BY <1>4, <1>5

LEMMA EntryIsALine ==
    ASSUME now \in Int, NEW o \in Int, NEW a \in {None} \cup Int
    PROVE  /\ Entry(o, a) \in Lines /\ Entry(o, a).after = a /\ Entry(o, a).unix = now
           /\ PointOf(Entry(o, a)) = IF a # None THEN a ELSE o
  BY DEF Entry, Lines, PointOf

OnTheLine(entries, t, v) ==
    \A i \in Stretch(entries) : PointOf(entries[i]) + Drift * (t - entries[i].unix) = v

\* A line that says what the clock says continues a true record, and one that
\* corrects begins another.
LEMMA RecordedIsTrue ==
    ASSUME ClockTypes, NEW o \in Int, NEW a \in {None} \cup Int, NEW v \in Int,
           v = IF a # None THEN a ELSE o,
           a = None => OnTheLine(log, now, v)
    PROVE  OnTheLine(Appended(log, Entry(o, a)), now, v)
<1> DEFINE e == Entry(o, a)
           new == Appended(log, e)
<1>1. now \in Int /\ log \in Seq(Lines)
  BY DEF ClockTypes
<1>2. e \in Lines /\ e.after = a /\ e.unix = now /\ PointOf(e) = v
  BY <1>1, EntryIsALine
<1> HIDE DEF e
<1>3. SUFFICES ASSUME NEW i \in Stretch(new)
               PROVE  PointOf(new[i]) + Drift * (now - new[i].unix) = v
  BY DEF OnTheLine, e
<1>4. \/ new[i] = e
      \/ a = None /\ \E k \in Stretch(log) : new[i] = log[k]
  BY <1>1, <1>2, StretchOfAppended
<1> HIDE DEF new
<1>5. CASE new[i] = e
  <2>1. Drift * (now - now) = 0
    BY <1>1, ClockNumbers
  <2> QED BY <1>2, <1>5, <2>1
<1>6. CASE a = None /\ \E k \in Stretch(log) : new[i] = log[k]
  BY <1>6 DEF OnTheLine
<1> QED BY <1>4, <1>5, <1>6

LEMMA RecordedType ==
    ASSUME ClockTypes, NEW o \in Int, NEW a \in {None} \cup Int, Recorded(o, a)
    PROVE  log' \in Seq(Lines)
  BY EntryIsALine, AppendedIsASuffix DEF ClockTypes, Recorded

LEMMA JudgeMeans ==
    ASSUME ClockTypes, NEW t
    PROVE  /\ Judge(ups, system, t) # "Implausible" => ups \in Int
           /\ Judge(ups, system, t) = "InSync" => Abs(ups - system) <= Threshold
  BY DEF Judge, ClockTypes

LEMMA ClockTypesInit == Init => ClockTypes
  BY ClockNumbers DEF Init, ClockTypes

LEMMA ClockTypesStep == ClockTypes /\ [Next]_vars => ClockTypes'
<1> SUFFICES ASSUME ClockTypes, [Next]_vars PROVE ClockTypes'
  OBVIOUS
<1>0. /\ now \in Int /\ system \in Int /\ offset_s \in Int
      /\ ups \in Int \cup {Implausible} /\ log \in Seq(Lines)
      /\ None \in {None} \cup Int
  BY DEF ClockTypes
<1>1. CASE BeginCheck
  BY <1>0, <1>1 DEF BeginCheck, ClockTypes
<1>2. CASE ReadClock
  <2>1. UNCHANGED <<now, ups, system>>
    BY <1>2 DEF ReadClock
  <2>2. \/ offset_s' = 0 /\ log' = log
        \/ offset_s' = 0 /\ Judge(ups, system, trusted) # "Implausible" /\ Recorded(ups - system, None)
        \/ offset_s' = ups - system /\ log' = log /\ Judge(ups, system, trusted) # "Implausible"
    BY <1>2 DEF ReadClock, EndCheck
  <2>3. CASE Judge(ups, system, trusted) # "Implausible"
    <3>1. ups - system \in Int
      BY <1>0, <2>3, JudgeMeans
    <3> QED BY <1>0, <2>1, <2>2, <3>1, RecordedType DEF ClockTypes
  <2>4. CASE Judge(ups, system, trusted) = "Implausible"
    BY <1>0, <2>1, <2>2, <2>4 DEF ClockTypes
  <2> QED BY <2>3, <2>4
<1>3. CASE SetClock
  <2>1. UNCHANGED <<now, system>> /\ ups' \in {ups, system}
    BY <1>3 DEF SetClock
  <2>2. \/ UNCHANGED <<offset_s, log>>
        \/ offset_s' = 0 /\ Recorded(offset_s, None)
    BY <1>3 DEF SetClock, EndCheck
  <2> QED BY <1>0, <2>1, <2>2, RecordedType DEF ClockTypes
<1>4. CASE Verify
  <2>1. UNCHANGED <<now, ups, system>> /\ offset_s' = 0
    BY <1>4 DEF Verify, EndCheck
  <2>2. \/ Judge(ups, system, TRUE) = "InSync" /\ Recorded(offset_s, ups - system)
        \/ Recorded(offset_s, None)
    BY <1>4 DEF Verify
  <2>3. CASE Judge(ups, system, TRUE) = "InSync" /\ Recorded(offset_s, ups - system)
    <3>1. ups - system \in {None} \cup Int
      BY <1>0, <2>3, JudgeMeans
    <3> QED BY <1>0, <2>1, <2>3, <3>1, RecordedType DEF ClockTypes
  <2>4. CASE Recorded(offset_s, None)
    BY <1>0, <2>1, <2>4, RecordedType DEF ClockTypes
  <2> QED BY <2>2, <2>3, <2>4
<1>5. CASE T15 \/ T17 \/ Interrupted
  <2>1. UNCHANGED <<now, system, offset_s, log>>
    BY <1>5 DEF T15, T17, BeginT15, SendWrong, Reread, Restore, RereadRight, Report, BeginT17,
                WriteFirst, WriteSecond, WriteWake, Result, Interrupted, Unsettled, checkVars
  <2>2. ups' \in {ups, system, system - Wrong}
    BY <1>5 DEF T15, T17, BeginT15, SendWrong, Reread, Restore, RereadRight, Report, BeginT17,
                WriteFirst, WriteSecond, WriteWake, Result, Interrupted, Sent
  <2> QED BY <1>0, <2>1, <2>2, ClockNumbers DEF ClockTypes
<1>6. CASE ArgondStops \/ ArgondStarts \/ NtpSyncs
  BY <1>0, <1>6 DEF ArgondStops, ArgondStarts, NtpSyncs, checkVars, ClockTypes
<1>7. CASE DeepDischarge \/ UNCHANGED vars
  <2>1. UNCHANGED <<now, system, offset_s, log>> /\ ups' \in {ups, Implausible, -2 * Wrong}
    BY <1>7 DEF DeepDischarge, vars, checkVars
  <2>2. -2 * Wrong \in Int
    BY ClockNumbers
  <2> QED BY <1>0, <2>1, <2>2 DEF ClockTypes
<1>8. CASE Tick
  <2>1. UNCHANGED <<system, offset_s, log>> /\ now' = now + 1
        /\ ups' = IF ups = Implausible THEN ups ELSE ups + Drift
    BY <1>8 DEF Tick, checkVars
  <2> QED BY <1>0, <2>1, ClockNumbers DEF ClockTypes
<1> QED BY <1>1, <1>2, <1>3, <1>4, <1>5, <1>6, <1>7, <1>8 DEF Next, Check, World

ClockRecordInv == ClockTypes /\ CheckInv /\ CheckUnderWay /\ LogIsTrue

LEMMA RecordInit == Init => CheckUnderWay /\ LogIsTrue
<1> SUFFICES ASSUME Init PROVE CheckUnderWay /\ LogIsTrue
  OBVIOUS
<1>1. check = "rest" /\ log = <<>>
  BY DEF Init
<1> QED BY <1>1 DEF CheckUnderWay, LogIsTrue

\* The trusted system clock is the true time.
LEMMA TrustedIsTrue ==
    ASSUME ClockTypes, CheckInv, trusted
    PROVE  synced /\ system = 0 /\ (ups \in Int => ups - system = ups)
  BY DEF ClockTypes, CheckInv

LEMMA UnderWayStep ==
    ClockTypes /\ CheckInv /\ CheckUnderWay /\ [Next]_vars => CheckUnderWay'
<1> SUFFICES ASSUME ClockTypes, CheckInv, CheckUnderWay, [Next]_vars PROVE CheckUnderWay'
  OBVIOUS
<1>1. CASE BeginCheck
  BY <1>1 DEF BeginCheck, CheckUnderWay
<1>2. CASE ReadClock
  <2>1. CASE EndCheck
    BY <2>1 DEF EndCheck, CheckUnderWay
  <2>2. CASE ~EndCheck
    <3>1. /\ Judge(ups, system, trusted) = "Correct"
          /\ offset_s' = ups - system /\ check' = "set" /\ trusted' = trusted /\ ups' = ups
      BY <1>2, <2>2 DEF ReadClock
    <3>2. trusted /\ ups \in Int
      BY <3>1, CorrectIsTrusted, JudgeMeans
    <3>3. ups - system = ups
      BY <3>2, TrustedIsTrue
    <3>4. trusted'
      BY <3>1, <3>2, Zenon
    <3> QED BY <3>1, <3>2, <3>3, <3>4 DEF CheckUnderWay
  <2> QED BY <2>1, <2>2
<1>3. CASE SetClock
  <2>1. check = "set" /\ trusted
    BY <1>3, Zenon DEF SetClock, CheckUnderWay
  <2>2. CASE EndCheck
    BY <2>2 DEF EndCheck, CheckUnderWay
  <2>3. CASE ~EndCheck
    <3>1. check' = "verify" /\ trusted' = trusted /\ offset_s' = offset_s
      BY <1>3, <2>3 DEF SetClock
    <3>2. ~jumped' => ~jumped /\ ups' = ups
      BY <1>3, Zenon DEF SetClock
    <3>3. trusted'
      BY <2>1, <3>1, Zenon
    <3> QED BY <2>1, <3>1, <3>2, <3>3 DEF CheckUnderWay
  <2> QED BY <2>2, <2>3
<1>4. CASE Verify
  BY <1>4 DEF Verify, EndCheck, CheckUnderWay
<1>5. CASE T15 \/ T17 \/ Interrupted
  <2>1. UNCHANGED <<check, trusted, offset_s>>
    BY <1>5 DEF T15, T17, BeginT15, SendWrong, Reread, Restore, RereadRight, Report, BeginT17,
                WriteFirst, WriteSecond, WriteWake, Result, Interrupted, Unsettled, checkVars
  <2>2. ~jumped' => ~jumped /\ ups' = ups
    <3>1. ASSUME NEW t, NEW a, NEW b, Sent(t, a, b) PROVE ~jumped' => ~jumped /\ ups' = ups
      BY <3>1, Zenon DEF Sent
    <3>2. CASE SendWrong \/ Restore
      BY <3>1, <3>2 DEF SendWrong, Restore
    <3>3. CASE ~(SendWrong \/ Restore)
      <4>1. UNCHANGED <<ups, jumped>>
        BY <1>5, <3>3 DEF T15, T17, BeginT15, Reread, RereadRight, Report, BeginT17,
                WriteFirst, WriteSecond, WriteWake, Result, Interrupted
      <4> QED BY <4>1, Zenon
    <3> QED BY <3>2, <3>3
  <2> QED BY <2>1, <2>2, Zenon DEF CheckUnderWay
<1>6. CASE ArgondStops \/ ArgondStarts
  BY <1>6 DEF ArgondStops, ArgondStarts, CheckUnderWay
<1>7. CASE NtpSyncs \/ UNCHANGED vars
  <2>1. UNCHANGED <<check, trusted, offset_s, ups, jumped>>
    BY <1>7 DEF NtpSyncs, vars, checkVars
  <2> QED BY <2>1, Zenon DEF CheckUnderWay
<1>8. CASE DeepDischarge
  <2>1. jumped' /\ UNCHANGED <<check, trusted>>
    BY <1>8, Zenon DEF DeepDischarge, checkVars
  <2> QED BY <2>1, Zenon DEF CheckUnderWay
<1>9. CASE Tick
  <2>1. check \in {"off", "rest"} /\ check' = check
    BY <1>9 DEF Tick, checkVars
  <2> QED BY <2>1 DEF CheckUnderWay
<1> QED BY <1>1, <1>2, <1>3, <1>4, <1>5, <1>6, <1>7, <1>8, <1>9 DEF Next, Check, World

\* The record stays true when nothing is recorded and, unless it says so, no
\* clock is stepped.
LEMMA NothingRecorded ==
    ASSUME LogIsTrue, UNCHANGED <<log, now>>, synced => synced',
           ~jumped' => ~jumped /\ ups' = ups
    PROVE  LogIsTrue'
  BY DEF LogIsTrue, Stretch, PointOf

\* A line that is no correction and says what the clock says.
LEMMA SeenRecorded ==
    ASSUME ClockTypes, LogIsTrue, now' = now, NEW o \in Int,
           ~jumped' => ~jumped /\ synced' /\ ups' = ups /\ ups \in Int /\ o = ups,
           Recorded(o, None)
    PROVE  LogIsTrue'
<1> SUFFICES ASSUME ~jumped' PROVE synced' /\ ups' \in Int /\ OnTheLine(log', now', ups')
  BY DEF LogIsTrue, OnTheLine, Stretch, PointOf
<1>1. ~jumped /\ synced' /\ ups' = ups /\ ups \in Int /\ o = ups
  OBVIOUS
<1>2. OnTheLine(log, now, ups)
  <2>1. CASE log = <<>>
    BY <2>1 DEF OnTheLine, Stretch
  <2>2. CASE log # <<>>
    BY <1>1, <2>2 DEF LogIsTrue, OnTheLine
  <2> QED BY <2>1, <2>2
<1>3. None \in {None} \cup Int
  OBVIOUS
<1>4. OnTheLine(Appended(log, Entry(o, None)), now, ups)
  BY <1>1, <1>2, <1>3, RecordedIsTrue
<1>5. log' = Appended(log, Entry(o, None))
  BY DEF Recorded
<1> QED BY <1>1, <1>4, <1>5

LEMMA CorrectionRecorded ==
    ASSUME ClockTypes, UNCHANGED <<now, ups>>, NEW o \in Int, ups \in Int, synced',
           Recorded(o, ups)
    PROVE  LogIsTrue'
<1>1. ups # None /\ ups \in {None} \cup Int
  BY ClockNumbers
<1>2. OnTheLine(Appended(log, Entry(o, ups)), now, ups)
  BY <1>1, RecordedIsTrue
<1>3. log' = Appended(log, Entry(o, ups))
  BY DEF Recorded
<1>4. OnTheLine(log', now', ups')
  BY <1>2, <1>3
<1> QED BY <1>4 DEF LogIsTrue, OnTheLine, Stretch, PointOf

LEMMA OneMore ==
    ASSUME NEW d \in Int, NEW t \in Int, NEW u \in Int
    PROVE  d * ((t + 1) - u) = d * (t - u) + d
<1>1. (t + 1) - u = (t - u) + 1
  OBVIOUS
<1>2. \A x \in Int : d * (x + 1) = d * x + d
  OBVIOUS
<1>3. t - u \in Int
  OBVIOUS
<1> QED BY <1>1, <1>2, <1>3, Zenon

LEMMA LogStep ==
    ClockRecordInv /\ [Next]_vars => LogIsTrue'
<1> SUFFICES ASSUME ClockTypes, CheckInv, CheckUnderWay, LogIsTrue, [Next]_vars PROVE LogIsTrue'
  BY DEF ClockRecordInv
<1>1. CASE BeginCheck
  <2>1. UNCHANGED <<log, now, synced, jumped, ups>>
    BY <1>1 DEF BeginCheck
  <2> QED BY <2>1, NothingRecorded, Zenon
<1>2. CASE ReadClock
  <2>1. UNCHANGED <<now, ups, system, synced>>
    BY <1>2 DEF ReadClock
  <2>2. CASE UNCHANGED <<log, jumped>>
    BY <2>1, <2>2, NothingRecorded, Zenon
  <2>3. CASE ~UNCHANGED <<log, jumped>>
    <3>1. /\ Judge(ups, system, trusted) # "Implausible"
          /\ Recorded(ups - system, None)
          /\ jumped' = (jumped \/ ~synced)
      BY <1>2, <2>3 DEF ReadClock
    <3>2. ups \in Int /\ ups - system \in Int
      BY <3>1, JudgeMeans DEF ClockTypes
    <3>3. ASSUME ~jumped' PROVE ~jumped /\ synced
      BY <3>1, <3>3, Zenon
    <3>4. synced => ups - system = ups
      BY <3>2 DEF CheckInv
    <3>5. ~jumped' => ~jumped /\ synced' /\ ups' = ups /\ ups \in Int /\ ups - system = ups
      BY <2>1, <3>2, <3>3, <3>4, Zenon
    <3> QED BY <2>1, <3>1, <3>2, <3>5, SeenRecorded
  <2> QED BY <2>2, <2>3
<1>3. CASE SetClock
  <2>1. UNCHANGED <<now, system, synced>> /\ check = "set" /\ (~jumped' => ~jumped /\ ups' = ups)
    <3>1. UNCHANGED <<now, system, synced>> /\ check = "set"
      BY <1>3 DEF SetClock
    <3>2. ~jumped' => ~jumped /\ ups' = ups
      BY <1>3, Zenon DEF SetClock
    <3> QED BY <3>1, <3>2
  <2>2. log' = log \/ Recorded(offset_s, None)
    BY <1>3 DEF SetClock
  <2>3. CASE log' = log
    BY <2>1, <2>3, NothingRecorded, Zenon
  <2>4. CASE Recorded(offset_s, None)
    <3>1. synced
      BY <2>1 DEF CheckInv
    <3>2. synced'
      BY <2>1, <3>1, Zenon
    <3>3. ~jumped => ups \in Int /\ offset_s = ups
      BY <2>1 DEF CheckUnderWay
    <3>4. offset_s \in Int
      BY DEF ClockTypes
    <3> QED BY <2>1, <2>4, <3>2, <3>3, <3>4, SeenRecorded
  <2> QED BY <2>2, <2>3, <2>4
<1>4. CASE Verify
  <2>1. UNCHANGED <<now, ups, system, synced>> /\ check = "verify"
    BY <1>4 DEF Verify
  <2>2. trusted
    BY <2>1, Zenon DEF CheckUnderWay
  <2>3. synced /\ system = 0
    BY <2>2, TrustedIsTrue
  <2>4. synced'
    BY <2>1, <2>3, Zenon
  <2>5. offset_s \in Int
    BY DEF ClockTypes
  <2>6. CASE Judge(ups, system, TRUE) = "InSync" /\ Recorded(offset_s, ups - system)
    <3>1. ups \in Int
      BY <2>6, JudgeMeans
    <3>2. ups - system = ups
      BY <2>3, <3>1
    <3> QED BY <2>1, <2>4, <2>5, <2>6, <3>1, <3>2, CorrectionRecorded
  <2>7. CASE Recorded(offset_s, None) /\ jumped' = jumped
    <3>1. ~jumped => ups \in Int /\ offset_s = ups
      BY <2>1 DEF CheckUnderWay
    <3>2. ~jumped' => ~jumped
      BY <2>7, Zenon
    <3> QED BY <2>1, <2>4, <2>5, <2>7, <3>1, <3>2, SeenRecorded
  <2> QED BY <1>4, <2>6, <2>7 DEF Verify
<1>5. CASE T15 \/ T17 \/ Interrupted
  <2>1. UNCHANGED <<log, now, synced>>
    BY <1>5 DEF T15, T17, BeginT15, SendWrong, Reread, Restore, RereadRight, Report, BeginT17,
                WriteFirst, WriteSecond, WriteWake, Result, Interrupted, Unsettled, checkVars
  <2>2. ~jumped' => ~jumped /\ ups' = ups
    <3>1. ASSUME NEW t, NEW a, NEW b, Sent(t, a, b) PROVE ~jumped' => ~jumped /\ ups' = ups
      BY <3>1, Zenon DEF Sent
    <3>2. CASE SendWrong \/ Restore
      BY <3>1, <3>2 DEF SendWrong, Restore
    <3>3. CASE ~(SendWrong \/ Restore)
      <4>1. UNCHANGED <<ups, jumped>>
        BY <1>5, <3>3 DEF T15, T17, BeginT15, Reread, RereadRight, Report, BeginT17,
                WriteFirst, WriteSecond, WriteWake, Result, Interrupted
      <4> QED BY <4>1, Zenon
    <3> QED BY <3>2, <3>3
  <2> QED BY <2>1, <2>2, NothingRecorded, Zenon
<1>6. CASE ArgondStops \/ ArgondStarts \/ NtpSyncs \/ UNCHANGED vars
  <2>1. UNCHANGED <<log, now, jumped, ups>>
    BY <1>6 DEF ArgondStops, ArgondStarts, NtpSyncs, vars
  <2>2. synced => synced'
    <3>1. synced' = TRUE \/ synced' = synced
      BY <1>6 DEF ArgondStops, ArgondStarts, NtpSyncs, vars
    <3> QED BY <3>1, Zenon
  <2> QED BY <2>1, <2>2, NothingRecorded, Zenon
<1>7. CASE DeepDischarge
  <2>1. jumped'
    BY <1>7, Zenon DEF DeepDischarge
  <2> QED BY <2>1, Zenon DEF LogIsTrue
<1>8. CASE Tick
  <2>1. UNCHANGED <<log, jumped, synced>> /\ now' = now + 1
        /\ ups' = IF ups = Implausible THEN ups ELSE ups + Drift
    BY <1>8 DEF Tick
  <2> SUFFICES ASSUME ~jumped', log' # <<>>
               PROVE  synced' /\ ups' \in Int /\ OnTheLine(log', now', ups')
    BY DEF LogIsTrue, OnTheLine, Stretch, PointOf
  <2>2. ~jumped /\ log # <<>>
    BY <2>1, Zenon
  <2>3. synced /\ ups \in Int /\ OnTheLine(log, now, ups)
    BY <2>2 DEF LogIsTrue, OnTheLine
  <2>4. ups' = ups + Drift /\ Drift \in Int /\ now \in Int
    BY <2>1, <2>3, ClockNumbers DEF ClockTypes
  <2>5. ASSUME NEW i \in Stretch(log)
        PROVE  PointOf(log[i]) + Drift * ((now + 1) - log[i].unix) = ups + Drift
    <3>1. log[i] \in Lines
      BY DEF ClockTypes, Stretch
    <3>2. log[i].unix \in Int /\ PointOf(log[i]) \in Int
      BY <3>1 DEF Lines, PointOf
    <3> DEFINE X == Drift * (now - log[i].unix)
               Y == Drift * ((now + 1) - log[i].unix)
    <3>3. PointOf(log[i]) + X = ups
      BY <2>3 DEF OnTheLine
    <3>4. Y = X + Drift
      BY <2>4, <3>2, OneMore, Zenon
    <3>6. X \in Int
      BY <2>4, <3>2
    <3> HIDE DEF X, Y
    <3>5. PointOf(log[i]) + Y = ups + Drift
      BY <2>3, <2>4, <3>2, <3>3, <3>4, <3>6
    <3> QED BY <3>5 DEF Y
  <2>6. OnTheLine(log, now + 1, ups + Drift)
    BY <2>5, Zenon DEF OnTheLine
  <2>8. OnTheLine(log', now', ups')
    BY <2>1, <2>4, <2>6
  <2>7. synced'
    BY <2>1, <2>3, Zenon
  <2> QED BY <2>3, <2>4, <2>7, <2>8
<1> QED BY <1>1, <1>2, <1>3, <1>4, <1>5, <1>6, <1>7, <1>8 DEF Next, Check, World

\* A stretch has a first line.
LEMMA StretchHasAFirst ==
    ASSUME NEW entries \in Seq(Lines), entries # <<>>
    PROVE  /\ Len(entries) \in Stretch(entries)
           /\ \E i \in Stretch(entries) : \A j \in Stretch(entries) : i <= j
<1> DEFINE R == OpToRel(<, Nat)
<1>1. Stretch(entries) \subseteq Nat /\ Len(entries) \in Nat /\ DOMAIN entries = 1 .. Len(entries)
  BY DEF Stretch
<1>2. Len(entries) \in Stretch(entries)
  BY <1>1 DEF Stretch
<1>3. \E n \in Stretch(entries) : \A m \in Stretch(entries) : ~ (<<m, n>> \in R)
  <2>1. IsWellFoundedOn(R, Nat)
    BY NatLessThanWellFounded
  <2> HIDE DEF R
  <2> QED BY <1>1, <1>2, <2>1, WFMin
<1>4. PICK n \in Stretch(entries) : \A m \in Stretch(entries) : ~ (m < n)
  BY <1>1, <1>3 DEF OpToRel
<1>5. \A m \in Stretch(entries) : n <= m
  BY <1>1, <1>4
<1> QED BY <1>2, <1>5

LEMMA TimesDifference ==
    ASSUME NEW d \in Int, NEW a \in Int, NEW b \in Int
    PROVE  d * (a - b) = d * a - d * b
OBVIOUS

LEMMA TrueRecordTrueRate == ClockTypes /\ LogIsTrue => RateIsDrift
<1> SUFFICES ASSUME ClockTypes, LogIsTrue, Rate(log) # None, ~jumped
             PROVE  Rate(log)[1] = Drift * Rate(log)[2]
  BY DEF RateIsDrift
<1> DEFINE start == CHOOSE i \in Stretch(log) : \A j \in Stretch(log) : i <= j
           end == Len(log)
<1>1. log \in Seq(Lines) /\ log # <<>> /\ now \in Int /\ Drift \in Int
  BY ClockNumbers DEF ClockTypes, Rate
<1>2. start \in Stretch(log) /\ end \in Stretch(log)
  BY <1>1, StretchHasAFirst
<1>3. Rate(log) = <<PointOf(log[end]) - PointOf(log[start]), log[end].unix - log[start].unix>>
  BY <1>1 DEF Rate, Last
<1> HIDE DEF start, end
<1>4. /\ log[start] \in Lines /\ log[end] \in Lines
  BY <1>1, <1>2 DEF Stretch
<1>5. /\ log[start].unix \in Int /\ PointOf(log[start]) \in Int
      /\ log[end].unix \in Int /\ PointOf(log[end]) \in Int
  BY <1>4 DEF Lines, PointOf
<1>6. /\ ups \in Int
      /\ PointOf(log[start]) + Drift * (now - log[start].unix) = ups
      /\ PointOf(log[end]) + Drift * (now - log[end].unix) = ups
  BY <1>1, <1>2 DEF LogIsTrue
<1>7. /\ Drift * (now - log[start].unix) = Drift * now - Drift * log[start].unix
      /\ Drift * (now - log[end].unix) = Drift * now - Drift * log[end].unix
      /\ Drift * (log[end].unix - log[start].unix) = Drift * log[end].unix - Drift * log[start].unix
  BY <1>1, <1>5, TimesDifference
<1>8. Drift * now \in Int /\ Drift * log[start].unix \in Int /\ Drift * log[end].unix \in Int
  BY <1>1, <1>5
<1>9. PointOf(log[end]) - PointOf(log[start]) = Drift * (log[end].unix - log[start].unix)
  BY <1>5, <1>6, <1>7, <1>8
<1> QED BY <1>3, <1>9

\* The rate on record is the drift of the clock, for every drift, threshold and
\* length of the record: a correction that was confirmed begins a stretch, and
\* one that was not leaves a mark (check_clock, drift.rs).
THEOREM RateIsDriftAlways == Spec => []RateIsDrift
<1>1. Init => ClockRecordInv
  BY ClockTypesInit, InitCheck, RecordInit DEF ClockRecordInv
<1>2. ClockRecordInv /\ [Next]_vars => ClockRecordInv'
  BY ClockTypesStep, StepCheck, UnderWayStep, LogStep DEF ClockRecordInv
<1>3. ClockRecordInv => RateIsDrift
  BY TrueRecordTrueRate DEF ClockRecordInv
<1> QED BY <1>1, <1>2, <1>3, PTL DEF Spec

LEMMA ToldInit == Init => Told
<1> SUFFICES ASSUME Init PROVE Told
  OBVIOUS
<1>1. experiment = "none" /\ wake = None
  BY DEF Init
<1>2. ~confirmed /\ ~first
  BY Zenon DEF Init
<1> QED BY <1>1, <1>2 DEF Told

ExperimentSteps == T15 \/ T17 \/ Interrupted

\* What the clock says while it has been read back as wrong is not right.
LEMMA WrongIsNotRight ==
    ASSUME ClockTypes, ups # Implausible, Abs(ups - (0 - Wrong)) <= Threshold
    PROVE  Abs(ups) > Threshold
<1>1. ups \in Int
  BY DEF ClockTypes
<1> QED BY <1>1, ClockNumbers DEF Abs

LEMMA ToldStep == ClockTypes /\ CheckInv /\ Told /\ [Next]_vars => Told'
<1> SUFFICES ASSUME ClockTypes, CheckInv, Told, [Next]_vars PROVE Told'
  OBVIOUS
<1>0. obeys' = obeys
  BY DEF Next, Check, T15, T17, World, BeginCheck, ReadClock, SetClock, Verify, BeginT15, SendWrong, Reread,
         Restore, RereadRight, Report, BeginT17, WriteFirst, WriteSecond, WriteWake, Result, Interrupted,
         Unsettled, ArgondStops, ArgondStarts, NtpSyncs, DeepDischarge, Tick, vars
<1>1. CASE Check
  <2>1. UNCHANGED <<synced, experiment, confirmed, restored, wake, first>> /\ check # "off" /\ check' # "off"
    BY <1>1 DEF Check, BeginCheck, ReadClock, SetClock, Verify, EndCheck, toolVars
  <2>2. experiment = "none"
    BY <2>1 DEF Told
  <2>3. ~confirmed /\ (~obeys => wake = None) /\ (first => obeys)
    BY <2>2, Zenon DEF Told
  <2>4. ~confirmed' /\ (~obeys' => wake' = None) /\ (first' => obeys')
    BY <1>0, <2>1, <2>3, Zenon
  <2> QED BY <2>1, <2>2, <2>4 DEF Told
<1>2. CASE World
  <2>1. UNCHANGED <<experiment, confirmed, wake, first>> /\ (synced => synced')
    <3>1. UNCHANGED <<experiment, confirmed, wake, first>> /\ synced' \in {TRUE, synced}
      BY <1>2 DEF World, ArgondStops, ArgondStarts, NtpSyncs, DeepDischarge, Tick, toolVars
    <3>2. synced => synced'
      <4>1. synced' = TRUE \/ synced' = synced
        BY <3>1
      <4> QED BY <4>1, Zenon
    <3> QED BY <3>1, <3>2
  <2>2. experiment # "none" => check' = "off"
    BY <1>2 DEF World, ArgondStops, ArgondStarts, NtpSyncs, DeepDischarge, Tick, checkVars, Told
  <2>3. (~obeys' => wake' = None) /\ (first' => obeys')
    BY <1>0, <2>1, Zenon DEF Told
  <2>4. experiment' \in {"wrong", "reread", "none"} => ~confirmed'
    <3>1. experiment \in {"wrong", "reread", "none"} => ~confirmed
      BY DEF Told
    <3> QED BY <2>1, <3>1, Zenon
  <2>5. ASSUME experiment' \in {"restore", "rereadRight"}, confirmed', ~obeys'
        PROVE  ups' = Implausible \/ Abs(ups') > Threshold
    <3>1. experiment \in {"restore", "rereadRight"} /\ confirmed /\ ~obeys
      BY <1>0, <2>1, <2>5, Zenon
    <3>2. ups = Implausible \/ Abs(ups) > Threshold
      BY <3>1 DEF Told
    <3>3. ups' = ups \/ ups' = Implausible \/ ups' = -2 * Wrong
      BY <1>2, <3>1 DEF World, ArgondStops, ArgondStarts, NtpSyncs, DeepDischarge, Tick
    <3>4. Abs(-2 * Wrong) > Threshold
      BY ClockNumbers DEF Abs
    <3> QED BY <3>2, <3>3, <3>4
  <2>6. experiment' \in {"wrong", "reread", "restore", "rereadRight", "report"} => synced'
    BY <2>1 DEF Told
  <2> QED BY <2>1, <2>2, <2>3, <2>4, <2>5, <2>6 DEF Told
<1>3. CASE ExperimentSteps
  <2>0. UNCHANGED <<synced, system, check>>
    BY <1>3 DEF ExperimentSteps, T15, T17, BeginT15, SendWrong, Reread, Restore, RereadRight, Report, BeginT17,
                WriteFirst, WriteSecond, WriteWake, Result, Interrupted, Unsettled, checkVars
  <2>1. check = "off" /\ check' = "off"
    <3>1. check = "off"
      BY <1>3 DEF ExperimentSteps, T15, T17, BeginT15, SendWrong, Reread, Restore, RereadRight, Report,
                BeginT17, WriteFirst, WriteSecond, WriteWake, Result, Interrupted, Told
    <3> QED BY <2>0, <3>1
  <2>2. ~obeys' => wake' = None
    <3>1. ASSUME ~obeys' PROVE wake' = None
      <4>1. ~obeys
        BY <1>0, <3>1, Zenon
      <4>2. wake = None
        BY <4>1 DEF Told
      <4>3. wake' = wake
        BY <1>3, <4>1 DEF ExperimentSteps, T15, T17, BeginT15, SendWrong, Reread, Restore, RereadRight, Report,
                BeginT17, WriteFirst, WriteSecond, WriteWake, Result, Interrupted
      <4> QED BY <4>2, <4>3
    <3> QED BY <3>1
  <2>3. first' => obeys'
    <3>1. ASSUME WriteFirst, first' PROVE obeys'
      <4>1. wake' = 1
        BY <3>1, Zenon DEF WriteFirst, WriteWake
      <4>2. wake' # None
        BY <4>1, ClockNumbers
      <4> QED BY <2>2, <4>2
    <3>2. ASSUME ~WriteFirst, first' PROVE obeys'
      <4>1. (first' <=> first) \/ ~first'
        <5>1. CASE Report \/ Result \/ Interrupted
          BY <5>1, Zenon DEF Report, Result, Interrupted, Over
        <5>2. CASE ~(Report \/ Result \/ Interrupted)
          <6>1. first' = first
            BY <1>3, <3>2, <5>2 DEF ExperimentSteps, T15, T17, BeginT15, SendWrong, Reread, Restore, RereadRight,
                BeginT17, WriteSecond
          <6> QED BY <6>1, Zenon
        <5> QED BY <5>1, <5>2
      <4> QED BY <1>0, <3>2, <4>1, Zenon DEF Told
    <3> QED BY <3>1, <3>2
  <2>5. CASE BeginT15 \/ BeginT17
    <3>1. experiment' \in {"wrong", "first"} /\ UNCHANGED confirmed /\ experiment = "none"
          /\ (experiment' = "wrong" => synced)
      BY <2>0, <2>5 DEF BeginT15, BeginT17
    <3>2. ~confirmed'
      <4>1. ~confirmed
        BY <3>1 DEF Told
      <4> QED BY <3>1, <4>1, Zenon
    <3>3. experiment' = "wrong" => synced'
      BY <2>0, <3>1, Zenon
    <3> QED BY <2>1, <2>2, <2>3, <3>1, <3>2, <3>3 DEF Told
  <2>6. CASE SendWrong
    <3>1. experiment = "wrong" /\ experiment' \in {"reread", "restore"} /\ UNCHANGED confirmed
      BY <2>6 DEF SendWrong, Sent
    <3>2. ~confirmed /\ synced
      BY <3>1 DEF Told
    <3>3. ~confirmed' /\ synced'
      BY <2>0, <3>1, <3>2, Zenon
    <3> QED BY <2>1, <2>2, <2>3, <3>1, <3>3 DEF Told
  <2>7. CASE Reread
    <3>1. experiment = "reread" /\ experiment' = "restore" /\ ups' = ups
          /\ ReadsBack(system - Wrong, confirmed)
      BY <2>7 DEF Reread
    <3>2. synced /\ system = 0
      BY <3>1 DEF Told, CheckInv
    <3>3. ASSUME confirmed' PROVE ups' = Implausible \/ Abs(ups') > Threshold
      <4>1. ups # Implausible /\ Abs(ups - (system - Wrong)) <= Threshold
        BY <2>7, <3>3, Zenon DEF Reread, ReadsBack
      <4>2. Abs(ups) > Threshold
        BY <3>2, <4>1, WrongIsNotRight
      <4> QED BY <3>1, <4>2
    <3>4. synced'
      BY <2>0, <3>2, Zenon
    <3> QED BY <2>1, <2>2, <2>3, <3>1, <3>3, <3>4 DEF Told
  <2>8. CASE Restore
    <3>1. experiment = "restore" /\ experiment' \in {"rereadRight", "report"} /\ UNCHANGED confirmed
          /\ (~obeys => ups' = ups)
      BY <2>8 DEF Restore, Sent
    <3>2. synced'
      <4>1. synced
        BY <3>1 DEF Told
      <4> QED BY <2>0, <4>1, Zenon
    <3>3. ASSUME confirmed', ~obeys' PROVE ups' = Implausible \/ Abs(ups') > Threshold
      <4>1. confirmed /\ ~obeys
        BY <1>0, <3>1, <3>3, Zenon
      <4>2. ups' = ups
        BY <3>1, <4>1
      <4> QED BY <3>1, <4>1, <4>2 DEF Told
    <3> QED BY <2>1, <2>2, <2>3, <3>1, <3>2, <3>3 DEF Told
  <2>9. CASE RereadRight
    <3>1. experiment = "rereadRight" /\ experiment' = "report"
      BY <2>9 DEF RereadRight
    <3>2. synced'
      <4>1. synced
        BY <3>1 DEF Told
      <4> QED BY <2>0, <4>1, Zenon
    <3> QED BY <2>1, <2>2, <2>3, <3>1, <3>2 DEF Told
  <2>10. CASE Report \/ Result \/ Interrupted
    <3>1. experiment' = "none"
      BY <2>10 DEF Report, Result, Interrupted, Over
    <3>2. ~confirmed'
      BY <2>10, Zenon DEF Report, Result, Interrupted, Over
    <3> QED BY <2>1, <2>2, <2>3, <3>1, <3>2 DEF Told
  <2>11. CASE WriteFirst \/ WriteSecond
    <3>1. experiment' \in {"second", "result"}
      BY <2>11 DEF WriteFirst, WriteSecond
    <3> QED BY <2>1, <2>2, <2>3, <3>1 DEF Told
  <2> QED BY <1>3, <2>5, <2>6, <2>7, <2>8, <2>9, <2>10, <2>11 DEF ExperimentSteps, T15, T17
<1>4. CASE UNCHANGED vars
  <2>1. UNCHANGED <<experiment, check, synced, confirmed, obeys, ups, wake, first>>
    BY <1>4 DEF vars, checkVars, toolVars
  <2> QED BY <2>1, Zenon DEF Told
<1> QED BY <1>1, <1>2, <1>3, <1>4 DEF Next, ExperimentSteps

\* An experiment that says it went well leaves the clock right, and one that
\* confirms a write had a device that stores it, whatever is lost and whenever
\* the UPS discharges: the wrong time is far enough from the right one that no
\* clock is both (t15, T15_OFFSET_S, TOLERANCE_S; t17).
THEOREM ExperimentsTellAlways == Spec => ExperimentsTell
<1>1. ClockTypes /\ CheckInv /\ Told /\ [Next]_vars =>
        [/\ RereadRight /\ confirmed /\ restored' => obeys /\ Abs(ups) <= Threshold
         /\ Result /\ first /\ confirmed => obeys]_vars
  <2> SUFFICES ASSUME ClockTypes, CheckInv, Told, [Next]_vars
               PROVE  /\ RereadRight /\ confirmed /\ restored' => obeys /\ Abs(ups) <= Threshold
                      /\ Result /\ first /\ confirmed => obeys
    OBVIOUS
  <2>1. ASSUME RereadRight, confirmed, restored' PROVE obeys /\ Abs(ups) <= Threshold
    <3>1. ups # Implausible /\ Abs(ups - system) <= Threshold
      BY <2>1, Zenon DEF RereadRight, ReadsBack
    <3>2. experiment = "rereadRight"
      BY <2>1 DEF RereadRight
    <3>3. system = 0 /\ ups \in Int
      BY <3>1, <3>2 DEF Told, CheckInv, ClockTypes
    <3>4. Abs(ups) <= Threshold /\ Abs(ups) \in Int
      BY <3>1, <3>3 DEF Abs
    <3>5. ~(Abs(ups) > Threshold)
      BY <3>4, ClockNumbers
    <3>6. obeys
      BY <2>1, <3>1, <3>2, <3>5 DEF Told
    <3> QED BY <3>4, <3>6
  <2>2. ASSUME Result, first, confirmed PROVE obeys
    BY <2>2 DEF Told
  <2> QED BY <2>1, <2>2
<1> QED BY <1>1, ClockTypesInit, ClockTypesStep, InitCheck, StepCheck, ToldInit, ToldStep, PTL
     DEF Spec, ExperimentsTell

-----------------------------------------------------------------------------
(* The fuel gauge. *)

LEMMA GaugeNumbers ==
    /\ soc \in Socs => soc \in 0..255
    /\ current \in Currents => current \in Int
    /\ GaugeCritical \in Int /\ 0 <= GaugeCritical /\ GaugeCritical <= 99
    /\ GaugeConfirmations \in Int /\ 0 < GaugeConfirmations
    /\ GaugeMaxStreak \in Int /\ GaugeConfirmations <= GaugeMaxStreak
<1>1. soc \in Socs => soc \in 0..255
  BY GaugeAssumption
<1>2. current \in Currents => current \in Int
  BY GaugeAssumption
<1>3. GaugeCritical \in Int /\ 0 <= GaugeCritical /\ GaugeCritical <= 99
  BY GaugeAssumption
<1>4. GaugeConfirmations \in Int /\ 0 < GaugeConfirmations
  BY GaugeAssumption
<1>5. GaugeMaxStreak \in Int /\ GaugeConfirmations <= GaugeMaxStreak
  BY GaugeAssumption
<1> QED BY <1>1, <1>2, <1>3, <1>4, <1>5

GaugeTypes ==
    /\ soc \in Socs /\ current \in Currents /\ gauge \in {"none", "open", "polled"}
    /\ gauge_failures \in Nat /\ drained \in -1..GaugeConfirmations
    /\ gauge_policy.critical_streak \in 0..GaugeMaxStreak

\* The streak of the policy is at least the history's: it outlives a blip of
\* mains, which the history does not. A gauge is only closed on a failure,
\* which advises nothing: a new one, with a new history, inherits no advice.
GaugeInv ==
    /\ GaugeTypes
    /\ drained <= gauge_policy.critical_streak
    /\ gauge = "none" => gauge_advice.advice = "None"
    /\ DrainIsSeen

LEMMA NewGauge ==
    /\ GP!NewPolicy.critical_streak = 0
    /\ \A u : GP!DecisionOn(GP!NewPolicy, u).advice = "None"
BY DEF GP!NewPolicy, GP!DecisionOn

LEMMA InitGauge == GaugeInit => GaugeInv
BY NewGauge, GaugeNumbers DEF GaugeInit, GaugeInv, GaugeTypes, DrainIsSeen

\* What is advised is advised on a confirmed level, and only there.
LEMMA AdviceOfGauge ==
    ASSUME NEW p, NEW u
    PROVE  /\ p.reported = "Critical" => GP!DecisionOn(p, u).advice \in {"Shutdown", "HeldForUptime"}
           /\ p.reported # "Critical" => GP!DecisionOn(p, u).advice = "None"
BY DEF GP!DecisionOn

\* A failure, and a battery that does not drain, are no critical level, and a
\* draining battery at its end adds to the streak until it is one.
LEMMA ReadingOfGauge ==
    ASSUME NEW p, p.critical_streak \in 0..GaugeMaxStreak,
           soc \in Socs, current \in Currents
    PROVE  /\ GP!Observed(p, GP!Gap).reported # "Critical"
           /\ GP!Observed(p, GP!Gap).critical_streak \in 0..GaugeMaxStreak
           /\ GP!Observed(p, ReadNow).critical_streak \in 0..GaugeMaxStreak
           /\ ReadNow # GP!Gap
           /\ current > -FLOW_THRESHOLD => GP!Observed(p, ReadNow).reported # "Critical"
           /\ current <= -FLOW_THRESHOLD /\ soc <= GaugeCritical =>
                /\ GP!Observed(p, ReadNow).critical_streak =
                     IF p.critical_streak < GaugeMaxStreak THEN p.critical_streak + 1 ELSE GaugeMaxStreak
                /\ GP!Observed(p, ReadNow).critical_streak >= GaugeConfirmations =>
                     GP!Observed(p, ReadNow).reported = "Critical"
<1> DEFINE Drains == current <= -FLOW_THRESHOLD
<1>1. /\ GP!Gap.source = "none"
      /\ ReadNow.source = IF Drains THEN "battery" ELSE "mains"
      /\ ReadNow.percent = IF soc > 100 THEN 100 ELSE soc
  BY GaugeNumbers DEF GP!Gap, ReadNow, PowerSource, Flow, WholePercent, FLOW_THRESHOLD
<1>2. \A o : /\ GP!Observed(p, o).reported = GP!ReportedLevel(p, o)
             /\ GP!Observed(p, o).critical_streak = GP!CriticalStreak(p, o)
  BY DEF GP!Observed
<1>3. \A o : GP!CriticalStreak(p, o) \in 0..GaugeMaxStreak
  BY GaugeNumbers DEF GP!CriticalStreak, GP!Bump
<1>4. \A o : o.source # "battery" => GP!ReportedLevel(p, o) # "Critical"
  BY DEF GP!ReportedLevel, GP!IsMains, GP!IsBattery
<1>5. Drains /\ soc <= GaugeCritical => GP!IsCritical(ReadNow)
  BY <1>1, GaugeNumbers DEF GP!IsCritical, GP!IsBattery, GP!Percent
<1>6. GP!IsCritical(ReadNow) =>
        GP!CriticalStreak(p, ReadNow) =
          IF p.critical_streak < GaugeMaxStreak THEN p.critical_streak + 1 ELSE GaugeMaxStreak
  BY DEF GP!CriticalStreak, GP!Bump
<1>7. GP!IsCritical(ReadNow) /\ GP!CriticalStreak(p, ReadNow) >= GaugeConfirmations =>
        GP!ReportedLevel(p, ReadNow) = "Critical"
  BY DEF GP!ReportedLevel, GP!BatteryLevel, GP!StaysOrTurnsCritical, GP!IsCritical, GP!IsBattery, GP!IsMains
<1>8. current > -FLOW_THRESHOLD => ~Drains
  BY GaugeNumbers DEF FLOW_THRESHOLD
<1> HIDE DEF Drains
<1>9. ReadNow # GP!Gap
  BY <1>1
<1> QED BY <1>1, <1>2, <1>3, <1>4, <1>5, <1>6, <1>7, <1>8, <1>9 DEF Drains

LEMMA StepGauge == GaugeInv /\ [GaugeNext]_gaugeVars => GaugeInv'
<1> SUFFICES ASSUME GaugeInv, [GaugeNext]_gaugeVars PROVE GaugeInv' OBVIOUS
<1> USE DEF GaugeInv, GaugeTypes
<1>1. CASE OpenGauge
  BY <1>1, NewGauge, GaugeNumbers DEF OpenGauge, DrainIsSeen, registers
<1>2. CASE PollGauge
  <2>1. PICK reading \in {ReadNow, GP!Gap} :
          /\ Read(reading)
          /\ gauge_policy' = GP!Observed(gauge_policy, reading)
          /\ gauge_advice' = GP!DecisionOn(gauge_policy', up)
          /\ gauge_failures' = IF reading = GP!Gap THEN gauge_failures + 1 ELSE 0
          /\ drained' = Drained(reading)
    BY <1>2 DEF PollGauge
  <2>2. /\ gauge' = IF gauge_failures' >= REOPEN_AFTER THEN "none" ELSE "polled"
        /\ soc' = soc /\ current' = current
    BY <1>2 DEF PollGauge, registers
  <2>3. gauge_failures' \in Nat
    BY <2>1
  <2>4. reading = GP!Gap =>
          /\ drained' = -1 /\ gauge_policy'.critical_streak \in 0..GaugeMaxStreak
          /\ gauge_advice'.advice = "None"
    BY <2>1, ReadingOfGauge, AdviceOfGauge DEF Drained
  <2>5. reading = ReadNow =>
          /\ gauge' = "polled" /\ gauge_policy'.critical_streak \in 0..GaugeMaxStreak
          /\ current > -FLOW_THRESHOLD => drained' = -1 /\ gauge_advice'.advice = "None"
    BY <2>1, <2>2, ReadingOfGauge, AdviceOfGauge DEF Drained, REOPEN_AFTER
  <2>6. reading = ReadNow /\ ~(current > -FLOW_THRESHOLD) =>
          /\ drained' \in 0..GaugeConfirmations /\ drained' <= gauge_policy'.critical_streak
          /\ drained' >= GaugeConfirmations => gauge_advice'.advice \in {"Shutdown", "HeldForUptime"}
    <3> SUFFICES ASSUME reading = ReadNow, ~(current > -FLOW_THRESHOLD)
                 PROVE  /\ drained' \in 0..GaugeConfirmations /\ drained' <= gauge_policy'.critical_streak
                        /\ drained' >= GaugeConfirmations => gauge_advice'.advice \in {"Shutdown", "HeldForUptime"}
      OBVIOUS
    <3>1. current <= -FLOW_THRESHOLD
      BY GaugeNumbers DEF FLOW_THRESHOLD
    <3>2. drained' = IF soc > GaugeCritical THEN 0
                     ELSE IF drained < GaugeConfirmations THEN (IF drained < 0 THEN 0 ELSE drained) + 1
                     ELSE drained
      BY <2>1, ReadingOfGauge DEF Drained
    <3>3. CASE soc > GaugeCritical
      BY <3>2, <3>3, <2>5, GaugeNumbers
    <3>4. CASE ~(soc > GaugeCritical)
      <4>1. soc <= GaugeCritical
        BY <3>4, GaugeNumbers
      <4>2. /\ gauge_policy'.critical_streak =
                 IF gauge_policy.critical_streak < GaugeMaxStreak
                 THEN gauge_policy.critical_streak + 1 ELSE GaugeMaxStreak
            /\ gauge_policy'.critical_streak >= GaugeConfirmations => gauge_policy'.reported = "Critical"
        BY <3>1, <4>1, <2>1, ReadingOfGauge
      <4>3. drained' \in 0..GaugeConfirmations /\ drained' <= gauge_policy'.critical_streak
        BY <3>2, <3>4, <4>2, GaugeNumbers
      <4>4. drained' >= GaugeConfirmations => gauge_policy'.reported = "Critical"
        BY <4>2, <4>3, <2>5, GaugeNumbers
      <4> QED BY <4>3, <4>4, <2>1, AdviceOfGauge
    <3> QED BY <3>3, <3>4
  <2>7. reading = GP!Gap => GaugeInv'
    BY <2>2, <2>3, <2>4, GaugeNumbers DEF DrainIsSeen
  <2>8. reading = ReadNow => GaugeInv'
    <3> SUFFICES ASSUME reading = ReadNow PROVE GaugeInv' OBVIOUS
    <3>1. CASE current > -FLOW_THRESHOLD
      BY <3>1, <2>2, <2>3, <2>5, GaugeNumbers DEF DrainIsSeen
    <3>2. CASE ~(current > -FLOW_THRESHOLD)
      BY <3>2, <2>2, <2>3, <2>5, <2>6, GaugeNumbers DEF DrainIsSeen
    <3> QED BY <3>1, <3>2
  <2> QED BY <2>1, <2>7, <2>8
<1>3. CASE RefuseRequests
  BY <1>3 DEF RefuseRequests, DrainIsSeen, registers, gaugeWatch
<1>4. CASE SupplyChanges
  BY <1>4 DEF SupplyChanges, DrainIsSeen, gaugeWatch
<1>5. CASE ChipChanges
  BY <1>5 DEF ChipChanges, DrainIsSeen, gaugeWatch
<1>6. CASE UptimeGrows
  BY <1>6 DEF UptimeGrows, DrainIsSeen, registers, gaugeWatch
<1>7. CASE WakeAsked
  BY <1>7 DEF WakeAsked, DrainIsSeen, registers, gaugeWatch
<1>8. CASE GaugeRestarts
  BY <1>8, NewGauge, GaugeNumbers DEF GaugeRestarts, DrainIsSeen, registers
<1>9. CASE UNCHANGED gaugeVars
  BY <1>9 DEF gaugeVars, DrainIsSeen, registers, gaugeWatch
<1> QED BY <1>1, <1>2, <1>3, <1>4, <1>5, <1>6, <1>7, <1>8, <1>9 DEF GaugeNext

\* The fuel gauge advises a shutdown after as many readings in a row of a
\* draining battery at its end as the policy asks for, with the charger plugged
\* in or out, and never on a reading that is not of one, whatever the readings,
\* failures, reopenings and restarts before.
THEOREM DrainIsSeenAlways == GaugeSpec => []DrainIsSeen
<1>1. GaugeInv => DrainIsSeen
  BY DEF GaugeInv
<1> QED BY <1>1, InitGauge, StepGauge, PTL DEF GaugeSpec

-----------------------------------------------------------------------------
(* The start of argond. *)

\* What drives the fan has an MCU and a mode that lets it.
StartInv == "fan" \in may => at = "drives" /\ AllowsWrites(mode) /\ plan = "Mcu"

Ours(what) ==
    /\ what = "panel" => AllowsWrites(file.mode)
    /\ what \notin {"panel", "port"} => file.mode = "full"
    /\ Rivals(what) \cap running \subseteq unseen'

LEMMA InitStart == StartInit => StartInv
  BY DEF StartInit, StartInv

\* What a step adds to what the daemon may touch is its own to touch.
LEMMA AddedIsOurs ==
    ASSUME StartNext, NEW what \in may', what \notin may, what # "fan" PROVE Ours(what)
<1>0. \A unknown, silent : running \subseteq ActiveVendorUnits(unknown, silent) \cup silent
  BY DEF ActiveVendorUnits
<1>1. CASE StartBattery
  <2>1. PICK unknown \in SUBSET Vendors, silent \in SUBSET running :
          /\ unseen' = silent
          /\ IF file.source = "oneup" THEN SpawnGauge(ActiveVendorUnits(unknown, silent))
             ELSE SpawnUps(ActiveVendorUnits(unknown, silent))
    BY <1>1 DEF StartBattery, Ask
  <2> DEFINE active == ActiveVendorUnits(unknown, silent)
  <2>2. running \subseteq active \cup unseen'
    BY <1>0, <2>1
  <2>3. CASE file.source = "oneup"
    <3>1. SpawnGauge(active)
      BY <2>1, <2>3
    <3> HIDE DEF active
    <3>2. what = "poweroff" /\ file.mode = "full" /\ OneupRivals \cap active = {}
      BY <3>1 DEF SpawnGauge
    <3> QED BY <2>2, <2>3, <3>2 DEF Ours, Rivals
  <2>4. CASE file.source # "oneup"
    <3>1. SpawnUps(active)
      BY <2>1, <2>4
    <3> HIDE DEF active
    <3>2. watched' => "argonupsrtcd" \notin active
      BY <3>1, Zenon DEF SpawnUps
    <3>3. /\ watched' /\ what \in {"port", "wake", "clock", "poweroff"}
          /\ what # "port" => file.mode = "full"
          /\ what = "poweroff" => UpsRivals \cap active = {}
      BY <3>1 DEF SpawnUps
    <3> QED BY <2>2, <2>4, <3>2, <3>3 DEF Ours, Rivals
  <2> QED BY <2>3, <2>4
<1>2. CASE StartOled
  <2>1. PICK unknown \in SUBSET Vendors, silent \in SUBSET running :
          /\ unseen' = silent
          /\ what = "panel" /\ AllowsWrites(file.mode)
          /\ "argononed" \notin ActiveVendorUnits(unknown, silent)
    BY <1>2 DEF StartOled, Ask
  <2> QED BY <1>0, <2>1 DEF Ours, Rivals
<1>3. CASE StartButton
  <2>1. what = "button" /\ file.mode = "full" /\ "argononed" \notin running
    BY <1>3 DEF StartButton
  <2> QED BY <2>1 DEF Ours, Rivals
<1>4. CASE LoadConfig \/ FindFan \/ AnnounceMode \/ VendorMoves
  BY <1>4 DEF LoadConfig, FindFan, AnnounceMode, VendorMoves
<1>5. CASE StartFan
  BY <1>5 DEF StartFan
<1> QED BY <1>1, <1>2, <1>3, <1>4, <1>5 DEF StartNext, Run

LEMMA StepStart == StartInv /\ [StartNext]_startVars => StartInv'
<1> SUFFICES ASSUME StartInv, [StartNext]_startVars PROVE StartInv'
  OBVIOUS
<1>1. CASE LoadConfig \/ FindFan \/ AnnounceMode
  BY <1>1 DEF LoadConfig, FindFan, AnnounceMode, StartInv
<1>2. CASE StartBattery
  <2>1. "fan" \in may' => "fan" \in may
    BY <1>2 DEF StartBattery, SpawnGauge, SpawnUps
  <2> QED BY <1>2, <2>1 DEF StartBattery, StartInv
<1>3. CASE StartOled \/ StartButton
  BY <1>3 DEF StartOled, StartButton, StartInv
<1>4. CASE StartFan
  BY <1>4 DEF StartFan, Then, StartInv
<1>5. CASE VendorMoves \/ UNCHANGED startVars
  BY <1>5 DEF VendorMoves, startVars, StartInv
<1> QED BY <1>1, <1>2, <1>3, <1>4, <1>5 DEF StartNext, Run

\* For every configuration file and every set of vendor services, whichever
\* questions are answered and how: the daemon takes only what its mode allows and
\* what no vendor service holds that the answer showed, where a question that
\* could not be asked shows the service.
THEOREM OnlyWhatIsOursAlways == StartSpec => OnlyWhatIsOurs
<1> DEFINE Taken ==
      /\ \A what \in may' \ (may \cup {"fan"}) : Ours(what)
      /\ AnnounceMode /\ plan = "Mcu" /\ AllowsWrites(mode') => "argononed" \notin running \ unseen'
      /\ "fan" \in may' => AllowsWrites(mode) /\ plan = "Mcu"
<1>1. StartInv /\ [StartNext]_startVars => [Taken]_startVars
  <2> SUFFICES ASSUME StartInv, StartNext PROVE Taken
    OBVIOUS
  <2>1. \A what \in may' \ (may \cup {"fan"}) : Ours(what)
    BY AddedIsOurs
  <2>2. AnnounceMode /\ plan = "Mcu" /\ AllowsWrites(mode') => "argononed" \notin running \ unseen'
    BY DEF AnnounceMode, Ask, Decide, ActiveVendorUnits, AllowsWrites
  <2>3. "fan" \in may' => AllowsWrites(mode) /\ plan = "Mcu"
    <3>1. CASE StartFan
      BY <3>1 DEF StartFan, Then, StartInv
    <3>2. CASE ~StartFan
      <4>1. "fan" \in may' => "fan" \in may
        BY <3>2 DEF StartNext, Run, LoadConfig, FindFan, AnnounceMode, StartBattery, SpawnGauge,
                    SpawnUps, StartOled, StartButton, VendorMoves
      <4> QED BY <4>1 DEF StartInv
    <3> QED BY <3>1, <3>2
  <2> QED BY <2>1, <2>2, <2>3
<1> QED BY <1>1, InitStart, StepStart, PTL DEF StartSpec, OnlyWhatIsOurs, Ours

-----------------------------------------------------------------------------
(* The serial port of the UPS. *)

Records == [unit : Units, seen : Nat]

\* Who has the port, and what a tool that has looked has seen.
HoldOK ==
    /\ thread = "on" => ~vendor
    /\ monitor # "none" => thread = "on" /\ connected # NoUnit
    /\ tool.has = "none" <=> tool = NoTool
    /\ tool.has # "none" => tool.user # "none"
    /\ monitor = "open" \/ tool.has = "open" => unit # NoUnit
    /\ tool.has # "none" /\ (vendor \/ monitor = "open") => raced

\* The record against what was read last and what the recorder believes.
RecordOK ==
    /\ written # NoUnit => written.seen <= clock
    /\ excused = "no" /\ written # NoUnit => record = written
    /\ excused = "no" => IF last = NoUnit THEN record = NoUnit
                         ELSE /\ record # NoUnit /\ record.unit = last.unit
                              /\ last.seen - record.seen \in 0..(RefreshEvery - 1)

PortInv == PortTypeOK /\ HoldOK /\ RecordOK /\ LossIsReported

\* Two of them cannot be there but after a race.
LEMMA HoldGivesOneReader == PortTypeOK /\ HoldOK => OneReader
<1> SUFFICES ASSUME PortTypeOK, HoldOK, ~raced PROVE ~(Cardinality(Readers) > 1)
  BY DEF OneReader
<1>1. \E x : Readers \subseteq {x}
  <2>1. CASE monitor = "open"
    <3>1. tool.has # "open" /\ ~vendor
      BY <2>1 DEF HoldOK, PortTypeOK
    <3> QED BY <2>1, <3>1 DEF Readers
  <2>2. CASE monitor # "open" /\ tool.has = "open"
    <3>1. ~vendor
      BY <2>2 DEF HoldOK
    <3> QED BY <2>2, <3>1 DEF Readers
  <2>3. CASE monitor # "open" /\ tool.has # "open"
    BY <2>3 DEF Readers
  <2> QED BY <2>1, <2>2, <2>3
<1>2. PICK x : Readers \subseteq {x}
  BY <1>1
<1>3. IsFiniteSet({x}) /\ Cardinality({x}) = 1
  BY FS_Singleton
<1>4. Cardinality(Readers) \in Nat /\ Cardinality(Readers) <= 1
  BY <1>2, <1>3, FS_Subset, FS_CardinalityType
<1> QED BY <1>4

LEMMA InitPort == PortInit => PortInv
<1> SUFFICES ASSUME PortInit PROVE PortInv
  OBVIOUS
<1>1. vendor \in BOOLEAN /\ raced \in BOOLEAN
  BY Zenon DEF PortInit
<1>2. PortTypeOK
  BY <1>1 DEF PortInit, PortTypeOK, NoTool
<1>3. HoldOK
  BY DEF PortInit, HoldOK, NoTool
<1>4. RecordOK /\ LossIsReported
  BY PortAssumption DEF PortInit, RecordOK, LossIsReported, Says
<1> QED BY <1>2, <1>3, <1>4 DEF PortInv

\* The record is saved, or what should be is excused.
LEMMA RememberKeeps ==
    ASSUME PortInv, connected # NoUnit, Remember, last' = Seen(connected), UNCHANGED clock
    PROVE  /\ written' \in Records /\ record' \in Records \cup {NoUnit} /\ last' \in Records
           /\ excused' \in {"no", "forgotten", "unsaved"} /\ RecordOK'
<1>1. /\ Seen(connected) \in Records /\ Seen(connected) # NoUnit
      /\ Seen(connected).unit = connected /\ Seen(connected).seen = clock
  BY PortAssumption DEF PortInv, PortTypeOK, Seen, Records
<1>2. CASE Due(connected)
  BY <1>1, <1>2, PortAssumption DEF Remember, PortInv, PortTypeOK, RecordOK, Records
<1>3. CASE ~Due(connected)
  BY <1>1, <1>3, PortAssumption DEF Remember, Due, PortInv, PortTypeOK, RecordOK, Records
<1> QED BY <1>2, <1>3

LEMMA StopsKeeps ==
    ASSUME PortInv, ThreadStops, vendor' \in BOOLEAN, raced' \in BOOLEAN,
           raced => raced', vendor' # vendor => (tool # NoTool => raced')
    PROVE  PortInv'
<1>1. PortTypeOK'
  BY DEF PortInv, PortTypeOK, ThreadStops, Says
<1>2. HoldOK'
  BY DEF PortInv, HoldOK, ThreadStops
<1>3. RecordOK'
  BY DEF PortInv, RecordOK, ThreadStops
<1>4. LossIsReported'
  BY DEF PortInv, LossIsReported, ThreadStops, Says
<1> QED BY <1>1, <1>2, <1>3, <1>4 DEF PortInv

\* Every step keeps the invariant.
LEMMA StepPort == PortInv /\ [PortNext]_portVars => PortInv'
<1> SUFFICES ASSUME PortInv, [PortNext]_portVars PROVE PortInv'
  OBVIOUS
<1> USE PortAssumption DEF threadLink, history
<1>1. CASE OpenLink
  <2>0. vendor' \in BOOLEAN /\ raced' \in BOOLEAN
    BY <1>1, Zenon DEF OpenLink, PortInv, PortTypeOK
  <2>1. PortTypeOK'
    BY <1>1, <2>0 DEF PortInv, PortTypeOK, OpenLink
  <2>2. HoldOK'
    BY <1>1 DEF PortInv, HoldOK, PortTypeOK, OpenLink, Absent, Says, Readers, OpensFor
  <2>3. RecordOK'
    BY <1>1 DEF PortInv, RecordOK, PortTypeOK, OpenLink, Absent, Says, Readers, OpensFor
  <2>4. LossIsReported'
    BY <1>1 DEF PortInv, LossIsReported, RecordOK, OpenLink, Absent, Says, Readers, OpensFor
  <2> QED BY <2>1, <2>2, <2>3, <2>4 DEF PortInv
<1>2. CASE PollAnswered
  <2>0. connected # NoUnit /\ RecordOK' /\ written' \in Records /\ record' \in Records \cup {NoUnit} /\ last' \in Records
        /\ excused' \in {"no", "forgotten", "unsaved"}
    BY <1>2, RememberKeeps DEF PollAnswered, PortInv, HoldOK
  <2>1. PortTypeOK'
    BY <1>2, <2>0 DEF PortInv, PortTypeOK, HoldOK, PollAnswered, Says, Remember, Records
  <2>2. HoldOK'
    BY <1>2, <2>0 DEF PortInv, HoldOK, PortTypeOK, PollAnswered, Says, Remember, Records
  <2>3. RecordOK'
    BY <1>2, <2>0 DEF PortInv, RecordOK, PortTypeOK, PollAnswered, Says, Remember, Records
  <2>4. LossIsReported'
    BY <1>2, <2>0 DEF PortInv, LossIsReported, RecordOK, PollAnswered, Says, Remember, Records
  <2> QED BY <2>1, <2>2, <2>3, <2>4 DEF PortInv
<1>3. CASE PollFails
  <2>1. PortTypeOK'
    BY <1>3 DEF PortInv, PortTypeOK, HoldOK, PollFails, Says
  <2>2. HoldOK'
    BY <1>3 DEF PortInv, HoldOK, PortTypeOK, PollFails, Says
  <2>3. RecordOK'
    BY <1>3 DEF PortInv, RecordOK, PortTypeOK, PollFails, Says
  <2>4. LossIsReported'
    BY <1>3 DEF PortInv, LossIsReported, RecordOK, PollFails, Says
  <2> QED BY <2>1, <2>2, <2>3, <2>4 DEF PortInv
<1>4. CASE ThreadStarts
  <2>1. PortTypeOK'
    BY <1>4 DEF PortInv, PortTypeOK, HoldOK, ThreadStarts
  <2>2. HoldOK'
    BY <1>4 DEF PortInv, HoldOK, PortTypeOK, ThreadStarts
  <2>3. RecordOK'
    BY <1>4 DEF PortInv, RecordOK, PortTypeOK, ThreadStarts
  <2>4. LossIsReported'
    BY <1>4 DEF PortInv, LossIsReported, RecordOK, ThreadStarts
  <2> QED BY <2>1, <2>2, <2>3, <2>4 DEF PortInv
<1>5. CASE Restart
  <2>1. vendor' \in BOOLEAN /\ raced' \in BOOLEAN /\ vendor' = vendor /\ raced' = raced
    BY <1>5 DEF Restart, PortInv, PortTypeOK
  <2> QED BY <1>5, <2>1, StopsKeeps DEF Restart
<1>6. ASSUME NEW kind \in {"ups", "rtc"}, NEW user \in {"root", "argon"}, ToolLooks(kind, user) PROVE PortInv'
  <2>1. PortTypeOK'
    BY <1>6 DEF PortInv, PortTypeOK, HoldOK, ToolLooks, NoTool, VendorRefuses, PortOwners, Readers, UserOf
  <2>2. HoldOK'
    <3>1. PICK answer \in {"told", "unknown", "nothing"}, answered \in BOOLEAN :
            /\ IF VendorRefuses(kind, answer) \/ (kind = "rtc" /\ thread = "on" /\ answered) \/ PortOwners(user) # {}
               THEN UNCHANGED tool ELSE tool' = [kind |-> kind, user |-> user, has |-> "looked"]
            /\ raced' = (raced \/ (vendor /\ ~VendorRefuses(kind, answer) /\ user # "root"))
      BY <1>6, Zenon DEF ToolLooks
    <3>2. UNCHANGED <<unit, thread, monitor, connected, vendor>> /\ unit # NoUnit
      BY <1>6 DEF ToolLooks
    <3>3. CASE UNCHANGED tool
      BY <3>1, <3>2, <3>3 DEF PortInv, HoldOK, PortTypeOK
    <3>4. CASE tool' # tool
      <4>1. /\ tool' = [kind |-> kind, user |-> user, has |-> "looked"]
            /\ ~VendorRefuses(kind, answer) /\ PortOwners(user) = {}
        BY <3>1, <3>4
      <4>2. monitor # "open"
        BY <4>1 DEF PortOwners, Readers, UserOf
      <4>3. vendor => raced'
        <5>1. vendor => user # "root"
          BY <3>2, <4>1 DEF PortOwners, Readers
        <5> QED BY <3>1, <4>1, <5>1
      <4> QED BY <3>2, <4>1, <4>2, <4>3 DEF PortInv, HoldOK, NoTool
    <3> QED BY <3>3, <3>4
  <2>3. RecordOK'
    BY <1>6 DEF PortInv, RecordOK, PortTypeOK, ToolLooks, NoTool, VendorRefuses, PortOwners, Readers, UserOf
  <2>4. LossIsReported'
    BY <1>6 DEF PortInv, LossIsReported, RecordOK, ToolLooks, NoTool, VendorRefuses, PortOwners, Readers, UserOf
  <2> QED BY <2>1, <2>2, <2>3, <2>4 DEF PortInv
<1>7. CASE ToolOpens
  <2>1. PortTypeOK'
    BY <1>7 DEF PortInv, PortTypeOK, HoldOK, ToolOpens, NoTool, OpensFor, Readers
  <2>2. HoldOK'
    BY <1>7 DEF PortInv, HoldOK, PortTypeOK, ToolOpens, NoTool, OpensFor, Readers
  <2>3. RecordOK'
    BY <1>7 DEF PortInv, RecordOK, PortTypeOK, ToolOpens, NoTool, OpensFor, Readers
  <2>4. LossIsReported'
    BY <1>7 DEF PortInv, LossIsReported, RecordOK, ToolOpens, NoTool, OpensFor, Readers
  <2> QED BY <2>1, <2>2, <2>3, <2>4 DEF PortInv
<1>8. CASE ToolEnds
  <2>1. PortTypeOK'
    BY <1>8 DEF PortInv, PortTypeOK, HoldOK, ToolEnds, NoTool
  <2>2. HoldOK'
    BY <1>8 DEF PortInv, HoldOK, PortTypeOK, ToolEnds, NoTool
  <2>3. RecordOK'
    BY <1>8 DEF PortInv, RecordOK, PortTypeOK, ToolEnds, NoTool
  <2>4. LossIsReported'
    BY <1>8 DEF PortInv, LossIsReported, RecordOK, ToolEnds, NoTool
  <2> QED BY <2>1, <2>2, <2>3, <2>4 DEF PortInv
<1>9. CASE Forget
  <2>1. PortTypeOK'
    BY <1>9 DEF PortInv, PortTypeOK, HoldOK, Forget
  <2>2. HoldOK'
    BY <1>9 DEF PortInv, HoldOK, PortTypeOK, Forget
  <2>3. RecordOK'
    BY <1>9 DEF PortInv, RecordOK, PortTypeOK, Forget
  <2>4. LossIsReported'
    BY <1>9 DEF PortInv, LossIsReported, RecordOK, Forget
  <2> QED BY <2>1, <2>2, <2>3, <2>4 DEF PortInv
<1>10. CASE VendorStarts
  <2>0. vendor' \in BOOLEAN /\ raced' \in BOOLEAN /\ (raced => raced') /\ (tool # NoTool => raced')
    BY <1>10, Zenon DEF VendorStarts, PortInv, PortTypeOK
  <2>1. CASE thread = "on"
    <3>1. ThreadStops
      BY <1>10, <2>1 DEF VendorStarts
    <3> QED BY <2>0, <3>1, StopsKeeps
  <2>2. CASE thread # "on"
    <3>1. UNCHANGED <<unit, thread, threadLink, record, tool, clock, last, excused>>
      BY <1>10, <2>2 DEF VendorStarts
    <3>2. PortTypeOK'
      BY <2>0, <3>1 DEF PortInv, PortTypeOK
    <3>3. HoldOK'
      BY <2>0, <2>2, <3>1 DEF PortInv, HoldOK
    <3>4. RecordOK' /\ LossIsReported'
      BY <3>1 DEF PortInv, RecordOK, LossIsReported
    <3> QED BY <3>2, <3>3, <3>4 DEF PortInv
  <2> QED BY <2>1, <2>2
<1>11. CASE VendorStops
  <2>1. PortTypeOK'
    BY <1>11 DEF PortInv, PortTypeOK, HoldOK, VendorStops
  <2>2. HoldOK'
    BY <1>11 DEF PortInv, HoldOK, PortTypeOK, VendorStops
  <2>3. RecordOK'
    BY <1>11 DEF PortInv, RecordOK, PortTypeOK, VendorStops
  <2>4. LossIsReported'
    BY <1>11 DEF PortInv, LossIsReported, RecordOK, VendorStops
  <2> QED BY <2>1, <2>2, <2>3, <2>4 DEF PortInv
<1>12. CASE Pull
  <2>1. PortTypeOK'
    BY <1>12 DEF PortInv, PortTypeOK, HoldOK, Pull, NoTool
  <2>2. HoldOK'
    BY <1>12 DEF PortInv, HoldOK, PortTypeOK, Pull, NoTool
  <2>3. RecordOK'
    BY <1>12 DEF PortInv, RecordOK, PortTypeOK, Pull
  <2>4. LossIsReported'
    BY <1>12 DEF PortInv, LossIsReported, RecordOK, Pull
  <2> QED BY <2>1, <2>2, <2>3, <2>4 DEF PortInv
<1>13. CASE Plug
  <2>1. PortTypeOK'
    BY <1>13 DEF PortInv, PortTypeOK, HoldOK, Plug
  <2>2. HoldOK'
    BY <1>13 DEF PortInv, HoldOK, PortTypeOK, Plug
  <2>3. RecordOK'
    BY <1>13 DEF PortInv, RecordOK, PortTypeOK, Plug
  <2>4. LossIsReported'
    BY <1>13 DEF PortInv, LossIsReported, RecordOK, Plug
  <2> QED BY <2>1, <2>2, <2>3, <2>4 DEF PortInv
<1>14. CASE PortTick
  <2>1. PortTypeOK'
    BY <1>14 DEF PortInv, PortTypeOK, HoldOK, PortTick
  <2>2. HoldOK'
    BY <1>14 DEF PortInv, HoldOK, PortTypeOK, PortTick
  <2>3. RecordOK'
    BY <1>14 DEF PortInv, RecordOK, PortTypeOK, PortTick
  <2>4. LossIsReported'
    BY <1>14 DEF PortInv, LossIsReported, RecordOK, PortTick
  <2> QED BY <2>1, <2>2, <2>3, <2>4 DEF PortInv
<1>15. CASE UNCHANGED portVars
  BY <1>15 DEF portVars, PortInv, PortTypeOK, HoldOK, RecordOK, LossIsReported
<1> QED BY <1>1, <1>2, <1>3, <1>4, <1>5, <1>6, <1>7, <1>8, <1>9, <1>10, <1>11, <1>12, <1>13, <1>14, <1>15 DEF PortNext

\* The invariant holds throughout.
THEOREM PortInvariant == PortSpec => []PortInv
BY InitPort, StepPort, PTL DEF PortSpec

\* Types for any units and intervals.
THEOREM PortTypeCorrect == PortSpec => []PortTypeOK
BY PortInvariant, PTL DEF PortInv

\* One reader unless raced, and a UPS that is gone is the one read last, with a
\* time no further back than a refresh: argond's, the vendor's and argonctl's
\* looks, opens, restarts and forgetting in any number.
THEOREM PortIsKeptAlways == PortSpec => []PortIsKept
<1>1. PortInv => PortIsKept
  BY HoldGivesOneReader DEF PortInv, PortIsKept
<1> QED BY <1>1, PortInvariant, PTL

-----------------------------------------------------------------------------
(* The display. *)

PanelTypes ==
    /\ page \in Pages /\ inHand \in Pages \union {"none"} /\ shown \in Pages \union {"none"}
    /\ lit \in BOOLEAN /\ attached \in BOOLEAN /\ needs_init \in BOOLEAN /\ dark \in BOOLEAN
    /\ touched \in BOOLEAN /\ pulled \in BOOLEAN /\ left_on \in BOOLEAN
    /\ drawing \in {"gone", "down", "without", "look", "init", "flush", "off", "leave"}

\* Nothing is taken to be shown by a panel that has to be set up or was switched
\* off; one that need not be displays, unless argonctl has put it out or it was
\* pulled.
SetUpBefore ==
    /\ shown # "none" => ~needs_init /\ ~dark
    /\ drawing = "off" => dark
    /\ drawing \in {"init", "flush"} => ~dark /\ inHand \in Pages
    /\ drawing = "init" => needs_init
    /\ drawing = "flush" \/ (drawing \in {"look", "init"} /\ ~needs_init /\ ~dark) => lit \/ touched \/ pulled

\* The frame is there, whether it is to be seen or not.
FrameIsThere == drawing \in {"look", "init", "flush", "off"} /\ shown # "none" /\ ~touched /\ ~pulled => ram = shown

\* What the thread leaves behind, and ExecStopPost after it.
DownIsDark ==
    drawing \in {"down", "without"} /\ ~left_on /\ ~touched => ~lit \/ ram \notin Pages

PanelInv == PanelTypes /\ SetUpBefore /\ FrameIsThere /\ DownIsDark

LEMMA PanelStart == PanelInit => PanelInv
  BY DEF PanelInit, PanelInv, PanelTypes, SetUpBefore, FrameIsThere, DownIsDark

LEMMA PanelStep == PanelInv /\ [PanelNext]_panelVars => PanelInv'
<1> SUFFICES ASSUME PanelInv, [PanelNext]_panelVars PROVE PanelInv'
  OBVIOUS
<1> USE DEF PanelInv, PanelTypes, SetUpBefore, FrameIsThere, DownIsDark,
            panelState, drawer, excuses
<1>1. CASE StartDrawing
  BY <1>1 DEF StartDrawing, Works, Fails, Upset
<1>2. CASE LookAtSwitch
  <2>1. CASE ~on /\ ~dark /\ drawing' = "off" /\ dark' = TRUE /\ shown' = "none"
             /\ UNCHANGED <<needs_init, inHand>>
    BY <1>2, <2>1 DEF LookAtSwitch
  <2>2. CASE /\ on /\ (dark \/ needs_init \/ shown # page)
             /\ dark' = FALSE /\ needs_init' = (needs_init \/ dark) /\ inHand' = page
             /\ drawing' = IF needs_init' THEN "init" ELSE "flush"
             /\ UNCHANGED shown
    BY <1>2, <2>2 DEF LookAtSwitch
  <2> QED BY <1>2, <2>1, <2>2 DEF LookAtSwitch
<1>3. CASE SwitchOff
  BY <1>3 DEF SwitchOff, Works, Fails, Upset, Off1306, Off1306Fails
<1>4. CASE SetUp
  BY <1>4 DEF SetUp, Works, Fails, Upset, Init1306, Init1306Fails, DrawFailed
<1>5. CASE DrawFrame
  BY <1>5 DEF DrawFrame, Works, Fails, Upset, Flush, FlushFails, DrawFailed
<1>6. CASE Stopping
  BY <1>6 DEF Stopping, Upset
<1>7. CASE BlankOnLeaving
  BY <1>7 DEF BlankOnLeaving, Works, Fails, Upset, Off1306, Off1306Fails
<1>8. CASE KillDrawing
  BY <1>8 DEF KillDrawing, Upset
<1>9. CASE StopPost1306
  BY <1>9 DEF StopPost1306, Works, Fails, Upset, Off1306, Off1306Fails
<1>10. CASE ToolWrites
  BY <1>10, PanelAssumption DEF ToolWrites, Upset, Off1306, Off1306Fails
<1>11. CASE SetSwitch
  BY <1>11 DEF SetSwitch, Upset
<1>12. CASE PageChanges
  BY <1>12 DEF PageChanges, Upset
<1>13. CASE Detach
  BY <1>13 DEF Detach, Upset
<1>14. CASE Attach
  BY <1>14 DEF Attach
<1>15. CASE UNCHANGED panelVars
  BY <1>15 DEF panelVars
<1> QED
  BY <1>1, <1>2, <1>3, <1>4, <1>5, <1>6, <1>7, <1>8, <1>9, <1>10, <1>11, <1>12, <1>13,
     <1>14, <1>15 DEF PanelNext, Draws

LEMMA PanelMeans == PanelInv => NothingLeftShown /\ TakenIsShown
  BY PanelAssumption DEF PanelInv, PanelTypes, SetUpBefore, FrameIsThere, DownIsDark,
                         NothingLeftShown, TakenIsShown, Looks

\* Once argond has ended in whatever way no page is left on the panel, unless its
\* last write failed or argonctl put one there; and while it runs the panel shows
\* what the thread takes it to show, through failed writes, kills, and a panel
\* pulled and back from the first write that came upon it, unless argonctl has
\* changed it.
THEOREM PanelIsTrueAlways == PanelSpec => [](NothingLeftShown /\ TakenIsShown)
<1>1. PanelInit => PanelInv
  BY PanelStart
<1>2. PanelInv /\ [PanelNext]_panelVars => PanelInv'
  BY PanelStep
<1>3. PanelInv => NothingLeftShown /\ TakenIsShown
  BY PanelMeans
<1> QED
  BY <1>1, <1>2, <1>3, PTL DEF PanelSpec

-----------------------------------------------------------------------------
(* The commands of setup. *)

BusIsOff == "bus" \notin devices /\ (IsActive("i2c_arm=on") \/ board = "cm5")
IrIsOff == \/ IsActive("gpio-ir") /\ ~Lirc
           \/ ~IsActive("gpio-ir") /\ Lirc
BusLacks == readable /\ BusIsOff
IrLacks == readable /\ IrIsOff
UdevLacks == ~installed /\ UpsPresent
ArgondLacks == ~daemon /\ installed
VendorLacks == guests # {}

BusFix == IF IsActive("i2c_arm=on") THEN Cmd("reboot") ELSE TeeA("i2c_arm=on", TRUE)
IrFix == IF IsActive("gpio-ir") THEN Cmd("reboot") ELSE TeeA("gpio-ir", FALSE)

Where(b, v) == IF b THEN {v} ELSE {}

\* What is missing, and what is beside it.
LackingIs ==
    Lacking = Where(BusLacks, Verdict("bus", "Missing", BusFix))
              \cup Where(IrLacks, Verdict("ir", "Missing", IrFix))
              \cup Where(UdevLacks, Verdict("udev", "Missing", Cmd("install")))
              \cup Where(ArgondLacks, Verdict("argond", "Missing", Cmd("start argond")))
              \cup Where(VendorLacks, Verdict("vendor", "Missing", Cmd("stop vendor")))
              \cup Where(~readable, Verdict("config.txt", "Missing", Cmd("none")))

LEMMA LackingFacts == LackingIs
<1> DEFINE M(S) == {c \in S : c.state = "Missing"}
<1>0. /\ HeaderBus.state # "Missing" => M({HeaderBus}) = {}
      /\ HeaderBus.state = "Missing" => M({HeaderBus}) = {HeaderBus}
      /\ IrReceiver.state # "Missing" => M({IrReceiver}) = {}
      /\ IrReceiver.state = "Missing" => M({IrReceiver}) = {IrReceiver}
  OBVIOUS
<1>1. Lacking = M(BootChecks) \cup M(Software) \cup M(Access) \cup M(Services)
  BY Zenon DEF Lacking, Review
<1>2. M({HeaderBus}) = Where(BusIsOff, Verdict("bus", "Missing", BusFix))
  <2>1. CASE "bus" \in devices
    <3>1. HeaderBus = Verdict("bus", "Ok", Cmd("none"))
      BY <2>1 DEF HeaderBus, Fine
    <3> QED BY <1>0, <2>1, <3>1 DEF Verdict, Where, BusIsOff
  <2>2. CASE "bus" \notin devices /\ IsActive("i2c_arm=on")
    <3>1. HeaderBus = Verdict("bus", "Missing", Cmd("reboot")) /\ BusFix = Cmd("reboot") /\ BusIsOff
      BY <2>2 DEF HeaderBus, BusFix, BusIsOff
    <3> QED BY <1>0, <3>1 DEF Verdict, Where
  <2>3. CASE "bus" \notin devices /\ ~IsActive("i2c_arm=on") /\ board = "cm5"
    <3>1. HeaderBus = Verdict("bus", "Missing", TeeA("i2c_arm=on", TRUE)) /\ BusFix = TeeA("i2c_arm=on", TRUE) /\ BusIsOff
      BY <2>3 DEF HeaderBus, BusFix, BusIsOff, IsOneUp
    <3> QED BY <1>0, <3>1 DEF Verdict, Where
  <2>4. CASE "bus" \notin devices /\ ~IsActive("i2c_arm=on") /\ board # "cm5"
    <3>1. HeaderBus = Verdict("bus", "Optional", TeeA("i2c_arm=on", FALSE)) /\ ~BusIsOff
      BY <2>4 DEF HeaderBus, BusIsOff, IsOneUp, Answers
    <3> QED BY <1>0, <3>1 DEF Verdict, Where
  <2> QED BY <2>1, <2>2, <2>3, <2>4
<1>3. M({InternalHub}) = {}
  <2>1. InternalHub.state \in {"Ok", "Optional", "NotApplicable"}
    BY DEF InternalHub, Fine, NotHere, Verdict
  <2> QED BY <2>1
<1>4. M({IrReceiver}) = Where(IrIsOff, Verdict("ir", "Missing", IrFix))
  <2>1. CASE IsActive("gpio-ir") /\ Lirc
    <3>1. IrReceiver = Verdict("ir", "Ok", Cmd("none")) /\ ~IrIsOff
      BY <2>1 DEF IrReceiver, Fine, IrIsOff
    <3> QED BY <1>0, <3>1 DEF Verdict, Where
  <2>2. CASE IsActive("gpio-ir") /\ ~Lirc
    <3>1. IrReceiver = Verdict("ir", "Missing", Cmd("reboot")) /\ IrFix = Cmd("reboot") /\ IrIsOff
      BY <2>2 DEF IrReceiver, IrFix, IrIsOff
    <3> QED BY <1>0, <3>1 DEF Verdict, Where
  <2>3. CASE ~IsActive("gpio-ir") /\ Lirc
    <3>1. IrReceiver = Verdict("ir", "Missing", TeeA("gpio-ir", FALSE)) /\ IrFix = TeeA("gpio-ir", FALSE) /\ IrIsOff
      BY <2>3 DEF IrReceiver, IrFix, IrIsOff
    <3> QED BY <1>0, <3>1 DEF Verdict, Where
  <2>4. CASE ~IsActive("gpio-ir") /\ ~Lirc
    <3>1. IrReceiver = Verdict("ir", "Optional", TeeA("gpio-ir", TRUE)) /\ ~IrIsOff
      BY <2>4 DEF IrReceiver, IrIsOff
    <3> QED BY <1>0, <3>1 DEF Verdict, Where
  <2> QED BY <2>1, <2>2, <2>3, <2>4
<1>5. M({LidSwitch}) = {}
  BY DEF LidSwitch, Fine, NotHere, Verdict
<1>9. M(BootChecks) = Where(BusLacks, Verdict("bus", "Missing", BusFix))
                      \cup Where(IrLacks, Verdict("ir", "Missing", IrFix))
                      \cup Where(~readable, Verdict("config.txt", "Missing", Cmd("none")))
  <2>1. CASE readable
    <3>1. M(BootChecks) = M({HeaderBus}) \cup M({InternalHub}) \cup M({IrReceiver}) \cup M({LidSwitch})
      BY <2>1, Zenon DEF BootChecks
    <3> QED BY <1>2, <1>3, <1>4, <1>5, <2>1, <3>1 DEF Where, BusLacks, IrLacks
  <2>2. CASE ~readable
    <3> DEFINE R == Verdict("config.txt", "Missing", Cmd("none"))
    <3>1. BootChecks = {R} /\ R.state = "Missing"
      BY <2>2 DEF BootChecks, Verdict
    <3> HIDE DEF R
    <3>2. M(BootChecks) = {R}
      BY <3>1
    <3> QED BY <2>2, <3>2 DEF Where, BusLacks, IrLacks, R
  <2> QED BY <2>1, <2>2
<1>6. M(Software) = {}
  BY DEF Software, Fine, NotHere, Verdict
<1>7. M(Access) = Where(UdevLacks, Verdict("udev", "Missing", Cmd("install")))
  <2>1. \A g \in DOMAIN Needed : (IF g \in groups THEN Fine(g) ELSE IF Needed[g] THEN Verdict(g, "Optional", Cmd(g)) ELSE NotHere(g)).state # "Missing"
    <3> TAKE g \in DOMAIN Needed
    <3>1. Fine(g).state = "Ok" /\ NotHere(g).state = "NotApplicable"
          /\ Verdict(g, "Optional", Cmd(g)).state = "Optional"
      BY DEF Fine, NotHere, Verdict
    <3> QED BY <3>1
  <2>2. (IF installed THEN Fine("udev")
         ELSE IF UpsPresent THEN Verdict("udev", "Missing", Cmd("install")) ELSE NotHere("udev"))
          = IF UdevLacks THEN Verdict("udev", "Missing", Cmd("install")) ELSE IF installed THEN Fine("udev") ELSE NotHere("udev")
    BY Zenon DEF UdevLacks
  <2>3. Fine("udev").state # "Missing" /\ NotHere("udev").state # "Missing"
        /\ Verdict("udev", "Missing", Cmd("install")).state = "Missing"
    BY DEF Verdict, Fine, NotHere
  <2> QED BY <2>1, <2>2, <2>3 DEF Access, Where
<1>8. M(Services) = Where(ArgondLacks, Verdict("argond", "Missing", Cmd("start argond")))
                    \cup Where(VendorLacks, Verdict("vendor", "Missing", Cmd("stop vendor")))
  <2> DEFINE A == IF daemon THEN Fine("argond")
                  ELSE IF installed THEN Verdict("argond", "Missing", Cmd("start argond")) ELSE NotHere("argond")
             V == IF guests = {} THEN Fine("vendor") ELSE Verdict("vendor", "Missing", Cmd("stop vendor"))
  <2>1. M({A}) = Where(ArgondLacks, Verdict("argond", "Missing", Cmd("start argond")))
    <3>1. A.state = "Missing" <=> ArgondLacks
      BY DEF ArgondLacks, Fine, NotHere, Verdict
    <3>2. ArgondLacks => A = Verdict("argond", "Missing", Cmd("start argond"))
      BY DEF ArgondLacks
    <3> HIDE DEF A
    <3> QED BY <3>1, <3>2 DEF Where
  <2>2. M({V}) = Where(VendorLacks, Verdict("vendor", "Missing", Cmd("stop vendor")))
    <3>1. V.state = "Missing" <=> VendorLacks
      BY DEF VendorLacks, Fine, Verdict
    <3>2. VendorLacks => V = Verdict("vendor", "Missing", Cmd("stop vendor"))
      BY DEF VendorLacks
    <3> HIDE DEF V
    <3> QED BY <3>1, <3>2 DEF Where
  <2>3. Services = {A, V}
    BY Zenon DEF Services
  <2> HIDE DEF A, V
  <2>4. M(Services) = M({A}) \cup M({V})
    BY <2>3
  <2> QED BY <2>1, <2>2, <2>4
<1> HIDE DEF M
<1> QED BY <1>1, <1>6, <1>7, <1>8, <1>9, Zenon DEF LackingIs

LEMMA LackingFactsNext == LackingIs'
BY LackingFacts, PTL

\* The names of what is missing, and the command beside each.
NamesAre ==
    NamesOf(Lacking) = Where(BusLacks, "bus") \cup Where(IrLacks, "ir") \cup Where(UdevLacks, "udev")
                       \cup Where(ArgondLacks, "argond") \cup Where(VendorLacks, "vendor")
                       \cup Where(~readable, "config.txt")

FixesAre ==
    \A c \in Lacking :
        \/ BusLacks /\ c.name = "bus" /\ c.fix = BusFix
        \/ IrLacks /\ c.name = "ir" /\ c.fix = IrFix
        \/ UdevLacks /\ c.name = "udev" /\ c.fix = Cmd("install")
        \/ ArgondLacks /\ c.name = "argond" /\ c.fix = Cmd("start argond")
        \/ VendorLacks /\ c.name = "vendor" /\ c.fix = Cmd("stop vendor")
        \/ ~readable /\ c.name = "config.txt" /\ c.fix = Cmd("none")

LEMMA NamesFacts == NamesAre /\ FixesAre
<1> DEFINE B == Verdict("bus", "Missing", BusFix)
           I == Verdict("ir", "Missing", IrFix)
           U == Verdict("udev", "Missing", Cmd("install"))
           A == Verdict("argond", "Missing", Cmd("start argond"))
           V == Verdict("vendor", "Missing", Cmd("stop vendor"))
           R == Verdict("config.txt", "Missing", Cmd("none"))
<1>1. Lacking = Where(BusLacks, B) \cup Where(IrLacks, I) \cup Where(UdevLacks, U)
                \cup Where(ArgondLacks, A) \cup Where(VendorLacks, V) \cup Where(~readable, R)
  BY LackingFacts DEF LackingIs
<1>2. /\ B.name = "bus" /\ B.fix = BusFix /\ I.name = "ir" /\ I.fix = IrFix
      /\ U.name = "udev" /\ U.fix = Cmd("install") /\ A.name = "argond" /\ A.fix = Cmd("start argond")
      /\ V.name = "vendor" /\ V.fix = Cmd("stop vendor") /\ R.name = "config.txt" /\ R.fix = Cmd("none")
  BY DEF Verdict
<1> HIDE DEF B, I, U, A, V, R
<1>3. FixesAre
  BY <1>1, <1>2 DEF FixesAre, Where
<1>4. NamesAre
  <2>1. \A c \in Lacking :
           \/ BusLacks /\ c.name = "bus"
           \/ IrLacks /\ c.name = "ir"
           \/ UdevLacks /\ c.name = "udev"
           \/ ArgondLacks /\ c.name = "argond"
           \/ VendorLacks /\ c.name = "vendor"
           \/ ~readable /\ c.name = "config.txt"
    BY <1>3 DEF FixesAre
  <2>2. /\ BusLacks => B \in Lacking
        /\ IrLacks => I \in Lacking
        /\ UdevLacks => U \in Lacking
        /\ ArgondLacks => A \in Lacking
        /\ VendorLacks => V \in Lacking
        /\ ~readable => R \in Lacking
    BY <1>1 DEF Where
  <2>3. /\ BusLacks => "bus" \in NamesOf(Lacking)
        /\ IrLacks => "ir" \in NamesOf(Lacking)
        /\ UdevLacks => "udev" \in NamesOf(Lacking)
        /\ ArgondLacks => "argond" \in NamesOf(Lacking)
        /\ VendorLacks => "vendor" \in NamesOf(Lacking)
        /\ ~readable => "config.txt" \in NamesOf(Lacking)
    BY <1>2, <2>2 DEF NamesOf
  <2>4. \A n \in NamesOf(Lacking) : \E c \in Lacking : n = c.name
    BY DEF NamesOf
  <2> QED BY <2>1, <2>3, <2>4 DEF NamesAre, Where
<1> QED BY <1>3, <1>4

LEMMA NamesFactsNext == NamesAre' /\ FixesAre'
BY NamesFacts, PTL

Printed ==
    {Cmd("reboot"), TeeA("i2c_arm=on", TRUE), TeeA("gpio-ir", FALSE), Cmd("install"), Cmd("start argond"),
     Cmd("stop vendor")}

\* A line in force, as the file grows.
LEMMA LineStays ==
    ASSUME lines \subseteq lines', board' = board, NEW w, IsActive(w)
    PROVE  IsActive(w)'
BY DEF IsActive, AppliesTo

LEMMA LineIsAppended ==
    ASSUME NEW v, v # "none", lines' = WithLine(v), board' = board
    PROVE  /\ tail \in SectionsFor(board) => IsActive(v)'
           /\ \A w : w # v /\ IsActive(w)' => IsActive(w)
<1> DEFINE l == [section |-> tail, what |-> v, commented |-> FALSE]
<1>1. lines' = lines \cup {l}
  BY Zenon DEF WithLine
<1>2. l.section = tail /\ l.what = v /\ ~l.commented
  OBVIOUS
<1> HIDE DEF l
<1> QED BY <1>1, <1>2 DEF IsActive, AppliesTo

LEMMA DevicesAfterReboot ==
    ASSUME Reboots, board' = board
    PROVE  /\ "bus" \in devices' <=> IsActive("i2c_arm=on")'
           /\ "lirc" \in devices' <=> IsActive("gpio-ir")'
<1>1. /\ DeviceOf["i2c_arm=on"] = "bus" /\ DeviceOf["gpio-ir"] = "lirc"
      /\ DeviceOf["dwc2"] = "hub" /\ DeviceOf["argon-oneup-lid"] = "lid"
  BY DEF DeviceOf, Whats
<1> DEFINE InForce == {v \in Whats : \E d \in lines' : d.what = v /\ AppliesTo(d, SectionsFor(board))}
<1>2. devices' = {DeviceOf[w] : w \in InForce}
  BY Zenon DEF Reboots
<1>3. /\ "i2c_arm=on" \in InForce <=> IsActive("i2c_arm=on")'
      /\ "gpio-ir" \in InForce <=> IsActive("gpio-ir")'
  BY DEF IsActive, Whats
<1>4. InForce \subseteq {"i2c_arm=on", "dwc2", "gpio-ir", "argon-oneup-lid"}
  BY DEF Whats
<1> HIDE DEF InForce
<1> QED BY <1>1, <1>2, <1>3, <1>4

-----------------------------------------------------------------------------
(* What the review rests on. *)

SetupInv ==
    /\ installed \in BOOLEAN /\ daemon \in BOOLEAN
    /\ readable \in BOOLEAN /\ startable \in BOOLEAN /\ (daemon => startable)
    /\ "bus" \in devices => IsActive("i2c_arm=on")
    /\ advised \subseteq Printed
    /\ TeeA("gpio-ir", FALSE) \in advised => Lirc

LEMMA SetupInitial == SetupInit => SetupInv
<1> SUFFICES ASSUME SetupInit PROVE SetupInv
  OBVIOUS
<1>1. /\ DeviceOf["i2c_arm=on"] = "bus" /\ DeviceOf["gpio-ir"] = "lirc"
      /\ DeviceOf["dwc2"] = "hub" /\ DeviceOf["argon-oneup-lid"] = "lid"
  BY DEF DeviceOf, Whats
<1> DEFINE InForce == {v \in Whats : \E d \in lines : d.what = v /\ AppliesTo(d, SectionsFor(board))}
<1>2. Booted = {DeviceOf[w] : w \in InForce}
  BY Zenon DEF Booted
<1>3. "i2c_arm=on" \in InForce => IsActive("i2c_arm=on")
  BY DEF IsActive
<1>4. InForce \subseteq {"i2c_arm=on", "dwc2", "gpio-ir", "argon-oneup-lid"}
  BY DEF Whats
<1> HIDE DEF InForce
<1>5. "bus" \in Booted => IsActive("i2c_arm=on")
  BY <1>1, <1>2, <1>3, <1>4
<1>6. devices = Booted \/ devices = Booted \cup {"lirc"}
  BY DEF SetupInit
<1>7. "bus" \in devices => IsActive("i2c_arm=on")
  BY <1>5, <1>6
<1> QED BY <1>7 DEF SetupInit, SetupInv

\* Whatever command is run, the file grows and the buses go with it.
LEMMA CommandKeeps ==
    ASSUME SetupInv, NEW fix, RunsCommand(fix)
    PROVE  SetupInv'
<1>1. lines \subseteq lines' /\ UNCHANGED <<board, readable, startable>>
  BY DEF RunsCommand, WithLine, machine
<1>2. installed' \in BOOLEAN /\ daemon' \in BOOLEAN /\ (daemon' => startable)
  <2>1. installed' \in BOOLEAN
    BY DEF RunsCommand
  <2>2. daemon' = (installed /\ startable) \/ daemon' = (daemon \/ (startable /\ StartsArgond(fix)))
    BY DEF RunsCommand, Reboots
  <2>3. StartsArgond(fix) \in BOOLEAN
    BY DEF StartsArgond
  <2> QED BY <2>1, <2>2, <2>3 DEF SetupInv
<1>3. CASE fix.reboot
  <2>1. Reboots
    BY <1>3 DEF RunsCommand
  <2>2. "bus" \in devices' => IsActive("i2c_arm=on")'
    BY <1>1, <2>1, DevicesAfterReboot
  <2>3. advised' = {}
    BY <2>1 DEF Reboots
  <2> QED BY <1>1, <1>2, <2>2, <2>3 DEF SetupInv
<1>4. CASE ~fix.reboot
  <2>1. devices' = devices /\ advised' \subseteq advised
    BY <1>4 DEF RunsCommand
  <2>2. "bus" \in devices' => IsActive("i2c_arm=on")'
    BY <1>1, <2>1, LineStays DEF SetupInv
  <2>3. Lirc' <=> Lirc
    BY <2>1 DEF Lirc
  <2> QED BY <1>1, <1>2, <2>1, <2>2, <2>3 DEF SetupInv, Printed, Cmd, TeeA
<1> QED BY <1>3, <1>4

LEMMA SetupInductive == SetupInv /\ [SetupNext]_setupVars => SetupInv'
<1> SUFFICES ASSUME SetupInv, [SetupNext]_setupVars PROVE SetupInv'
  OBVIOUS
<1>1. CASE RunSetup
  <2>1. UNCHANGED <<machine, board, readable, startable, lines, devices, installed, daemon>>
    BY <1>1 DEF RunSetup, machine
  <2>2. IsActive("i2c_arm=on")' = IsActive("i2c_arm=on") /\ Lirc' = Lirc
    BY <2>1 DEF IsActive, Lirc
  <2>3. advised' = {c.fix : c \in Lacking} \ {Cmd("none")}
    BY <1>1 DEF RunSetup
  <2>4. \A c \in Lacking : c.fix # Cmd("none") => c.fix \in Printed /\ (c.fix = TeeA("gpio-ir", FALSE) => Lirc)
    <3>1. BusFix \in Printed /\ BusFix # TeeA("gpio-ir", FALSE)
      BY DEF BusFix, Printed, Cmd, TeeA
    <3>2. IrLacks => IrFix \in Printed /\ (IrFix = TeeA("gpio-ir", FALSE) => Lirc)
      BY DEF IrFix, IrLacks, IrIsOff, Printed, Cmd, TeeA
    <3>3. \A n : Cmd(n) # TeeA("gpio-ir", FALSE)
      BY DEF Cmd, TeeA
    <3> QED BY <3>1, <3>2, <3>3, NamesFacts DEF FixesAre, Printed
  <2> QED BY <2>1, <2>2, <2>3, <2>4 DEF SetupInv
<1>2. CASE Follow
  BY <1>2, CommandKeeps DEF Follow
<1>3. CASE FollowOffer
  BY <1>3, CommandKeeps DEF FollowOffer
<1>4. CASE GuestStarts
  <2>1. /\ UNCHANGED <<board, readable, startable, lines, devices, installed, advised>>
        /\ daemon' \in BOOLEAN /\ (daemon' => daemon)
    BY <1>4 DEF GuestStarts, machine
  <2>2. IsActive("i2c_arm=on")' = IsActive("i2c_arm=on") /\ Lirc' = Lirc
    BY <2>1 DEF IsActive, Lirc
  <2> QED BY <2>1, <2>2 DEF SetupInv, Printed, Cmd, TeeA
<1>5. CASE UNCHANGED setupVars
  <2>1. UNCHANGED <<board, readable, startable, lines, devices, installed, daemon, advised>>
    BY <1>5 DEF setupVars, machine
  <2>2. IsActive("i2c_arm=on")' = IsActive("i2c_arm=on") /\ Lirc' = Lirc
    BY <2>1 DEF IsActive, Lirc
  <2> QED BY <2>1, <2>2 DEF SetupInv, Printed, Cmd, TeeA
<1>6. CASE CommandFails
  <2>1. UNCHANGED <<board, readable, startable, lines, devices, installed, daemon>> /\ advised' \subseteq advised
    BY <1>6 DEF CommandFails, machine
  <2>2. IsActive("i2c_arm=on")' = IsActive("i2c_arm=on") /\ Lirc' = Lirc
    BY <2>1 DEF IsActive, Lirc
  <2> QED BY <2>1, <2>2 DEF SetupInv, Printed, Cmd, TeeA
<1> QED BY <1>1, <1>2, <1>3, <1>4, <1>5, <1>6 DEF SetupNext

-----------------------------------------------------------------------------
\* A command beside what is missing, run where config.txt ends in a section of
\* this board, takes its check off the list: nobody is told the same again.
FixIsNotAskedAgain ==
    [][\A c \in Lacking : tail \in SectionsFor(board) /\ c.name \notin Beyond /\ RunsCommand(c.fix)
                            => c.name \notin NamesOf(Lacking')]_setupVars

\* Nor does a command put anything else onto it. A reboot may: the UPS is seen
\* once its hub is there, and a vendor unit that is enabled starts again.
NothingElseGoesMissing ==
    [][\A fix \in advised : RunsCommand(fix) =>
         NamesOf(Lacking') \subseteq NamesOf(Lacking) \cup Beyond \cup (IF fix.reboot THEN {"udev", "vendor"} ELSE {})]_setupVars

LEMMA CommandFields ==
    /\ \A n : Cmd(n).run = n /\ Cmd(n).line = "none" /\ (Cmd(n).reboot <=> n = "reboot")
    /\ \A l : TeeA(l, TRUE).run = "append" /\ TeeA(l, TRUE).line = l /\ TeeA(l, TRUE).reboot
    /\ \A l : TeeA(l, FALSE).run = "append" /\ TeeA(l, FALSE).line = l /\ ~TeeA(l, FALSE).reboot
<1>1. \A n : Cmd(n).run = n /\ Cmd(n).line = "none" /\ (Cmd(n).reboot <=> n = "reboot")
  BY DEF Cmd
<1>2. \A l : TeeA(l, TRUE).run = "append" /\ TeeA(l, TRUE).line = l /\ TeeA(l, TRUE).reboot
  BY DEF TeeA
<1>3. \A l : TeeA(l, FALSE).run = "append" /\ TeeA(l, FALSE).line = l /\ ~TeeA(l, FALSE).reboot
  BY DEF TeeA
<1> QED BY <1>1, <1>2, <1>3

LEMMA FixWorks ==
    ASSUME SetupInv, NEW c \in Lacking, tail \in SectionsFor(board), c.name \notin Beyond, RunsCommand(c.fix)
    PROVE  c.name \notin NamesOf(Lacking')
<1>0. NamesOf(Lacking') = NamesOf(Lacking)'
  BY Zenon DEF NamesOf
<1>1. \A n : n \in NamesOf(Lacking)' =>
         \/ BusLacks' /\ n = "bus"
         \/ IrLacks' /\ n = "ir"
         \/ UdevLacks' /\ n = "udev"
         \/ ArgondLacks' /\ n = "argond"
         \/ VendorLacks' /\ n = "vendor"
         \/ ~readable' /\ n = "config.txt"
  BY NamesFactsNext DEF NamesAre, Where
<1>b. board' = board /\ readable' = readable
  BY DEF RunsCommand, machine
<1>s. /\ c.name = "config.txt" => readable
      /\ c.name = "argond" => startable
  BY DEF Beyond
<1>2. CASE BusLacks /\ c.name = "bus" /\ c.fix = BusFix
  <2>1. c.fix.reboot /\ c.fix.run # "takeover" /\ c.fix.line \in {"none", "i2c_arm=on"}
    <3>1. CASE c.fix = Cmd("reboot")
      BY <3>1, CommandFields
    <3>2. CASE c.fix = TeeA("i2c_arm=on", TRUE)
      BY <3>2, CommandFields
    <3> QED BY <1>2, <3>1, <3>2 DEF BusFix
  <2>2. Reboots
    BY <2>1 DEF RunsCommand
  <2>3. lines' = WithLine(c.fix.line)
    BY <2>1 DEF RunsCommand, TakesOver
  <2>4. IsActive("i2c_arm=on")'
    <3>1. CASE IsActive("i2c_arm=on")
      BY <1>b, <2>3, <3>1, LineStays DEF WithLine
    <3>2. CASE ~IsActive("i2c_arm=on")
      <4>1. c.fix.line = "i2c_arm=on"
        BY <1>2, <3>2, CommandFields DEF BusFix
      <4> QED BY <1>b, <2>3, <4>1, LineIsAppended
    <3> QED BY <3>1, <3>2
  <2>5. "bus" \in devices'
    BY <1>b, <2>2, <2>4, DevicesAfterReboot
  <2>6. ~BusLacks'
    BY <2>5 DEF BusLacks, BusIsOff
  <2> QED BY <1>0, <1>1, <1>2, <2>6
<1>3. CASE IrLacks /\ c.name = "ir" /\ c.fix = IrFix
  <2>1. CASE IsActive("gpio-ir")
    <3>1. c.fix.reboot
      BY <1>3, <2>1, CommandFields DEF IrFix
    <3>2. Reboots
      BY <3>1 DEF RunsCommand
    <3>3. IsActive("gpio-ir")' <=> Lirc'
      BY <1>b, <3>2, DevicesAfterReboot DEF Lirc
    <3>4. ~IrLacks'
      BY <3>3 DEF IrLacks, IrIsOff
    <3> QED BY <1>0, <1>1, <1>3, <3>4
  <2>2. CASE ~IsActive("gpio-ir")
    <3>1. c.fix = TeeA("gpio-ir", FALSE) /\ Lirc
      BY <1>3, <2>2 DEF IrFix, IrLacks, IrIsOff
    <3>2. ~c.fix.reboot /\ c.fix.run # "takeover" /\ c.fix.line = "gpio-ir"
      BY <3>1, CommandFields
    <3>3. lines' = WithLine("gpio-ir") /\ devices' = devices
      BY <3>2 DEF RunsCommand, TakesOver
    <3>4. IsActive("gpio-ir")' /\ Lirc'
      BY <1>b, <3>1, <3>3, LineIsAppended DEF Lirc
    <3>5. ~IrLacks'
      BY <3>4 DEF IrLacks, IrIsOff
    <3> QED BY <1>0, <1>1, <1>3, <3>5
  <2> QED BY <2>1, <2>2
<1>4. CASE UdevLacks /\ c.name = "udev" /\ c.fix = Cmd("install")
  <2>1. installed'
    BY <1>4, CommandFields DEF RunsCommand
  <2>2. ~UdevLacks'
    BY <2>1 DEF UdevLacks
  <2> QED BY <1>0, <1>1, <1>4, <2>2
<1>5. CASE ArgondLacks /\ c.name = "argond" /\ c.fix = Cmd("start argond")
  <2>1. ~c.fix.reboot /\ StartsArgond(c.fix)
    BY <1>5, CommandFields DEF StartsArgond, ArgondLacks
  <2>2. daemon'
    BY <1>5, <1>s, <2>1 DEF RunsCommand
  <2>3. ~ArgondLacks'
    BY <2>2 DEF ArgondLacks
  <2> QED BY <1>0, <1>1, <1>5, <2>3
<1>6. CASE VendorLacks /\ c.name = "vendor" /\ c.fix = Cmd("stop vendor")
  <2>1. guests' = {}
    BY <1>6, CommandFields DEF RunsCommand
  <2>2. ~VendorLacks'
    BY <2>1 DEF VendorLacks
  <2> QED BY <1>0, <1>1, <1>6, <2>2
<1> QED BY <1>s, <1>2, <1>3, <1>4, <1>5, <1>6, NamesFacts DEF FixesAre

LEMMA NothingNew ==
    ASSUME SetupInv, NEW fix \in advised, RunsCommand(fix)
    PROVE  NamesOf(Lacking') \subseteq NamesOf(Lacking) \cup Beyond \cup (IF fix.reboot THEN {"udev", "vendor"} ELSE {})
<1>0. NamesOf(Lacking') = NamesOf(Lacking)'
  BY Zenon DEF NamesOf
<1>b. board' = board /\ fitted' = fitted /\ readable' = readable /\ startable' = startable
  BY DEF RunsCommand, machine
<1>f. /\ fix.run # "takeover" /\ lines' = WithLine(fix.line)
      /\ ~fix.reboot => fix.line = "none" \/ (fix.line = "gpio-ir" /\ Lirc)
      /\ fix.line # "none" => fix.line \in {"i2c_arm=on", "gpio-ir"}
      /\ fix.run = "install" => ~fix.reboot
  <2>1. /\ fix.run # "takeover"
        /\ ~fix.reboot => fix.line = "none" \/ (fix.line = "gpio-ir" /\ fix = TeeA("gpio-ir", FALSE))
        /\ fix.line # "none" => fix.line \in {"i2c_arm=on", "gpio-ir"}
        /\ fix.run = "install" => ~fix.reboot
    <3>1. CASE fix = TeeA("i2c_arm=on", TRUE)
      BY <3>1, CommandFields
    <3>2. CASE fix = TeeA("gpio-ir", FALSE)
      BY <3>2, CommandFields
    <3>3. CASE fix = Cmd("reboot")
      <4>1. fix.run = "reboot" /\ fix.line = "none" /\ (fix.reboot <=> "reboot" = "reboot")
        BY <3>3, CommandFields
      <4> QED BY <4>1
    <3>4. CASE fix = Cmd("start argond")
      <4>1. fix.run = "start argond" /\ fix.line = "none" /\ (fix.reboot <=> "start argond" = "reboot")
        BY <3>4, CommandFields
      <4> QED BY <4>1
    <3>5. CASE fix = Cmd("stop vendor")
      <4>1. fix.run = "stop vendor" /\ fix.line = "none" /\ (fix.reboot <=> "stop vendor" = "reboot")
        BY <3>5, CommandFields
      <4> QED BY <4>1
    <3>6. CASE fix = Cmd("install")
      <4>1. fix.run = "install" /\ fix.line = "none" /\ (fix.reboot <=> "install" = "reboot")
        BY <3>6, CommandFields
      <4> QED BY <4>1
    <3> QED BY <3>1, <3>2, <3>3, <3>4, <3>5, <3>6 DEF SetupInv, Printed
  <2> QED BY <2>1 DEF SetupInv, RunsCommand, TakesOver
<1>1. BusLacks' => BusLacks
  <2>1. CASE fix.reboot
    <3>1. Reboots
      BY <2>1 DEF RunsCommand
    <3>2. IsActive("i2c_arm=on") => IsActive("i2c_arm=on")'
      BY <1>b, <1>f, LineStays DEF WithLine
    <3>3. "bus" \in devices' <=> IsActive("i2c_arm=on")'
      BY <1>b, <3>1, DevicesAfterReboot
    <3> QED BY <1>b, <3>2, <3>3 DEF BusLacks, BusIsOff, SetupInv
  <2>2. CASE ~fix.reboot
    <3>1. devices' = devices
      BY <2>2 DEF RunsCommand
    <3>2. IsActive("i2c_arm=on")' => IsActive("i2c_arm=on")
      <4>1. CASE fix.line = "none"
        BY <1>b, <1>f, <4>1 DEF WithLine, IsActive
      <4>2. CASE fix.line = "gpio-ir"
        BY <1>b, <1>f, <4>2, LineIsAppended
      <4> QED BY <1>f, <2>2, <4>1, <4>2
    <3> QED BY <1>b, <3>1, <3>2 DEF BusLacks, BusIsOff
  <2> QED BY <2>1, <2>2
<1>2. IrLacks' => IrLacks
  <2>1. CASE fix.reboot
    <3>1. Reboots
      BY <2>1 DEF RunsCommand
    <3> QED BY <1>b, <3>1, DevicesAfterReboot DEF IrLacks, IrIsOff, Lirc
  <2>2. CASE ~fix.reboot
    <3>1. Lirc' <=> Lirc
      BY <2>2 DEF RunsCommand, Lirc
    <3>2. CASE fix.line = "none"
      <4>1. IsActive("gpio-ir")' <=> IsActive("gpio-ir")
        BY <1>b, <1>f, <3>2 DEF WithLine, IsActive
      <4> QED BY <1>b, <3>1, <4>1 DEF IrLacks, IrIsOff
    <3>3. CASE fix.line = "gpio-ir" /\ Lirc
      <4>1. IsActive("gpio-ir") => IsActive("gpio-ir")'
        BY <1>b, <1>f, LineStays DEF WithLine
      <4> QED BY <1>b, <3>1, <3>3, <4>1 DEF IrLacks, IrIsOff
    <3> QED BY <1>f, <2>2, <3>2, <3>3
  <2> QED BY <2>1, <2>2
<1>3. ~fix.reboot => (UdevLacks' => UdevLacks)
  BY <1>b DEF UdevLacks, UpsPresent, RunsCommand
<1>4. ArgondLacks' /\ startable => ArgondLacks
  <2>1. CASE fix.reboot
    BY <1>f, <2>1 DEF ArgondLacks, RunsCommand, Reboots
  <2>2. CASE ~fix.reboot
    BY <2>2 DEF ArgondLacks, RunsCommand, StartsArgond, SetupInv
  <2> QED BY <2>1, <2>2
<1>5. ~fix.reboot => (VendorLacks' => VendorLacks)
  BY DEF VendorLacks, RunsCommand
<1>6. "argond" \in Beyond <=> ~startable
  BY DEF Beyond
<1> QED BY <1>0, <1>b, <1>1, <1>2, <1>3, <1>4, <1>5, <1>6, NamesFacts, NamesFactsNext DEF NamesAre, Where

LEMMA SetupIsInvariant == SetupSpec => []SetupInv
BY SetupInitial, SetupInductive, PTL DEF SetupSpec

THEOREM FixIsNotAskedAgainAlways == SetupSpec => FixIsNotAskedAgain
<1>1. SetupInv /\ [SetupNext]_setupVars
      => [\A c \in Lacking : tail \in SectionsFor(board) /\ c.name \notin Beyond /\ RunsCommand(c.fix)
                              => c.name \notin NamesOf(Lacking')]_setupVars
  BY FixWorks
<1> QED BY <1>1, SetupIsInvariant, PTL DEF SetupSpec, FixIsNotAskedAgain

THEOREM NothingElseGoesMissingAlways == SetupSpec => NothingElseGoesMissing
<1>1. SetupInv /\ [SetupNext]_setupVars
      => [\A fix \in advised : RunsCommand(fix) =>
            NamesOf(Lacking') \subseteq NamesOf(Lacking) \cup Beyond \cup (IF fix.reboot THEN {"udev", "vendor"} ELSE {})]_setupVars
  BY NothingNew
<1> QED BY <1>1, SetupIsInvariant, PTL DEF SetupSpec, NothingElseGoesMissing
=============================================================================
