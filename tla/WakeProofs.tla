---------------------------- MODULE WakeProofs ----------------------------
(***************************************************************************)
(* Proofs about Wake.  Four inductive invariants, each on top of the one   *)
(* before: Base and, when work is prompt, Watched, whatever fails; Quiet,  *)
(* when no write is lost; Kept, when nothing fails.                        *)
(***************************************************************************)
EXTENDS Wake, TLAPS

\* A look ends early enough for the next one to be in time, and work takes no
\* longer than the assertion of wake.rs leaves room for.
Prompt ==
    /\ CheckEvery + 2 * Slack + Skew <= ParkWindow
    /\ Slack <= Minute

\* The clock keeps the bounds that the scheduling assumption gives it.
ClockOK ==
    /\ now <= Horizon
    /\ on => now <= lookBy /\ lookBy <= now + CheckEvery + Slack
    /\ on /\ phase # "idle" => clock <= now /\ now <= clock + Slack

\* A request under way is for long enough ahead.
RequestOK ==
    /\ asked # None => asked < ParkAt
    /\ phase \in {"set", "readback", "poweroff"} =>
          asked # None /\ asked - clock >= MinLead

\* A poweroff comes within the delay, and long before the wake it came with.
PoweroffOK ==
    poweroff # None =>
        /\ on => now <= poweroff.at /\ poweroff.at <= now + PoweroffDelay
        /\ poweroff.wake # None =>
              poweroff.wake >= poweroff.at - PoweroffDelay - Slack + MinLead

Base ==
    /\ TypeOK
    /\ ClockOK
    /\ RequestOK
    /\ PoweroffOK
    /\ phase = "park" => MustPark(wake, clock)

\* A schedule looked at is not due before the next look has ended.
Watched ==
    on /\ looked /\ WakeWrites /\ wake \in Int => wake > lookBy + Skew

\* With no write lost: the register holds what the request under way wrote,
\* and one that a failed request set is gone.
Quiet ==
    /\ phase \in {"readback", "poweroff"} => wake = asked
    /\ answer = "failed" => wake # asked /\ phase \notin {"set", "readback", "poweroff"}

\* With nothing failing: the register holds a wake for a pending poweroff.
Kept ==
    /\ phase # "unset"
    /\ on /\ poweroff # None =>
          (poweroff.wake # None => wake \in Int /\ poweroff.at + ParkWindow < wake /\ wake < ParkAt)

LEMMA ConstantTypes ==
    /\ ParkAt \in Int /\ LastTime \in Int
    /\ ParkWindow \in Nat /\ ParkWindow > 0
    /\ CheckEvery \in Nat /\ CheckEvery > 0
    /\ MinLead \in Nat
    /\ PoweroffDelay \in Nat /\ PoweroffDelay > 0
    /\ Minute \in Nat /\ Minute > 0
    /\ Slack \in Nat /\ Skew \in Nat /\ Horizon \in Nat
    /\ WakeWrites \in BOOLEAN
    /\ Faults \subseteq {"read", "write", "command"}
    /\ FirstWakes \subseteq Int \cup {None, BadDate} /\ Leads \subseteq Nat
    /\ None \notin Int /\ BadDate \notin Int /\ None # BadDate
    /\ None \notin Poweroff
  BY WakeAssumption, NoneAssumption

USE ConstantTypes, ConstAssertions, ParkedIsInert

-----------------------------------------------------------------------------
(* Rounding. *)

LEMMA WholeMinuteRounds ==
    ASSUME NEW at \in Int
    PROVE  /\ WholeMinute(at) \in Int
           /\ WholeMinute(at) <= at
           /\ WholeMinute(at) % Minute = 0
  <1>1. Minute \in Nat \ {0}
    OBVIOUS
  <1> HIDE ConstantTypes, ConstAssertions, ParkedIsInert
  <1>2. at % Minute \in 0..(Minute - 1)
    BY <1>1
  <1>3. (at - (at % Minute)) % Minute = 0
    BY <1>1
  <1> QED
    BY <1>1, <1>2, <1>3 DEF WholeMinute

\* An accepted request is a whole minute, MIN_LEAD ahead, and not PARK_AT.
LEMMA ScheduleForLeads ==
    ASSUME NEW lead \in Leads, NEW from \in Int, from <= Horizon,
           ScheduleFor(from + lead, from) # None
    PROVE  /\ ScheduleFor(from + lead, from) \in {t \in Int : t % Minute = 0}
           /\ ScheduleFor(from + lead, from) - from >= MinLead
           /\ ScheduleFor(from + lead, from) < ParkAt
  <1> DEFINE t == WholeMinute(from + lead)
  <1>1. lead \in Nat /\ from + lead < ParkAt
    OBVIOUS
  <1>2. t \in Int /\ t <= from + lead /\ t % Minute = 0
    BY <1>1, WholeMinuteRounds
  <1>3. ScheduleFor(from + lead, from) = t /\ ~(t - from < MinLead)
    BY DEF ScheduleFor
  <1> HIDE DEF t
  <1> QED
    BY <1>1, <1>2, <1>3

-----------------------------------------------------------------------------
(* Whatever fails. *)

\* The Boolean variables stay Boolean.
LEMMA FlagsInit == Init => FlagsOK
  BY DEF Init, FlagsOK

LEMMA FlagsStep == FlagsOK /\ [Next]_vars => FlagsOK'
  <1> HIDE ConstantTypes, ConstAssertions, ParkedIsInert
  <1> SUFFICES ASSUME FlagsOK, [Next]_vars PROVE FlagsOK'
    OBVIOUS
  <1>1. on \in BOOLEAN /\ looked \in BOOLEAN
    BY DEF FlagsOK
  <1>2. on' \in {TRUE, FALSE, on} /\ looked' \in {TRUE, FALSE, looked}
    BY DEF Next, vars, StartLook, Look, LookFails, Park, Request, SetWake, ReadBack,
           SchedulePoweroff, ScheduleFails, Unset, OthersCancel, OthersSchedule,
           OthersAct, Restart, Off, Boot, Tick
  <1> QED
    BY <1>1, <1>2 DEF FlagsOK

LEMMA BaseInit == Init => Base
  BY FlagsInit DEF Init, Base, TypeOK, ClockOK, RequestOK, PoweroffOK, Phases, Answers

LEMMA BaseStep == Base /\ [Next]_vars => Base'
  <1> SUFFICES ASSUME Base, [Next]_vars PROVE Base'
    OBVIOUS
  <1>0. FlagsOK'
    BY FlagsStep DEF Base, TypeOK
  <1>a. CASE StartLook
    BY <1>0, <1>a DEF StartLook, Base, TypeOK, ClockOK, RequestOK, PoweroffOK, Phases, counters
  <1>b. CASE Look
    BY <1>0, <1>b DEF Look, LookDone, Base, TypeOK, ClockOK, RequestOK, PoweroffOK, Phases, MustPark, counters
  <1>c. CASE LookFails
    BY <1>0, <1>c DEF LookFails, LookDone, Base, TypeOK, ClockOK, RequestOK, PoweroffOK, Phases, counters
  <1>d. CASE Park
    <2>1. wake' \in Int \cup {None, BadDate}
      BY <1>d DEF Park, Written, Base, TypeOK
    <2>2. /\ LookDone
          /\ UNCHANGED <<on, now, poweroff, clock, asked, answer, counters>>
      BY <1>d DEF Park
    <2> QED
      BY <1>0, <2>1, <2>2
         DEF LookDone, Base, TypeOK, ClockOK, RequestOK, PoweroffOK, Phases, counters
  <1>e. CASE \E lead \in Leads : Request(now + lead)
    <2> PICK lead \in Leads : Request(now + lead)
      BY <1>e
    <2>1. now \in Int /\ now <= Horizon
      BY DEF Base, TypeOK, ClockOK
    <2>2. CASE WakeWrites /\ ScheduleFor(now + lead, now) # None
      BY <1>0, <2>1, <2>2, ScheduleForLeads
         DEF Request, Base, TypeOK, ClockOK, RequestOK, PoweroffOK, Phases, Answers
    <2>3. CASE ~(WakeWrites /\ ScheduleFor(now + lead, now) # None)
      BY <1>0, <2>1, <2>3
         DEF Request, Answer, Base, TypeOK, ClockOK, RequestOK, PoweroffOK, Phases, Answers
    <2> QED
      BY <2>2, <2>3
  <1>f. CASE SetWake
    BY <1>0, <1>f DEF SetWake, Answer, Written, Base, TypeOK, ClockOK, RequestOK, PoweroffOK,
                Phases, Answers, counters
  <1>g. CASE ReadBack
    BY <1>0, <1>g DEF ReadBack, Base, TypeOK, ClockOK, RequestOK, PoweroffOK, Phases, counters
  <1>h. CASE SchedulePoweroff
    BY <1>0, <1>h DEF SchedulePoweroff, Answer, Base, TypeOK, ClockOK, RequestOK, PoweroffOK,
                Poweroff, Phases, Answers, counters
  <1>i. CASE ScheduleFails
    BY <1>0, <1>i DEF ScheduleFails, Base, TypeOK, ClockOK, RequestOK, PoweroffOK, Phases, counters
  <1>j. CASE Unset
    BY <1>0, <1>j DEF Unset, Answer, Written, Base, TypeOK, ClockOK, RequestOK, PoweroffOK,
                Phases, Answers, counters
  <1>k. CASE OthersCancel
    BY <1>0, <1>k DEF OthersCancel, OthersAct, Base, TypeOK, ClockOK, RequestOK, PoweroffOK
  <1>l. CASE OthersSchedule
    BY <1>0, <1>l DEF OthersSchedule, OthersAct, Base, TypeOK, ClockOK, RequestOK, PoweroffOK, Poweroff
  <1>m. CASE Restart
    BY <1>0, <1>m DEF Restart, Base, TypeOK, ClockOK, RequestOK, PoweroffOK, Phases, Answers
  <1>n. CASE Off
    BY <1>0, <1>n DEF Off, Base, TypeOK, ClockOK, RequestOK, PoweroffOK, counters
  <1>o. CASE Boot
    BY <1>0, <1>o DEF Boot, Base, TypeOK, ClockOK, RequestOK, PoweroffOK, Phases, Answers, counters
  <1>p. CASE Tick
    BY <1>0, <1>p DEF Tick, Base, TypeOK, ClockOK, RequestOK, PoweroffOK, Poweroff, counters
  <1>q. CASE UNCHANGED vars
    BY <1>0, <1>q DEF vars, Base, TypeOK, ClockOK, RequestOK, PoweroffOK, MustPark, counters
  <1> QED
    BY <1>a, <1>b, <1>c, <1>d, <1>e, <1>f, <1>g, <1>h, <1>i, <1>j, <1>k, <1>l, <1>m,
       <1>n, <1>o, <1>p, <1>q DEF Next

LEMMA BaseHolds == Spec => []Base
  <1> QED
    BY BaseInit, BaseStep, PTL DEF Spec

\* Everything has its type, and a requested schedule is a whole minute
\* (wake.rs, schedule_for).
THEOREM TypeCorrect == Spec => []TypeOK
  <1>1. Base => TypeOK
    BY DEF Base
  <1> QED
    BY <1>1, BaseHolds, PTL

\* When work is prompt, the safety net never parks the wake that the pending
\* poweroff came with, whatever fails (wake.rs, MIN_LEAD).
THEOREM ParkingSparesAlways ==
    ASSUME Prompt PROVE Spec => ParkingSparesTheRequested
  <1>1. Base /\ [Next]_vars => [Park /\ poweroff # None => poweroff.wake # wake]_vars
    <2> SUFFICES ASSUME Base, Park, poweroff # None, poweroff.wake = wake PROVE FALSE
      OBVIOUS
    <2>1. on /\ phase = "park"
      BY DEF Park
    <2>2. poweroff \in Poweroff /\ wake \in Int
      BY <2>1 DEF Base, TypeOK, MustPark, Poweroff
    <2>3. wake - clock <= ParkWindow /\ clock <= now /\ now <= poweroff.at
      BY <2>1, <2>2 DEF Base, MustPark, ClockOK, PoweroffOK
    <2>4. wake >= poweroff.at - PoweroffDelay - Slack + MinLead
      BY <2>2 DEF Base, PoweroffOK
    <2> QED
      BY <2>2, <2>3, <2>4 DEF Prompt, Base, TypeOK, Poweroff
  <1> QED
    BY <1>1, BaseHolds, PTL DEF Spec, ParkingSparesTheRequested

-----------------------------------------------------------------------------
(* Prompt looks. *)

LEMMA WatchedStep ==
    ASSUME Prompt, Base, Watched, [Next]_vars
    PROVE  Watched'
  <1>0. TypeOK /\ ClockOK /\ RequestOK
    BY DEF Base
  <1>1. on => ParkAt > lookBy + Skew /\ ParkAt > now + CheckEvery + Slack + Skew
    BY <1>0 DEF TypeOK, ClockOK
  <1>a. CASE StartLook
    BY <1>a DEF StartLook, Watched
  <1>b. CASE Look
    <2>1. CASE WakeWrites /\ MustPark(wake, clock)
      BY <1>b, <2>1 DEF Look, Watched
    <2>2. CASE ~(WakeWrites /\ MustPark(wake, clock))
      <3>1. now - clock <= Slack /\ lookBy' = now + CheckEvery + Slack /\ on' = on /\ wake' = wake
        BY <1>0, <1>b, <2>2 DEF Look, LookDone, TypeOK, ClockOK
      <3>2. WakeWrites /\ wake \in Int => wake - clock > ParkWindow
        BY <1>0, <2>2 DEF MustPark, TypeOK
      <3> QED
        BY <1>0, <3>1, <3>2 DEF Watched, Prompt, TypeOK
    <2> QED
      BY <2>1, <2>2
  <1>c. CASE LookFails
    BY <1>c DEF LookFails, Watched
  <1>d. CASE Park
    <2> PICK o \in WriteOutcomes : wake' = Written(ParkAt, o) /\ looked' = (o # "request lost")
      BY <1>d DEF Park
    <2>1. CASE o = "request lost"
      BY <2>1 DEF Watched
    <2>2. CASE o # "request lost"
      BY <1>1, <1>d, <2>2 DEF Park, LookDone, Written, Watched
    <2> QED
      BY <2>1, <2>2
  <1>e. CASE \E lead \in Leads : Request(now + lead)
    BY <1>e DEF Request, Watched
  <1>f. CASE SetWake
    <2>1. asked \in Int /\ asked > lookBy + Skew
      BY <1>0, <1>f DEF SetWake, TypeOK, ClockOK, RequestOK, Prompt
    <2>2. wake' \in {asked, wake}
      BY <1>f DEF SetWake, Written
    <2>3. on' = on /\ looked' = looked /\ lookBy' = lookBy
      BY <1>f DEF SetWake
    <2> QED
      BY <2>1, <2>2, <2>3 DEF Watched
  <1>g. CASE ReadBack
    BY <1>g DEF ReadBack, Watched
  <1>h. CASE SchedulePoweroff
    BY <1>h DEF SchedulePoweroff, Watched
  <1>i. CASE ScheduleFails
    BY <1>i DEF ScheduleFails, Watched
  <1>j. CASE Unset
    <2>1. wake' \in {ParkAt, wake}
      BY <1>j DEF Unset, Written
    <2>2. on' = on /\ looked' = looked /\ lookBy' = lookBy
      BY <1>j DEF Unset
    <2> QED
      BY <1>1, <2>1, <2>2 DEF Watched
  <1>k. CASE OthersCancel
    BY <1>k DEF OthersCancel, OthersAct, Watched
  <1>l. CASE OthersSchedule
    BY <1>l DEF OthersSchedule, OthersAct, Watched
  <1>m. CASE Restart
    BY <1>m DEF Restart, Watched
  <1>n. CASE Off
    BY <1>n DEF Off, Watched
  <1>o. CASE Boot
    BY <1>o DEF Boot, Watched
  <1>p. CASE Tick
    BY <1>p DEF Tick, Watched
  <1>q. CASE UNCHANGED vars
    BY <1>q DEF vars, Watched
  <1> QED
    BY <1>a, <1>b, <1>c, <1>d, <1>e, <1>f, <1>g, <1>h, <1>i, <1>j, <1>k, <1>l, <1>m,
       <1>n, <1>o, <1>p, <1>q DEF Next

\* "A wake schedule must never come due while the machine is running", for
\* all times that leave the looks prompt and whatever fails, as long as the
\* last look was carried through (wake.rs).
THEOREM NeverDueAlways ==
    ASSUME Prompt PROVE Spec => []NeverDue
  <1>1. Init => Watched
    BY DEF Init, Watched
  <1>2. Base /\ Watched /\ [Next]_vars => Watched'
    BY WatchedStep
  <1>3. Base /\ Watched => NeverDue
    BY DEF Base, Watched, ClockOK, TypeOK, NeverDue, Due
  <1> QED
    BY <1>1, <1>2, <1>3, BaseHolds, PTL DEF Spec

-----------------------------------------------------------------------------
(* No write is lost. *)

LEMMA QuietInit == Init => Quiet
  BY DEF Init, Quiet

LEMMA QuietStep ==
    ASSUME "write" \notin Faults, Base, Quiet, [Next]_vars
    PROVE  Quiet'
  <1>0. TypeOK /\ ClockOK /\ RequestOK
    BY DEF Base
  <1>1. WriteOutcomes = {"ok"}
    BY DEF WriteOutcomes
  <1>a. CASE StartLook
    BY <1>a DEF StartLook, Quiet
  <1>b. CASE Look
    BY <1>b DEF Look, LookDone, Quiet
  <1>c. CASE LookFails
    BY <1>c DEF LookFails, LookDone, Quiet
  <1>d. CASE Park
    <2>1. wake' = ParkAt
      BY <1>1, <1>d DEF Park, Written
    <2>2. asked # ParkAt
      BY <1>0 DEF TypeOK, RequestOK
    <2>3. phase' = "idle" /\ asked' = asked /\ answer' = answer
      BY <1>d DEF Park, LookDone
    <2> QED
      BY <2>1, <2>2, <2>3 DEF Quiet
  <1>e. CASE \E lead \in Leads : Request(now + lead)
    BY <1>e DEF Request, Answer, Quiet
  <1>f. CASE SetWake
    <2>1. wake' = asked /\ phase' = "readback" /\ answer' = answer
      BY <1>1, <1>f DEF SetWake, Written
    <2> QED
      BY <1>f, <2>1 DEF SetWake, Quiet
  <1>g. CASE ReadBack
    BY <1>g DEF ReadBack, Quiet
  <1>h. CASE SchedulePoweroff
    BY <1>h DEF SchedulePoweroff, Answer, Quiet
  <1>i. CASE ScheduleFails
    BY <1>i DEF ScheduleFails, Quiet
  <1>j. CASE Unset
    <2>1. wake' = ParkAt
      BY <1>1, <1>j DEF Unset, Written
    <2> QED
      BY <1>0, <1>j, <2>1 DEF Unset, Answer, Quiet, TypeOK, RequestOK
  <1>k. CASE OthersCancel
    BY <1>k DEF OthersCancel, OthersAct, Quiet
  <1>l. CASE OthersSchedule
    BY <1>l DEF OthersSchedule, OthersAct, Quiet
  <1>m. CASE Restart
    BY <1>m DEF Restart, Quiet
  <1>n. CASE Off
    BY <1>n DEF Off, Quiet
  <1>o. CASE Boot
    BY <1>o DEF Boot, Quiet
  <1>p. CASE Tick
    BY <1>p DEF Tick, Quiet
  <1>q. CASE UNCHANGED vars
    BY <1>q DEF vars, Quiet
  <1> QED
    BY <1>a, <1>b, <1>c, <1>d, <1>e, <1>f, <1>g, <1>h, <1>i, <1>j, <1>k, <1>l, <1>m,
       <1>n, <1>o, <1>p, <1>q DEF Next

LEMMA QuietHolds ==
    ASSUME "write" \notin Faults PROVE Spec => []Quiet
  <1>1. Base /\ Quiet /\ [Next]_vars => Quiet'
    BY QuietStep
  <1> QED
    BY <1>1, QuietInit, BaseHolds, PTL DEF Spec

\* As long as no write is lost, a request that ends in an error leaves no wake
\* of its own behind, whichever questions and commands fail (ups.rs,
\* handle_request).
THEOREM NoLiveAfterErrorAlways ==
    ASSUME "write" \notin Faults PROVE Spec => []NoLiveAfterError
  <1>1. Quiet => NoLiveAfterError
    BY DEF Quiet, NoLiveAfterError
  <1> QED
    BY <1>1, QuietHolds, PTL

-----------------------------------------------------------------------------
(* Nothing fails. *)

LEMMA KeptInit == Init => Kept
  BY DEF Init, Kept

LEMMA KeptStep ==
    ASSUME Prompt, Faults = {}, Base, Quiet, Kept, [Next]_vars
    PROVE  Kept'
  <1>0. TypeOK /\ ClockOK /\ RequestOK /\ PoweroffOK
    BY DEF Base
  <1>1. WriteOutcomes = {"ok"}
    BY DEF WriteOutcomes
  <1>a. CASE StartLook
    BY <1>a DEF StartLook, Kept
  <1>b. CASE Look
    BY <1>b DEF Look, LookDone, Kept
  <1>c. CASE LookFails
    BY <1>c DEF LookFails
  <1>d. CASE Park
    <2>1. on /\ phase = "park" /\ MustPark(wake, clock)
      BY <1>d DEF Park, Base
    <2>2. poweroff = None \/ poweroff.wake = None
      BY <1>0, <2>1 DEF MustPark, TypeOK, ClockOK, PoweroffOK, Poweroff, Kept
    <2> QED
      BY <1>d, <2>2 DEF Park, LookDone, Kept
  <1>e. CASE \E lead \in Leads : Request(now + lead)
    BY <1>e DEF Request, Answer, Kept
  <1>f. CASE SetWake
    <2>1. wake' = asked /\ phase' = "readback"
      BY <1>1, <1>f DEF SetWake, Written
    <2>2. asked \in Int /\ asked > now + PoweroffDelay + ParkWindow /\ asked < ParkAt
      BY <1>0, <1>f DEF SetWake, TypeOK, ClockOK, RequestOK, Prompt
    <2>3. on /\ poweroff # None => poweroff.at \in Int /\ poweroff.at <= now + PoweroffDelay
      BY <1>0 DEF TypeOK, PoweroffOK, Poweroff
    <2> QED
      BY <1>0, <1>f, <2>1, <2>2, <2>3 DEF SetWake, Kept, TypeOK
  <1>g. CASE ReadBack
    BY <1>g DEF ReadBack, Kept, Quiet
  <1>h. CASE SchedulePoweroff
    <2>1. wake = asked /\ asked \in Int /\ asked < ParkAt
      BY <1>0, <1>h DEF SchedulePoweroff, Quiet, TypeOK, RequestOK
    <2>2. asked > now + PoweroffDelay + ParkWindow
      BY <1>0, <1>h DEF SchedulePoweroff, TypeOK, ClockOK, RequestOK, Prompt
    <2> QED
      BY <1>0, <1>h, <2>1, <2>2 DEF SchedulePoweroff, Answer, Kept, TypeOK
  <1>i. CASE ScheduleFails
    BY <1>i DEF ScheduleFails
  <1>j. CASE Unset
    BY <1>j DEF Unset, Kept
  <1>k. CASE OthersCancel
    BY <1>k DEF OthersCancel, OthersAct, Kept
  <1>l. CASE OthersSchedule
    BY <1>l DEF OthersSchedule, OthersAct, Kept
  <1>m. CASE Restart
    BY <1>m DEF Restart, Kept
  <1>n. CASE Off
    BY <1>n DEF Off, Kept
  <1>o. CASE Boot
    BY <1>o DEF Boot, Kept
  <1>p. CASE Tick
    BY <1>p DEF Tick, Kept
  <1>q. CASE UNCHANGED vars
    BY <1>q DEF vars, Kept
  <1> QED
    BY <1>a, <1>b, <1>c, <1>d, <1>e, <1>f, <1>g, <1>h, <1>i, <1>j, <1>k, <1>l, <1>m,
       <1>n, <1>o, <1>p, <1>q DEF Next

\* When nothing fails, a machine that goes off for a requested wake has a wake
\* to come, however many requests there were and whoever else cancelled or
\* placed poweroffs (wake.rs, MIN_LEAD).
THEOREM OffWithItsWakeAlways ==
    ASSUME Prompt, Faults = {} PROVE Spec => OffWithItsWake
  <1>1. Base /\ Quiet /\ Kept /\ [Next]_vars => Kept'
    BY KeptStep
  <1>2. Spec => []Quiet
    BY QuietHolds
  <1>3. Base /\ Kept =>
          [Off /\ poweroff.wake # None => wake \in Int \ {ParkAt} /\ wake > now + Skew]_vars
    <2> SUFFICES ASSUME Base, Kept, Off, poweroff.wake # None
                 PROVE  wake \in Int \ {ParkAt} /\ wake > now + Skew
      OBVIOUS
    <2>1. on /\ poweroff \in Poweroff /\ now = poweroff.at
      BY DEF Off, Base, TypeOK
    <2> QED
      BY <2>1 DEF Kept, Base, TypeOK, Poweroff, Prompt
  <1> QED
    BY <1>1, <1>2, <1>3, KeptInit, BaseHolds, PTL DEF Spec, OffWithItsWake

=============================================================================
