----------------------------- MODULE UpsProofs -----------------------------
(***************************************************************************)
(* What the UPS's own logic promises: the battery policy, the conversions  *)
(* of a time and the serial link.                                          *)
(*                                                                         *)
(* The policy keeps two counters and a remembered level; its properties    *)
(* talk of the whole history.  The inductive invariant says what each of   *)
(* the three remembers of that history: StreakMeans, MainsMeans,           *)
(* KnownMeans.                                                             *)
(*                                                                         *)
(* The calendar's invariant is that the date is its day's: the conversions *)
(* are then shown to be the two directions of DayOf, which grows by one    *)
(* from each date to the next.                                             *)
(*                                                                         *)
(* The link's invariant says, of a request on a line with nothing left     *)
(* over from an earlier one, where its answer is: as long as nothing went  *)
(* wrong (OnItsWay), still to come, owed by the device, or spread over the *)
(* wire and the reader with not a byte missing; after one fault, somewhere *)
(* in what that fault can make of it (AfterOne).  That no such bytes hold  *)
(* another answer is DamageIsSeen: one byte that differs changes the       *)
(* checksum, and every other fault moves the start byte.                   *)
(***************************************************************************)
EXTENDS BatteryPolicy, Link, Calendar, FiniteSetTheorems, SequenceTheorems,
        WellFoundedInduction, TLAPS

-----------------------------------------------------------------------------
(* The battery policy. *)

Polled == Len(polls)

\* mains_streak is the length of the mains run the history ends in, as far
\* as Confirmations can tell, and mains is reported exactly while it runs.
MainsMeans ==
    /\ policy.mains_streak <= Polled
    /\ \A i \in (Polled - policy.mains_streak + 1)..Polled : MainsAt(i)
    /\ policy.mains_streak < Confirmations =>
          \/ policy.mains_streak = Polled
          \/ ~MainsAt(Polled - policy.mains_streak)
    /\ policy.reported = "OnMains" <=> policy.mains_streak > 0

\* A positive critical_streak counts readings of an unbroken stretch.
StreakIsEarned ==
    policy.critical_streak > 0 =>
        \E j \in 1..Polled :
           /\ Unbroken(j, Polled)
           /\ Cardinality(CriticalReadings(j, Polled)) >= policy.critical_streak

\* No unbroken stretch holds more of them, unless the counter saturated.
StreakIsComplete ==
    \A j \in 1..Polled :
        Unbroken(j, Polled) =>
            \/ Cardinality(CriticalReadings(j, Polled)) <= policy.critical_streak
            \/ policy.critical_streak = MaxStreak

KnownMeans ==
    /\ policy.known = "Critical" <=> CriticalEarned
    /\ policy.reported = "Critical" <=> policy.known = "Critical"

\* The supply was read low on battery and nothing since has cleared it.
LowHeld ==
    \E k \in 1..Polled :
       /\ IsBattery(polls[k]) /\ Percent(polls[k]) <= LowPercent
       /\ \A i \in k..Polled : GapAt(i) \/ UnclearedAt(i, LowPercent)

LowMeans ==
    /\ policy.known \in {"Low", "Critical"} <=> LowHeld
    /\ policy.reported \in {"Low", "Critical"} <=>
          LowHeld /\ Polled > 0 /\ ~GapAt(Polled)

TypeInv ==
    /\ TypeOK
    /\ decision = DecisionOn(policy, uptime)

Inv ==
    /\ TypeInv
    /\ MainsMeans
    /\ StreakIsEarned
    /\ StreakIsComplete
    /\ KnownMeans
    /\ LowMeans

-----------------------------------------------------------------------------
(* The types. *)

LEMMA BumpType ==
    ASSUME NEW s \in 0..MaxStreak
    PROVE  /\ Bump(s) \in 0..MaxStreak
           /\ Bump(s) > 0
           /\ Bump(s) <= s + 1
           /\ Bump(s) = MaxStreak \/ Bump(s) = s + 1
  BY PolicyAssumption DEF Bump

LEMMA ObservedType ==
    ASSUME NEW p \in [known : Level, critical_streak : 0..MaxStreak,
                      mains_streak : 0..MaxStreak, reported : Level],
           NEW o
    PROVE  Observed(p, o) \in
             [known : Level, critical_streak : 0..MaxStreak,
              mains_streak : 0..MaxStreak, reported : Level]
<1>1. MainsStreak(p, o) \in 0..MaxStreak
  BY BumpType, PolicyAssumption DEF MainsStreak
<1>2. CriticalStreak(p, o) \in 0..MaxStreak
  BY BumpType, PolicyAssumption DEF CriticalStreak
<1>3. BatteryLevel(p, o) \in Level
  BY DEF BatteryLevel, Level
<1>4. ReportedLevel(p, o) \in Level
  BY <1>3 DEF ReportedLevel, Level
<1>5. KnownLevel(p, o) \in Level
  BY <1>4 DEF KnownLevel, Level
<1> QED
  BY <1>1, <1>2, <1>4, <1>5 DEF Observed

LEMMA DecisionType ==
    ASSUME NEW p, p.reported \in Level, NEW u
    PROVE  DecisionOn(p, u) \in
             [level : Level, advice : Advice, confirmed_recovery : BOOLEAN]
  BY DEF DecisionOn, Advice

\* A poll, answered or not, as one step of the policy.
LEMMA PollStep ==
    ASSUME Next
    PROVE  \E o \in Readings \cup {Gap} : Observe(o)
  BY DEF Next

LEMMA TypeInvInit == Init => TypeInv
<1> SUFFICES ASSUME Init PROVE TypeInv
  OBVIOUS
<1>1. policy \in [known : Level, critical_streak : 0..MaxStreak,
                  mains_streak : 0..MaxStreak, reported : Level]
  BY PolicyAssumption DEF Init, NewPolicy, Level
<1>2. NewPolicy.reported \in Level
  BY DEF NewPolicy, Level
<1> QED
  BY <1>1, <1>2, DecisionType DEF Init, TypeInv, TypeOK

LEMMA TypeInvStep == TypeInv /\ [Next]_vars => TypeInv'
<1> SUFFICES ASSUME TypeInv, [Next]_vars PROVE TypeInv'
  OBVIOUS
<1>1. CASE Next
  <2>1. PICK o \in Readings \cup {Gap} : Observe(o)
    BY <1>1, PollStep
  <2>2. policy' \in [known : Level, critical_streak : 0..MaxStreak,
                     mains_streak : 0..MaxStreak, reported : Level]
    BY <2>1, ObservedType DEF Observe, TypeInv, TypeOK
  <2>3. decision' \in [level : Level, advice : Advice, confirmed_recovery : BOOLEAN]
    BY <2>1, <2>2, DecisionType DEF Observe
  <2> QED
    BY <2>1, <2>2, <2>3 DEF Observe, TypeInv, TypeOK
<1>2. CASE UNCHANGED vars
  BY <1>2 DEF vars, TypeInv, TypeOK
<1> QED
  BY <1>1, <1>2

\* The state of the policy, every decision and the history keep their types.
THEOREM TypeCorrect == Spec => []TypeOK
<1>1. TypeInv => TypeOK
  BY DEF TypeInv
<1> QED
  BY <1>1, TypeInvInit, TypeInvStep, PTL DEF Spec

-----------------------------------------------------------------------------
(* One poll, and what it leaves of the history. *)

\* The readings before a poll are the readings after it.
LEMMA Appended ==
    ASSUME TypeInv, NEW o \in Readings \cup {Gap}, Observe(o)
    PROVE  /\ Polled \in Nat
           /\ Polled' = Polled + 1
           /\ \A i \in 1..Polled : polls'[i] = polls[i]
           /\ polls'[Polled + 1] = o
           /\ policy' = Observed(policy, o)
           /\ decision' = DecisionOn(policy', uptime')
           /\ policy.mains_streak \in 0..MaxStreak
           /\ policy.critical_streak \in 0..MaxStreak
           /\ policy.known \in Level
           /\ policy.reported \in Level
  BY DEF TypeInv, TypeOK, Observe, Polled

\* The three kinds of observation exclude one another.
LEMMA Kinds ==
    ASSUME NEW o \in Readings \cup {Gap}
    PROVE  /\ IsMains(o) \/ IsBattery(o) \/ o = Gap
           /\ ~(IsMains(o) /\ IsBattery(o))
           /\ ~IsMains(Gap) /\ ~IsBattery(Gap)
           /\ IsCritical(o) => ~IsMains(o)
           /\ Percent(o) \in 0..255
  BY InputAssumption DEF IsMains, IsBattery, IsCritical, Gap, Reading, Percent

LEMMA MainsMeansInit == Init => MainsMeans
  BY PolicyAssumption DEF Init, NewPolicy, MainsMeans, Polled

LEMMA MainsMeansStep ==
    ASSUME TypeInv, MainsMeans, NEW o \in Readings \cup {Gap}, Observe(o)
    PROVE  MainsMeans'
<1> DEFINE n == Polled
           s == policy.mains_streak
<1>0. /\ n \in Nat /\ Polled' = n + 1
      /\ \A i \in 1..n : polls'[i] = polls[i]
      /\ polls'[n + 1] = o
      /\ s \in 0..MaxStreak
  BY Appended DEF TypeInv, TypeOK
<1>1. /\ policy'.mains_streak = MainsStreak(policy, o)
      /\ policy'.reported = ReportedLevel(policy, o)
  BY Appended DEF Observed
<1>2. CASE IsMains(o)
  <2>1. policy'.mains_streak = Bump(s) /\ policy'.reported = "OnMains"
    BY <1>1, <1>2 DEF MainsStreak, ReportedLevel
  <2>2. /\ Bump(s) \in 0..MaxStreak /\ Bump(s) > 0 /\ Bump(s) <= s + 1
        /\ Bump(s) < Confirmations => Bump(s) = s + 1
    BY <1>0, BumpType, PolicyAssumption
  <2>3. \A i \in (n + 1 - Bump(s) + 1)..(n + 1) : IsMains(polls'[i])
    BY <1>0, <1>2, <2>2 DEF MainsMeans, MainsAt
  <2>4. Bump(s) < Confirmations =>
           \/ Bump(s) = n + 1
           \/ ~IsMains(polls'[n + 1 - Bump(s)])
    BY <1>0, <2>2, PolicyAssumption DEF MainsMeans, MainsAt
  <2> QED
    BY <1>0, <2>1, <2>2, <2>3, <2>4 DEF MainsMeans, MainsAt
<1>3. CASE ~IsMains(o)
  <2>1. policy'.mains_streak = 0 /\ policy'.reported # "OnMains"
    BY <1>1, <1>3 DEF MainsStreak, ReportedLevel, BatteryLevel
  <2>2. ~IsMains(polls'[n + 1])
    BY <1>0, <1>3
  <2> QED
    BY <1>0, <2>1, <2>2, PolicyAssumption DEF MainsMeans, MainsAt
<1> QED
  BY <1>2, <1>3

\* The counter is a mains run of the history, wherever the run must start.
LEMMA MainsRunIsStreak ==
    ASSUME TypeInv, MainsMeans
    PROVE  MainsRun(1, Polled) <=> policy.mains_streak >= Confirmations
<1> DEFINE n == Polled
           s == policy.mains_streak
<1>0. /\ n \in Nat /\ s \in 0..MaxStreak
      /\ Confirmations \in Nat \ {0} /\ MaxStreak \in Nat
  BY PolicyAssumption DEF TypeInv, TypeOK, Polled
<1>1. ASSUME s >= Confirmations PROVE MainsRun(1, n)
  BY <1>0, <1>1 DEF MainsMeans, MainsRun
<1>2. ASSUME MainsRun(1, n), s < Confirmations PROVE FALSE
  BY <1>0, <1>2 DEF MainsMeans, MainsRun
<1> QED
  BY <1>0, <1>1, <1>2

\* The same after a poll.
LEMMA MainsRunIsStreakNext ==
    ASSUME TypeInv', MainsMeans', NEW n \in Nat, Polled' = n
    PROVE  MainsRun(1, n)' <=> policy'.mains_streak >= Confirmations
<1>0. /\ policy'.mains_streak \in 0..MaxStreak
      /\ Confirmations \in Nat \ {0} /\ MaxStreak \in Nat
  BY PolicyAssumption DEF TypeInv, TypeOK
<1>1. ASSUME policy'.mains_streak >= Confirmations PROVE MainsRun(1, n)'
  BY <1>0, <1>1 DEF MainsMeans, MainsRun, MainsAt
<1>2. ASSUME MainsRun(1, n)', policy'.mains_streak < Confirmations PROVE FALSE
  BY <1>0, <1>2 DEF MainsMeans, MainsRun, MainsAt
<1> QED
  BY <1>0, <1>1, <1>2

\* What a poll leaves of the stretches of the history that end before it.
LEMMA StretchesKept ==
    ASSUME TypeInv, NEW o \in Readings \cup {Gap}, Observe(o),
           NEW n \in Nat, n = Polled, NEW j \in 1..(n + 1), NEW k \in 0..n
    PROVE  /\ MainsRun(j, k)' <=> MainsRun(j, k)
           /\ Unbroken(j, k)' <=> Unbroken(j, k)
           /\ CriticalReadings(j, k)' = CriticalReadings(j, k)
<1>0. /\ Confirmations \in Nat \ {0}
      /\ \A i \in 1..n : polls'[i] = polls[i]
  BY Appended, PolicyAssumption
<1>1. \A i \in 0..n : MainsRun(j, i)' <=> MainsRun(j, i)
  BY <1>0 DEF MainsRun, MainsAt
<1>2. Unbroken(j, k)' <=> Unbroken(j, k)
  BY <1>0, <1>1 DEF Unbroken, MainsAt, CriticalAt
<1>3. CriticalReadings(j, k)' = CriticalReadings(j, k)
  BY <1>0 DEF CriticalReadings, CriticalAt
<1> QED
  BY <1>1, <1>2, <1>3

\* The critical readings of a stretch are finitely many.
LEMMA CriticalReadingsCount ==
    ASSUME NEW j \in Nat, NEW k \in Nat
    PROVE  /\ IsFiniteSet(CriticalReadings(j, k))
           /\ Cardinality(CriticalReadings(j, k)) \in Nat
<1>1. IsFiniteSet(j..k)
  BY FS_Interval
<1>2. CriticalReadings(j, k) \subseteq j..k
  BY DEF CriticalReadings
<1> QED
  BY <1>1, <1>2, FS_Subset, FS_CardinalityType

\* What a poll adds to a stretch that reaches up to it.
LEMMA StretchExtended ==
    ASSUME TypeInv, NEW o \in Readings \cup {Gap}, Observe(o),
           NEW n \in Nat, n = Polled, NEW j \in 1..(n + 1)
    PROVE  /\ Cardinality(CriticalReadings(j, n + 1)') =
                 Cardinality(CriticalReadings(j, n)) + IF IsCritical(o) THEN 1 ELSE 0
           /\ Cardinality(CriticalReadings(j, n)) \in Nat
           /\ Unbroken(j, n + 1)' <=>
                 /\ Unbroken(j, n)
                 /\ IsCritical(o) \/ IsMains(o)
                 /\ ~MainsRun(j, n + 1)'
           /\ MainsRun(j, n + 1)' => IsMains(o)
           /\ MainsAt(n + 1)' <=> IsMains(o)
           /\ CriticalAt(n + 1)' <=> IsCritical(o)
<1>0. Confirmations \in Nat \ {0} /\ polls'[n + 1] = o
  BY Appended, PolicyAssumption
<1>1. (MainsAt(n + 1)' <=> IsMains(o)) /\ (CriticalAt(n + 1)' <=> IsCritical(o))
  BY <1>0 DEF MainsAt, CriticalAt
<1>2. \A i \in 1..n : CriticalAt(i)' <=> CriticalAt(i)
  BY Appended DEF CriticalAt
<1>3. /\ IsFiniteSet(CriticalReadings(j, n))
      /\ Cardinality(CriticalReadings(j, n)) \in Nat
  BY CriticalReadingsCount
<1>4. Cardinality(CriticalReadings(j, n + 1)') =
        Cardinality(CriticalReadings(j, n)) + IF IsCritical(o) THEN 1 ELSE 0
  <2>1. CASE IsCritical(o)
    <3>1. CriticalReadings(j, n + 1)' = CriticalReadings(j, n) \cup {n + 1}
      BY <1>1, <1>2, <2>1 DEF CriticalReadings
    <3>2. n + 1 \notin CriticalReadings(j, n)
      BY DEF CriticalReadings
    <3> QED
      BY <1>3, <2>1, <3>1, <3>2, FS_AddElement
  <2>2. CASE ~IsCritical(o)
    <3>1. CriticalReadings(j, n + 1)' = CriticalReadings(j, n)
      BY <1>1, <1>2, <2>2 DEF CriticalReadings
    <3> QED
      BY <1>3, <2>2, <3>1
  <2> QED
    BY <2>1, <2>2
<1>5. MainsRun(j, n + 1)' => IsMains(o)
  BY <1>0, <1>1 DEF MainsRun
<1>6. Unbroken(j, n + 1)' <=>
        Unbroken(j, n) /\ (IsCritical(o) \/ IsMains(o)) /\ ~MainsRun(j, n + 1)'
  <2>1. \A i \in 0..n : (MainsRun(j, i)' <=> MainsRun(j, i))
    BY StretchesKept
  <2>2. \A i \in 1..n : MainsAt(i)' <=> MainsAt(i)
    BY Appended DEF MainsAt
  <2> QED
    BY <1>1, <1>2, <2>1, <2>2 DEF Unbroken
<1> QED
  BY <1>1, <1>3, <1>4, <1>5, <1>6

-----------------------------------------------------------------------------
(* The critical streak. *)

LEMMA StreakIsEarnedStep ==
    ASSUME TypeInv, MainsMeans, MainsMeans', TypeInv', StreakIsEarned,
           NEW o \in Readings \cup {Gap}, Observe(o)
    PROVE  StreakIsEarned'
<1> SUFFICES ASSUME NEW n \in Nat, n = Polled, policy'.critical_streak > 0
             PROVE  \E j \in 1..(n + 1) :
                      /\ Unbroken(j, n + 1)'
                      /\ Cardinality(CriticalReadings(j, n + 1)')
                            >= policy'.critical_streak
  <2>1. Polled \in Nat /\ Polled' = Polled + 1
    BY Appended
  <2> QED
    BY <2>1 DEF StreakIsEarned
<1>0. /\ policy'.critical_streak = CriticalStreak(policy, o)
      /\ policy'.mains_streak = MainsStreak(policy, o)
      /\ policy.critical_streak \in 0..MaxStreak
      /\ Polled' = n + 1
      /\ MaxStreak \in Nat /\ Confirmations \in Nat \ {0}
  BY Appended, PolicyAssumption DEF Observed
<1>1. CASE IsCritical(o)
  <2>1. /\ policy'.critical_streak \in Nat
        /\ policy'.critical_streak <= policy.critical_streak + 1
    BY <1>0, <1>1, BumpType DEF CriticalStreak
  <2>2. \A j \in 1..(n + 1) : ~MainsRun(j, n + 1)'
    BY <1>1, StretchExtended, Kinds
  <2>3. CASE policy.critical_streak = 0
    <3>1. Unbroken(n + 1, n)
      BY DEF Unbroken
    <3> QED
      BY <1>0, <1>1, <2>1, <2>2, <2>3, <3>1, StretchExtended
  <2>4. CASE policy.critical_streak > 0
    <3>1. PICK j \in 1..n :
             /\ Unbroken(j, n)
             /\ Cardinality(CriticalReadings(j, n)) >= policy.critical_streak
      BY <2>4 DEF StreakIsEarned
    <3> QED
      BY <1>0, <1>1, <2>1, <2>2, <3>1, StretchExtended
  <2> QED
    BY <1>0, <2>3, <2>4
<1>2. CASE IsMains(o) /\ MainsStreak(policy, o) < Confirmations
  <2>1. policy'.critical_streak = policy.critical_streak /\ ~IsCritical(o)
    BY <1>0, <1>2, Kinds DEF CriticalStreak
  <2>2. ~MainsRun(1, n + 1)'
    <3>1. policy'.mains_streak \in 0..MaxStreak
      BY DEF TypeInv, TypeOK
    <3>2. ~(policy'.mains_streak >= Confirmations)
      BY <1>0, <1>2, <3>1
    <3>3. Polled' = n + 1 /\ n + 1 \in Nat
      BY <1>0
    <3> QED
      BY <3>2, <3>3, MainsRunIsStreakNext
  <2>3. PICK j \in 1..n :
           /\ Unbroken(j, n)
           /\ Cardinality(CriticalReadings(j, n)) >= policy.critical_streak
    BY <2>1 DEF StreakIsEarned
  <2>4. ~MainsRun(j, n + 1)'
    BY <1>0, <2>2 DEF MainsRun
  <2> QED
    BY <1>0, <1>2, <2>1, <2>3, <2>4, StretchExtended
<1>3. CASE ~IsCritical(o) /\ ~(IsMains(o) /\ MainsStreak(policy, o) < Confirmations)
  BY <1>0, <1>3 DEF CriticalStreak
<1> QED
  BY <1>1, <1>2, <1>3

LEMMA StreakIsCompleteStep ==
    ASSUME TypeInv, TypeInv', MainsMeans, MainsMeans', StreakIsComplete,
           NEW o \in Readings \cup {Gap}, Observe(o)
    PROVE  StreakIsComplete'
<1> SUFFICES ASSUME NEW n \in Nat, n = Polled, NEW j \in 1..(n + 1),
                    Unbroken(j, n + 1)'
             PROVE  \/ Cardinality(CriticalReadings(j, n + 1)')
                          <= policy'.critical_streak
                    \/ policy'.critical_streak = MaxStreak
  <2>1. Polled \in Nat /\ Polled' = Polled + 1
    BY Appended
  <2> QED
    BY <2>1 DEF StreakIsComplete
<1> DEFINE card == Cardinality(CriticalReadings(j, n))
<1>0. /\ policy'.critical_streak = CriticalStreak(policy, o)
      /\ policy'.mains_streak = MainsStreak(policy, o)
      /\ policy.critical_streak \in 0..MaxStreak
      /\ policy'.mains_streak \in 0..MaxStreak
      /\ Polled' = n + 1
      /\ MaxStreak \in Nat /\ Confirmations \in Nat \ {0}
  BY Appended, PolicyAssumption DEF Observed, TypeInv, TypeOK
<1>1. /\ card \in Nat
      /\ Cardinality(CriticalReadings(j, n + 1)') = card + IF IsCritical(o) THEN 1 ELSE 0
      /\ Unbroken(j, n)
      /\ IsCritical(o) \/ IsMains(o)
      /\ ~MainsRun(j, n + 1)'
  BY StretchExtended
<1>2. card <= policy.critical_streak \/ policy.critical_streak = MaxStreak
  <2>1. CASE j \in 1..n
    BY <1>1, <2>1 DEF StreakIsComplete
  <2>2. CASE j = n + 1
    <3>1. CriticalReadings(j, n) = {}
      BY <2>2 DEF CriticalReadings
    <3> QED
      BY <1>0, <3>1, FS_EmptySet
  <2> QED
    BY <2>1, <2>2
<1>3. CASE IsCritical(o)
  <2>1. policy'.critical_streak = Bump(policy.critical_streak)
    BY <1>0, <1>3 DEF CriticalStreak
  <2>2. \/ policy'.critical_streak = MaxStreak
        \/ /\ policy'.critical_streak = policy.critical_streak + 1
           /\ policy.critical_streak # MaxStreak
    BY <1>0, <2>1 DEF Bump
  <2> QED
    BY <1>0, <1>1, <1>2, <1>3, <2>2
<1>4. CASE IsMains(o) /\ MainsStreak(policy, o) < Confirmations
  <2>1. policy'.critical_streak = policy.critical_streak /\ ~IsCritical(o)
    BY <1>0, <1>4, Kinds DEF CriticalStreak
  <2> QED
    BY <1>1, <1>2, <2>1
<1>5. CASE IsMains(o) /\ ~(MainsStreak(policy, o) < Confirmations)
  <2>1. policy'.critical_streak = 0
    BY <1>0, <1>5, Kinds DEF CriticalStreak
  <2>2. policy'.mains_streak >= Confirmations
    BY <1>0, <1>5
  <2>3. Polled' = n + 1 /\ n + 1 \in Nat
    BY <1>0
  <2>4. MainsRun(1, n + 1)'
    BY <2>2, <2>3, MainsRunIsStreakNext
  <2>5. \A i \in j..(n + 1) : IsMains(polls'[i])
    BY <1>0, <1>1, <2>4 DEF MainsRun, MainsAt
  <2>6. CriticalReadings(j, n + 1)' = {}
    BY <2>5 DEF CriticalReadings, CriticalAt, IsCritical, IsMains, IsBattery
  <2> QED
    BY <2>1, <2>6, FS_EmptySet
<1> QED
  BY <1>1, <1>3, <1>4, <1>5

-----------------------------------------------------------------------------
(* The remembered level. *)

\* The last poll confirms the battery critical exactly when the counter says so.
LEMMA ConfirmedIsStreak ==
    ASSUME TypeInv, TypeInv', StreakIsEarned', StreakIsComplete',
           NEW o \in Readings \cup {Gap}, Observe(o),
           NEW n \in Nat, n = Polled
    PROVE  ConfirmedAt(n + 1)' <=>
             IsCritical(o) /\ CriticalStreak(policy, o) >= Confirmations
<1> DEFINE streak == policy'.critical_streak
<1>0. /\ streak = CriticalStreak(policy, o)
      /\ streak \in 0..MaxStreak
      /\ Polled' = n + 1
      /\ MaxStreak \in Nat /\ Confirmations \in Nat \ {0}
      /\ Confirmations <= MaxStreak
  BY Appended, PolicyAssumption DEF Observed, TypeInv, TypeOK
<1>1. CriticalAt(n + 1)' <=> IsCritical(o)
  BY StretchExtended
<1>2. \A j \in 1..(n + 1) : Cardinality(CriticalReadings(j, n + 1)') \in Nat
  BY StretchExtended
<1>3. ASSUME streak >= Confirmations
      PROVE  \E j \in 1..(n + 1) :
                /\ Unbroken(j, n + 1)'
                /\ Cardinality(CriticalReadings(j, n + 1)') >= Confirmations
  <2>1. PICK j \in 1..(n + 1) :
           /\ Unbroken(j, n + 1)'
           /\ Cardinality(CriticalReadings(j, n + 1)') >= streak
    BY <1>0, <1>3 DEF StreakIsEarned
  <2> QED
    BY <1>0, <1>2, <1>3, <2>1
<1>4. ASSUME NEW j \in 1..(n + 1), Unbroken(j, n + 1)',
             Cardinality(CriticalReadings(j, n + 1)') >= Confirmations
      PROVE  streak >= Confirmations
  <2>1. \/ Cardinality(CriticalReadings(j, n + 1)') <= streak
        \/ streak = MaxStreak
    BY <1>0, <1>4 DEF StreakIsComplete
  <2> QED
    BY <1>0, <1>2, <1>4, <2>1
<1> QED
  BY <1>0, <1>1, <1>3, <1>4 DEF ConfirmedAt

\* When the history earns Critical with one poll more.
LEMMA CriticalEarnedNext ==
    ASSUME TypeInv, TypeInv', StreakIsEarned', StreakIsComplete',
           NEW o \in Readings \cup {Gap}, Observe(o)
    PROVE  CriticalEarned' <=>
             \/ IsCritical(o) /\ CriticalStreak(policy, o) >= Confirmations
             \/ CriticalEarned /\ IsBattery(o) /\ ~Clears(o, CriticalPercent)
<1> SUFFICES ASSUME NEW n \in Nat, n = Polled
             PROVE  CriticalEarned' <=>
                      \/ ConfirmedAt(n + 1)'
                      \/ CriticalEarned /\ IsBattery(o) /\ ~Clears(o, CriticalPercent)
  <2>1. Polled \in Nat
    BY Appended
  <2> QED
    BY <2>1, ConfirmedIsStreak
<1>0. /\ Len(polls) = n /\ Len(polls') = n + 1
      /\ \A i \in 1..n : polls'[i] = polls[i]
      /\ polls'[n + 1] = o
  BY Appended DEF Polled
<1>1. \A k \in 1..n : ConfirmedAt(k)' <=> ConfirmedAt(k)
  <2> SUFFICES ASSUME NEW k \in 1..n
               PROVE  ConfirmedAt(k)' <=> ConfirmedAt(k)
    OBVIOUS
  <2>1. CriticalAt(k)' <=> CriticalAt(k)
    BY <1>0 DEF CriticalAt
  <2>2. \A j \in 1..k : /\ Unbroken(j, k)' <=> Unbroken(j, k)
                       /\ CriticalReadings(j, k)' = CriticalReadings(j, k)
    BY StretchesKept
  <2> QED
    BY <2>1, <2>2 DEF ConfirmedAt
<1>2. \A i \in 1..n : UnclearedAt(i, CriticalPercent)' <=> UnclearedAt(i, CriticalPercent)
  BY <1>0 DEF UnclearedAt
<1>3. UnclearedAt(n + 1, CriticalPercent)' <=> IsBattery(o) /\ ~Clears(o, CriticalPercent)
  BY <1>0 DEF UnclearedAt
<1> QED
  BY <1>0, <1>1, <1>2, <1>3 DEF CriticalEarned

LEMMA KnownMeansStep ==
    ASSUME TypeInv, TypeInv', StreakIsEarned', StreakIsComplete', KnownMeans,
           NEW o \in Readings \cup {Gap}, Observe(o)
    PROVE  KnownMeans'
<1>0. /\ policy'.known = KnownLevel(policy, o)
      /\ policy'.reported = ReportedLevel(policy, o)
  BY Appended DEF Observed
<1>1. CASE o = Gap
  <2>1. policy'.known # "Critical" /\ policy'.reported # "Critical"
    BY <1>0, <1>1, Kinds DEF KnownLevel, ReportedLevel
  <2>2. ~CriticalEarned'
    BY <1>1, Kinds, CriticalEarnedNext DEF IsCritical
  <2> QED
    BY <2>1, <2>2 DEF KnownMeans
<1>2. CASE IsMains(o)
  <2>1. policy'.known = "OnMains" /\ policy'.reported = "OnMains"
    BY <1>0, <1>2, Kinds DEF KnownLevel, ReportedLevel
  <2>2. ~CriticalEarned'
    BY <1>2, Kinds, CriticalEarnedNext DEF IsCritical
  <2> QED
    BY <2>1, <2>2 DEF KnownMeans
<1>3. CASE IsBattery(o)
  <2>1. /\ policy'.known = BatteryLevel(policy, o)
        /\ policy'.reported = BatteryLevel(policy, o)
    BY <1>0, <1>3, Kinds DEF KnownLevel, ReportedLevel
  <2>2. CriticalEarned' <=> StaysOrTurnsCritical(policy, o)
    BY <1>3, CriticalEarnedNext DEF StaysOrTurnsCritical, KnownMeans
  <2>3. BatteryLevel(policy, o) = "Critical" <=> StaysOrTurnsCritical(policy, o)
    BY DEF BatteryLevel
  <2> QED
    BY <2>1, <2>2, <2>3 DEF KnownMeans
<1> QED
  BY <1>1, <1>2, <1>3, Kinds

LEMMA LowMeansStep ==
    ASSUME TypeInv, TypeInv', LowMeans,
           NEW o \in Readings \cup {Gap}, Observe(o)
    PROVE  LowMeans'
<1> SUFFICES ASSUME NEW n \in Nat, n = Polled
             PROVE  LowMeans'
  BY Appended
<1>0. /\ Polled' = n + 1
      /\ \A i \in 1..n : polls'[i] = polls[i]
      /\ polls'[n + 1] = o
      /\ policy'.known = KnownLevel(policy, o)
      /\ policy'.reported = ReportedLevel(policy, o)
      /\ CriticalPercent \in Nat /\ LowPercent \in Nat
      /\ CriticalPercent < LowPercent /\ RecoverMargin \in Nat \ {0}
      /\ Percent(o) \in Nat
  BY Appended, Kinds, PolicyAssumption DEF Observed
<1>1. LowHeld' <=> \/ IsBattery(o) /\ Percent(o) <= LowPercent
                   \/ /\ LowHeld
                      /\ o = Gap \/ (IsBattery(o) /\ ~Clears(o, LowPercent))
  <2>1. Percent(o) <= LowPercent => ~Clears(o, LowPercent)
    BY <1>0 DEF Clears
  <2>4. ASSUME LowHeld'
        PROVE  \/ IsBattery(o) /\ Percent(o) <= LowPercent
               \/ /\ LowHeld
                  /\ o = Gap \/ (IsBattery(o) /\ ~Clears(o, LowPercent))
    <3>1. PICK k \in 1..(n + 1) :
             /\ IsBattery(polls'[k]) /\ Percent(polls'[k]) <= LowPercent
             /\ \A i \in k..(n + 1) : GapAt(i)' \/ UnclearedAt(i, LowPercent)'
      BY <1>0, <2>4 DEF LowHeld
    <3>2. CASE k = n + 1
      BY <1>0, <3>1, <3>2
    <3>3. CASE k \in 1..n
      <4>1. \A i \in k..n : GapAt(i) \/ UnclearedAt(i, LowPercent)
        BY <1>0, <3>1, <3>3 DEF GapAt, UnclearedAt
      <4>2. o = Gap \/ (IsBattery(o) /\ ~Clears(o, LowPercent))
        BY <1>0, <3>1, <3>3 DEF GapAt, UnclearedAt
      <4> QED
        BY <1>0, <3>1, <3>3, <4>1, <4>2 DEF LowHeld
    <3> QED
      BY <3>2, <3>3
  <2>5. ASSUME IsBattery(o) /\ Percent(o) <= LowPercent
        PROVE  LowHeld'
    BY <1>0, <2>1, <2>5 DEF LowHeld, GapAt, UnclearedAt
  <2>6. ASSUME LowHeld, o = Gap \/ (IsBattery(o) /\ ~Clears(o, LowPercent))
        PROVE  LowHeld'
    <3>1. PICK k \in 1..n :
             /\ IsBattery(polls[k]) /\ Percent(polls[k]) <= LowPercent
             /\ \A i \in k..n : GapAt(i) \/ UnclearedAt(i, LowPercent)
      BY <2>6 DEF LowHeld
    <3>2. \A i \in k..(n + 1) : GapAt(i)' \/ UnclearedAt(i, LowPercent)'
      BY <1>0, <2>6, <3>1 DEF GapAt, UnclearedAt
    <3> QED
      BY <1>0, <3>1, <3>2 DEF LowHeld
  <2> QED
    BY <2>4, <2>5, <2>6
<1>2. GapAt(n + 1)' <=> o = Gap
  BY <1>0 DEF GapAt
<1>3. CASE o = Gap
  <2>1. /\ policy'.known \in {"Low", "Critical"} <=> policy.known \in {"Low", "Critical"}
        /\ policy'.reported = "Unknown"
    BY <1>0, <1>3, Kinds DEF KnownLevel, ReportedLevel
  <2> QED
    BY <1>0, <1>1, <1>2, <1>3, <2>1, Kinds DEF LowMeans
<1>4. CASE IsMains(o)
  <2>1. policy'.known = "OnMains" /\ policy'.reported = "OnMains"
    BY <1>0, <1>4, Kinds DEF KnownLevel, ReportedLevel
  <2> QED
    BY <1>0, <1>1, <1>4, <2>1, Kinds DEF LowMeans
<1>5. CASE IsBattery(o)
  <2>1. /\ policy'.known = BatteryLevel(policy, o)
        /\ policy'.reported = BatteryLevel(policy, o)
        /\ o # Gap
    BY <1>0, <1>5, Kinds DEF KnownLevel, ReportedLevel
  <2>2. StaysOrTurnsCritical(policy, o) => StaysOrTurnsLow(policy, o)
    BY <1>0 DEF StaysOrTurnsCritical, StaysOrTurnsLow, IsCritical, Clears
  <2>3. BatteryLevel(policy, o) \in {"Low", "Critical"} <=> StaysOrTurnsLow(policy, o)
    BY <2>2 DEF BatteryLevel
  <2>4. StaysOrTurnsLow(policy, o) <=> LowHeld'
    BY <1>1, <1>5, <2>1 DEF StaysOrTurnsLow, LowMeans
  <2> QED
    BY <1>0, <1>2, <2>1, <2>3, <2>4 DEF LowMeans
<1> QED
  BY <1>3, <1>4, <1>5, Kinds

-----------------------------------------------------------------------------
(* The invariant, and what follows from it. *)

LEMMA InvInit == Init => Inv
<1> SUFFICES ASSUME Init PROVE Inv
  OBVIOUS
<1>1. TypeInv /\ MainsMeans
  BY TypeInvInit, MainsMeansInit
<1>2. /\ policy = NewPolicy /\ Polled = 0
  BY DEF Init, Polled
<1>3. StreakIsEarned /\ StreakIsComplete
  BY <1>2 DEF NewPolicy, StreakIsEarned, StreakIsComplete
<1>4. KnownMeans /\ LowMeans
  BY <1>2 DEF NewPolicy, KnownMeans, CriticalEarned, LowMeans, LowHeld, Polled
<1> QED
  BY <1>1, <1>3, <1>4 DEF Inv

LEMMA InvStep == Inv /\ [Next]_vars => Inv'
<1> SUFFICES ASSUME Inv, [Next]_vars PROVE Inv'
  OBVIOUS
<1>0. TypeInv'
  BY TypeInvStep DEF Inv
<1>1. CASE Next
  <2>1. PICK o \in Readings \cup {Gap} : Observe(o)
    BY <1>1, PollStep
  <2>2. MainsMeans'
    BY <2>1, MainsMeansStep DEF Inv
  <2>3. StreakIsEarned'
    BY <1>0, <2>1, <2>2, StreakIsEarnedStep DEF Inv
  <2>4. StreakIsComplete'
    BY <1>0, <2>1, <2>2, StreakIsCompleteStep DEF Inv
  <2>5. KnownMeans'
    BY <1>0, <2>1, <2>3, <2>4, KnownMeansStep DEF Inv
  <2>6. LowMeans'
    BY <1>0, <2>1, LowMeansStep DEF Inv
  <2> QED
    BY <1>0, <2>2, <2>3, <2>4, <2>5, <2>6 DEF Inv
<1>2. CASE UNCHANGED vars
  <2> USE <1>2 DEF vars
  <2>1. MainsMeans'
    BY DEF Inv, MainsMeans, Polled, MainsAt
  <2>2. StreakIsEarned'
    BY DEF Inv, StreakIsEarned, Polled, Unbroken, MainsRun, MainsAt,
           CriticalReadings, CriticalAt
  <2>3. StreakIsComplete'
    BY DEF Inv, StreakIsComplete, Polled, Unbroken, MainsRun, MainsAt,
           CriticalReadings, CriticalAt
  <2>4. KnownMeans'
    BY DEF Inv, KnownMeans, CriticalEarned, ConfirmedAt, UnclearedAt, Unbroken,
           MainsRun, MainsAt, CriticalReadings, CriticalAt
  <2>5. LowMeans'
    BY DEF Inv, LowMeans, LowHeld, Polled, GapAt, UnclearedAt
  <2> QED
    BY <1>0, <2>1, <2>2, <2>3, <2>4, <2>5 DEF Inv
<1> QED
  BY <1>1, <1>2

THEOREM InvHolds == Spec => []Inv
  BY InvInit, InvStep, PTL DEF Spec

\* For every valid configuration: a shutdown is advised only on a battery
\* confirmed critical without a gap, a recovery or a rise in between, on a
\* machine up for min_uptime.
THEOREM ShutdownIsEarnedAlways == Spec => []ShutdownIsEarned
<1>1. Inv => ShutdownIsEarned
  <2> SUFFICES ASSUME Inv, decision.advice = "Shutdown"
               PROVE  CriticalEarned /\ uptime >= MinUptime
    BY DEF ShutdownIsEarned
  <2>1. policy.reported = "Critical" /\ ~(uptime < MinUptime)
    BY DEF Inv, TypeInv, DecisionOn
  <2>2. uptime \in Nat /\ MinUptime \in Nat
    BY PolicyAssumption, InputAssumption DEF Inv, TypeInv, TypeOK
  <2> QED
    BY <2>1, <2>2 DEF Inv, KnownMeans
<1> QED
  BY <1>1, InvHolds, PTL

\* For every valid configuration: a battery confirmed critical is always
\* answered with the advice, whatever mains blips led there.
THEOREM NoCriticalMissedAlways == Spec => []NoCriticalMissed
<1>1. Inv => NoCriticalMissed
  BY DEF Inv, TypeInv, DecisionOn, KnownMeans, NoCriticalMissed
<1> QED
  BY <1>1, InvHolds, PTL

\* For every valid configuration: a recovery is confirmed by exactly the last
\* Confirmations polls showing mains.
THEOREM RecoveryIsARunAlways == Spec => []RecoveryIsARun
<1>1. Inv => RecoveryIsARun
  <2> SUFFICES ASSUME Inv PROVE RecoveryIsARun
    OBVIOUS
  <2>1. MainsRun(1, Polled) <=> policy.mains_streak >= Confirmations
    BY MainsRunIsStreak DEF Inv
  <2>2. policy.mains_streak >= Confirmations => policy.reported = "OnMains"
    <3>1. policy.mains_streak \in Nat /\ Confirmations \in Nat \ {0}
      BY PolicyAssumption DEF Inv, TypeInv, TypeOK
    <3> QED
      BY <3>1 DEF Inv, MainsMeans
  <2>3. decision.confirmed_recovery <=>
          policy.reported = "OnMains" /\ policy.mains_streak >= Confirmations
    BY DEF Inv, TypeInv, DecisionOn
  <2> QED
    BY <2>1, <2>2, <2>3 DEF RecoveryIsARun, Polled
<1> QED
  BY <1>1, InvHolds, PTL

\* For every valid configuration: Low and Critical last from the first low
\* battery reading until mains or a reading above the margin.
THEOREM LowIsStickyAlways == Spec => []LowIsSticky
<1>1. Inv => LowIsSticky
  BY DEF Inv, TypeInv, DecisionOn, LowMeans, LowHeld, LowIsSticky, LowEarned, Polled
<1> QED
  BY <1>1, InvHolds, PTL

-----------------------------------------------------------------------------
(* Times and the calendar. *)

\* Day `doy` of year `b` of the four years `a` of an era's first century.
DaysInto(a, b, doy) == 1461 * a + 365 * b + doy
InFirstCentury(a, b, doy) ==
    /\ a \in 0..24 /\ b \in 0..3 /\ doy \in 0..365 /\ (doy = 365 => b = 3)
    /\ DaysInto(a, b, doy) < 36524

\* In the first century of an era a year is 1461 quarters of a day, and the year
\* that a day is in is found again.
LEMMA YearIsFound ==
    ASSUME NEW a, NEW b, NEW doy, InFirstCentury(a, b, doy)
    PROVE  YearOfEra(DaysInto(a, b, doy)) = 4 * a + b
<1> DEFINE doe == 1461 * a + 365 * b + doy
           r == 365 * b + doy
<1>0. /\ a \in 0..24 /\ b \in 0..3 /\ doy \in 0..365 /\ (doy = 365 => b = 3)
      /\ doe = DaysInto(a, b, doy) /\ doe < 36524
  BY DEF DaysInto, InFirstCentury
<1>1. doe \in Nat /\ r \in 0..1460 /\ doe = 1461 * a + r
  BY <1>0
<1>2. doe \div 36524 = 0 /\ doe \div 146096 = 0
  BY <1>0, <1>1
<1>3. doe \div 1460 = IF a + r >= 1460 THEN a + 1 ELSE a
  BY <1>0, <1>1
<1>4. (doe - doe \div 1460) \div 365 = 4 * a + b
  BY <1>0, <1>1, <1>3
<1> QED BY <1>0, <1>1, <1>2, <1>4, SMT DEF YearOfEra

\* The same for the last year of an era, of which January and February are in
\* the device's century.
LEMMA LastYearOfEra ==
    ASSUME NEW doy \in 0..365, NEW doe, doe = 145731 + doy
    PROVE  YearOfEra(doe) = 399
BY SMT DEF YearOfEra

\* The month and the day of it that a day of a year which begins in March is.
LEMMA MonthOfYear ==
    ASSUME NEW mp \in 0..11, NEW d \in 1..31, d = 31 => mp \in {0, 2, 4, 5, 7, 9, 10},
           NEW doy, doy = (153 * mp + 2) \div 5 + d - 1, mp = 11 => d <= 29
    PROVE  doy \in 0..365 /\ (5 * doy + 2) \div 153 = mp
<1>1. \A k \in 0..11 : mp = k => doy \in 0..365 /\ (5 * doy + 2) \div 153 = mp
  OBVIOUS
<1> QED BY <1>1

IsDate(y, m, d) == y \in 2000..2099 /\ m \in 1..12 /\ d \in 1..DaysIn(m, y)

\* The month as the conversions count it, from March.
MarchMonth(m) == IF m > 2 THEN m - 3 ELSE m + 9

LEMMA LeapInCentury == ASSUME NEW y \in 2000..2099 PROVE Leap(y) <=> y % 4 = 0
BY SMT DEF Leap

LEMMA MonthLengths ==
    ASSUME NEW y \in 2000..2099, NEW m \in 1..12
    PROVE  DaysIn(m, y) = IF m = 2 THEN (IF y % 4 = 0 THEN 29 ELSE 28)
                          ELSE IF m \in {4, 6, 9, 11} THEN 30 ELSE 31
BY LeapInCentury, SMT DEF DaysIn

\* Years and days of them in numbers: before 1999 four eras but the last year's
\* days, and from 2000 a fifth era's first century.
Before(y) == IF y = 1999 THEN 4 * EraDays + 145731
             ELSE 5 * EraDays + 365 * (y - 2000) + (y - 2000) \div 4

LEMMA DaysBeforeYear ==
    ASSUME NEW y \in 1999..2099
    PROVE  (y \div EraYears) * EraDays + DayOfEra(y) = Before(y) /\ Before(y) \in Int
<1>1. CASE y = 1999
  BY <1>1, SMT DEF DayOfEra, DaysOfYears, Before, EraDays, EraYears
<1>2. CASE y # 1999
  <2>1. y \div EraYears = 5 /\ y % EraYears = y - 2000 /\ (y - 2000) \div 100 = 0
    BY <1>2, SMT DEF EraYears
  <2> QED BY <1>2, <2>1, SMT DEF DayOfEra, DaysOfYears, Before, EraDays, EraYears
<1> QED BY <1>1, <1>2

Reached(y, m, d) == y \in 2000..2100 /\ m \in 1..12 /\ d \in Nat /\ (y = 2100 => m <= 2)

LEMMA DayInNumbers ==
    ASSUME NEW y, NEW m, NEW d, Reached(y, m, d)
    PROVE  /\ DayOf(y, m, d) = Before(MarchYear(y, m)) + DayOfYear(m, d) - EpochShift
           /\ Before(MarchYear(y, m)) \in Int /\ DayOfYear(m, d) \in Int /\ EpochShift \in Int
<1>1. MarchYear(y, m) \in 1999..2099
  BY SMT DEF MarchYear, Reached
<1>2. DayOfYear(m, d) \in Int /\ EpochShift \in Int
  BY SMT DEF DayOfYear, EpochShift, Reached
<1> QED BY <1>1, <1>2, DaysBeforeYear, SMT DEF DayOf

\* Day by day, month by month and year by year.
LEMMA DayAfter ==
    ASSUME NEW y, NEW m, NEW d, IsDate(y, m, d)
    PROVE  /\ d < DaysIn(m, y) => DayOf(y, m, d + 1) = DayOf(y, m, d) + 1
           /\ d = DaysIn(m, y) /\ m < 12 => DayOf(y, m + 1, 1) = DayOf(y, m, d) + 1
           /\ d = DaysIn(m, y) /\ m = 12 => DayOf(y + 1, 1, 1) = DayOf(y, m, d) + 1
<1>1. /\ y \in 2000..2099 /\ m \in 1..12 /\ d \in Nat /\ d >= 1
      /\ DaysIn(m, y) = IF m = 2 THEN (IF y % 4 = 0 THEN 29 ELSE 28)
                        ELSE IF m \in {4, 6, 9, 11} THEN 30 ELSE 31
  BY MonthLengths DEF IsDate
<1>2. /\ DayOf(y, m, d) = Before(MarchYear(y, m)) + DayOfYear(m, d) - EpochShift
      /\ Before(MarchYear(y, m)) \in Int /\ DayOfYear(m, d) \in Int /\ EpochShift \in Int
  <2>1. Reached(y, m, d)
    BY <1>1, SMT DEF Reached
  <2> QED BY <2>1, DayInNumbers
<1>3. m = 2 => Before(y) = Before(y - 1) + 337 + (IF y % 4 = 0 THEN 29 ELSE 28)
  BY <1>1, SMT DEF Before, EraDays
<1>4. ASSUME d < DaysIn(m, y) PROVE DayOf(y, m, d + 1) = DayOf(y, m, d) + 1
  <2>1. DayOf(y, m, d + 1) = Before(MarchYear(y, m)) + DayOfYear(m, d + 1) - EpochShift
    <3>1. Reached(y, m, d + 1)
      BY <1>1, SMT DEF Reached
    <3> QED BY <3>1, DayInNumbers
  <2>2. DayOfYear(m, d + 1) = DayOfYear(m, d) + 1
    BY <1>1, SMT DEF DayOfYear
  <2> QED BY <1>2, <2>1, <2>2, SMT
<1>5. ASSUME d = DaysIn(m, y), m < 12 PROVE DayOf(y, m + 1, 1) = DayOf(y, m, d) + 1
  <2>1. DayOf(y, m + 1, 1) = Before(MarchYear(y, m + 1)) + DayOfYear(m + 1, 1) - EpochShift
    <3>1. Reached(y, m + 1, 1)
      BY <1>1, <1>5, SMT DEF Reached
    <3> QED BY <3>1, DayInNumbers
  <2>2. CASE m = 2
    <3>1. DayOfYear(m + 1, 1) = 0 /\ DayOfYear(m, d) = 336 + d
      BY <1>1, <2>2, SMT DEF DayOfYear
    <3>2. MarchYear(y, m + 1) = y /\ MarchYear(y, m) = y - 1
      BY <1>1, <2>2, SMT DEF MarchYear
    <3> QED BY <1>1, <1>2, <1>3, <1>5, <2>1, <2>2, <3>1, <3>2, SMT
  <2>3. CASE m # 2
    <3>1. DayOfYear(m + 1, 1) = DayOfYear(m, d) + 1
      BY <1>1, <1>5, <2>3, SMT DEF DayOfYear
    <3>2. MarchYear(y, m + 1) = MarchYear(y, m)
      BY <1>1, <2>3, SMT DEF MarchYear
    <3> QED BY <1>2, <2>1, <3>1, <3>2, SMT
  <2> QED BY <2>2, <2>3
<1>6. ASSUME d = DaysIn(m, y), m = 12 PROVE DayOf(y + 1, 1, 1) = DayOf(y, m, d) + 1
  <2>1. DayOf(y + 1, 1, 1) = Before(MarchYear(y + 1, 1)) + DayOfYear(1, 1) - EpochShift
    <3>1. Reached(y + 1, 1, 1)
      BY <1>1, SMT DEF Reached
    <3> QED BY <3>1, DayInNumbers
  <2>2. DayOfYear(1, 1) = DayOfYear(m, d) + 1 /\ MarchYear(y + 1, 1) = MarchYear(y, m)
    BY <1>1, <1>6, SMT DEF DayOfYear, MarchYear
  <2> QED BY <1>2, <2>1, <2>2, SMT
<1> QED BY <1>4, <1>5, <1>6

LEMMA DateBounds ==
    ASSUME NEW y, NEW m, NEW d, IsDate(y, m, d)
    PROVE  /\ y \in 2000..2099 /\ m \in 1..12 /\ d \in 1..31
           /\ d = 31 => m \in {1, 3, 5, 7, 8, 10, 12}
           /\ m = 2 => d <= 29 /\ (d = 29 => y % 4 = 0)
<1>1. y \in 2000..2099 /\ m \in 1..12 /\ d \in Nat /\ d >= 1 /\ d <= DaysIn(m, y)
  <2>1. y \in 2000..2099 /\ m \in 1..12 /\ d \in 1..DaysIn(m, y)
    BY DEF IsDate
  <2>2. DaysIn(m, y) \in 28..31
    BY SMT DEF DaysIn
  <2> QED BY <2>1, <2>2, SMT
<1>2. DaysIn(m, y) = IF m = 2 THEN (IF y % 4 = 0 THEN 29 ELSE 28)
                     ELSE IF m \in {4, 6, 9, 11} THEN 30 ELSE 31
  BY <1>1, MonthLengths, SMT
<1> QED BY <1>1, <1>2, SMT

\* What from_unix_seconds makes of a day, in its own steps.
LEMMA DayOfEraIsFound ==
    ASSUME NEW y, NEW m, NEW d, IsDate(y, m, d)
    PROVE  LET z == DayOf(y, m, d) + EpochShift
               doe == z % EraDays
               yoe == YearOfEra(doe)
           IN /\ yoe + (z \div EraDays) * EraYears = MarchYear(y, m)
              /\ doe - DaysOfYears(yoe) = DayOfYear(m, d)
<1>0. PICK z, doe : z = DayOf(y, m, d) + EpochShift /\ doe = z % EraDays
  OBVIOUS
<1> DEFINE yy == MarchYear(y, m)
           mp == MarchMonth(m)
           doy == DayOfYear(m, d)
           yoe == YearOfEra(doe)
<1>1. /\ y \in 2000..2099 /\ m \in 1..12 /\ d \in 1..31
      /\ d = 31 => m \in {1, 3, 5, 7, 8, 10, 12}
      /\ m = 2 => d <= 29 /\ (d = 29 => y % 4 = 0)
  BY DateBounds
<1>2. /\ mp \in 0..11 /\ yy \in 1999..2099 /\ (yy = 1999 => m <= 2)
      /\ (d = 31 => mp \in {0, 2, 4, 5, 7, 9, 10}) /\ (mp = 11 => d <= 29)
      /\ (m <= 2 => yy = y - 1 /\ mp = m + 9) /\ (m > 2 => yy = y /\ mp = m - 3)
      /\ doy = (153 * mp + 2) \div 5 + d - 1
  BY <1>1, SMT DEF MarchMonth, MarchYear, DayOfYear
<1>3. z = Before(yy) + doy /\ Before(yy) \in Int /\ doy \in Int
  <2>1. /\ DayOf(y, m, d) = Before(yy) + doy - EpochShift
        /\ Before(yy) \in Int /\ doy \in Int /\ EpochShift \in Int
    <3>1. Reached(y, m, d)
      BY <1>1, SMT DEF Reached
    <3> QED BY <3>1, DayInNumbers
  <2> HIDE DEF yy, doy
  <2> QED BY <1>0, <2>1, SMT
<1> HIDE DEF yy, mp, doy
<1>4. doy \in 0..365
  BY <1>1, <1>2, MonthOfYear, SMT
<1>5. /\ m > 2 => doy <= 305
      /\ doy = 365 => m = 2 /\ y % 4 = 0
  BY <1>1, <1>2, SMT
<1>6. CASE yy = 1999
  <2>1. z = 4 * EraDays + 145731 + doy
    BY <1>3, <1>4, <1>6, SMT DEF Before
  <2>2. doe = 145731 + doy /\ z \div EraDays = 4
    BY <1>0, <1>4, <2>1, SMT DEF EraDays
  <2>3. yoe = 399
    BY <1>4, <2>2, LastYearOfEra, SMT
  <2> HIDE DEF yoe
  <2>4. yoe + (z \div EraDays) * EraYears = yy /\ doe - DaysOfYears(yoe) = doy
    BY <1>4, <1>6, <2>2, <2>3, SMT DEF DaysOfYears, EraYears
  <2> QED BY <1>0, <2>4 DEF yoe, yy, doy
<1>7. CASE yy # 1999
  <2>1. PICK q \in 0..99, a \in 0..24, b \in 0..3 : yy = 2000 + q /\ q = 4 * a + b /\ q \div 4 = a
    <3>1. yy - 2000 \in 0..99 /\ (yy - 2000) \div 4 \in 0..24 /\ (yy - 2000) % 4 \in 0..3
          /\ yy - 2000 = 4 * ((yy - 2000) \div 4) + ((yy - 2000) % 4)
          /\ yy = 2000 + (yy - 2000)
      BY <1>2, <1>7, SMT
    <3> QED BY <3>1, SMT
  <2>2. Before(yy) = 5 * EraDays + 365 * q + a
    BY <1>2, <1>7, <2>1, SMT DEF Before
  <2>3. z = 5 * EraDays + 1461 * a + 365 * b + doy
    BY <1>3, <1>4, <2>1, <2>2, SMT DEF EraDays
  <2>4. 1461 * a + 365 * b + doy < 36524
    BY <1>1, <1>2, <1>4, <1>5, <2>1, SMT
  <2>5. doe = 1461 * a + 365 * b + doy /\ z \div EraDays = 5
    BY <1>0, <1>4, <2>3, <2>4, SMT DEF EraDays
  <2>9. doy = 365 => b = 3
    BY <1>1, <1>2, <1>4, <1>5, <2>1, SMT
  <2>6. yoe = 4 * a + b
    <3>1. doe = DaysInto(a, b, doy) /\ InFirstCentury(a, b, doy)
      BY <1>4, <2>4, <2>5, <2>9, SMT DEF DaysInto, InFirstCentury
    <3>2. YearOfEra(DaysInto(a, b, doy)) = 4 * a + b
      BY ONLY <3>1, YearIsFound
    <3> QED BY <3>1, <3>2
  <2> HIDE DEF yoe
  <2>7. yoe = q /\ yoe \div 100 = 0
    BY <2>1, <2>6, SMT
  <2>8. yoe + (z \div EraDays) * EraYears = yy /\ doe - DaysOfYears(yoe) = doy
    BY <1>4, <2>1, <2>5, <2>7, SMT DEF DaysOfYears, EraYears
  <2> QED BY <1>0, <2>8 DEF yoe, yy, doy
<1> QED BY <1>6, <1>7

\* Two digits survive the encoding, which is a byte.
LEMMA BcdIsKept ==
    ASSUME NEW v \in 0..99
    PROVE  BcdEncode(v) \in Byte /\ BcdDecode(BcdEncode(v)) = v
<1> DEFINE b == (v \div 10) * 16 + (v % 10)
<1>1. BcdEncode(v) = b
  BY DEF BcdEncode
<1>2. v \div 10 \in 0..9 /\ v % 10 \in 0..9 /\ v = (v \div 10) * 10 + (v % 10)
  OBVIOUS
<1>3. b \in 0..159 /\ b % 16 = v % 10 /\ b \div 16 = v \div 10
  BY <1>2
<1> HIDE DEF b
<1>4. BcdDecode(b) = (b \div 16) * 10 + (b % 16)
  BY <1>2, <1>3 DEF BcdDecode
<1> QED
  BY <1>1, <1>2, <1>3, <1>4 DEF Byte

LEMMA FunctionIsSeq ==
    ASSUME NEW S, NEW n \in Nat, NEW f \in [1..n -> S]
    PROVE  f \in Seq(S) /\ Len(f) = n
OBVIOUS

Digits(t, i) == t[i] - IF i = 1 THEN 2000 ELSE 0

LEMMA DigitsFit ==
    ASSUME NEW l \in Nat, NEW i \in 1..l, NEW t, Storable(t, l)
    PROVE  /\ i \in Nat /\ t[i] \in Nat /\ i <= Len(t) /\ (i # 1 => t[i] \in 0..99)
           /\ Digits(t, i) \in 0..99 /\ Digits(t, i) + (IF i = 1 THEN 2000 ELSE 0) = t[i]
<1>1. i \in Nat /\ i <= l /\ (i # 1 => i \in 2..l)
  OBVIOUS
<1>2. t[i] \in Nat /\ Len(t) = l /\ (i # 1 => t[i] \in 0..99) /\ (i = 1 => t[i] \in Century)
  BY <1>1 DEF Storable
<1>3. PICK x : x = t[i]
  OBVIOUS
<1>4. /\ x - (IF i = 1 THEN 2000 ELSE 0) \in 0..99
      /\ x - (IF i = 1 THEN 2000 ELSE 0) + (IF i = 1 THEN 2000 ELSE 0) = x
  BY <1>2, <1>3, SMT DEF Century
<1> QED BY <1>1, <1>2, <1>3, <1>4 DEF Digits

\* Fields of two digits survive the encoding of a time.
LEMMA TimeIsKept ==
    ASSUME NEW l \in Nat, NEW n \in 1..l, NEW t, Storable(t, l)
    PROVE  /\ EncodeTime(t, n) \in [1..n -> Byte]
           /\ EncodeTime(t, n) \in Seq(Byte) /\ Len(EncodeTime(t, n)) = n
           /\ DecodeTime(EncodeTime(t, n), n) = [i \in 1..n |-> t[i]]
<1> DEFINE e == [i \in 1..n |-> BcdEncode(Digits(t, i))]
<1>0. \A i \in 1..n : i \in 1..l
  OBVIOUS
<1>1. \A i \in 1..n : i \in Nat /\ i <= Len(t) /\ Digits(t, i) \in 0..99 /\ (i # 1 => t[i] \in 0..99)
  <2> TAKE i \in 1..n
  <2>1. i \in 1..l
    BY <1>0
  <2> QED BY <2>1, DigitsFit, Zenon
<1>2. \A i \in 1..n : Digits(t, i) + (IF i = 1 THEN 2000 ELSE 0) = t[i]
  <2> TAKE i \in 1..n
  <2>1. i \in 1..l
    BY <1>0
  <2> QED BY <2>1, DigitsFit, SMT
<1>3. EncodeTime(t, n) = e
  <2>1. t[1] \in Century
    BY DEF Storable
  <2>2. ~ \E i \in 2..n : i <= Len(t) /\ t[i] > 99
    <3> SUFFICES ASSUME NEW i \in 2..n PROVE ~(t[i] > 99)
      OBVIOUS
    <3>1. i \in 1..n /\ i # 1
      BY SMT
    <3>2. PICK x : x = t[i]
      OBVIOUS
    <3>3. x \in 0..99
      BY <1>1, <3>1, <3>2, Zenon
    <3>4. ~(x > 99)
      BY ONLY <3>3, SMT
    <3> QED BY <3>2, <3>4
  <2>3. \A i \in 1..n : ~(i > Len(t))
    <3>1. Len(t) \in Nat
      BY DEF Storable
    <3> QED BY <1>1, <3>1, SMT
  <2>4. [i \in 1..n |-> IF i > Len(t) THEN 0 ELSE BcdEncode(Digits(t, i))] = e
    BY <2>3, Zenon
  <2>5. EncodeTime(t, n) = [i \in 1..n |-> IF i > Len(t) THEN 0 ELSE BcdEncode(Digits(t, i))]
    BY <2>1, <2>2 DEF EncodeTime, Digits
  <2> QED BY <2>4, <2>5
<1>4. \A i \in 1..n : BcdEncode(Digits(t, i)) \in Byte /\ BcdDecode(BcdEncode(Digits(t, i))) = Digits(t, i)
  BY <1>1, BcdIsKept, Zenon
<1>5. e \in [1..n -> Byte] /\ \A i \in 1..n : BcdDecode(e[i]) = Digits(t, i)
  BY <1>4, Zenon
<1>6. e \in Seq(Byte) /\ Len(e) = n
  BY <1>5, FunctionIsSeq
<1> HIDE DEF e
<1>7. \A i \in 1..n : BcdDecode(e[i]) # None
  <2> TAKE i \in 1..n
  <2>1. Digits(t, i) \in 0..99
    BY <1>1, Zenon
  <2>2. Digits(t, i) \in Int
    BY <2>1, SMT
  <2> QED BY <1>5, <2>2, NoneIsRefusal, Zenon
<1>8. \A i \in 1..n : BcdDecode(e[i]) + (IF i = 1 THEN 2000 ELSE 0) = t[i]
  BY <1>2, <1>5, SMT
<1>9. DecodeTime(e, n) = [i \in 1..n |-> t[i]]
  BY <1>6, <1>7, <1>8 DEF DecodeTime
<1> QED BY <1>3, <1>5, <1>6, <1>9

\* A date is found again from the year and the day of it that begin in March.
LEMMA DateIsFound ==
    ASSUME NEW y, NEW m, NEW d, IsDate(y, m, d)
    PROVE  DateOf(MarchYear(y, m), DayOfYear(m, d)) = <<y, m, d>>
<1> DEFINE yy == MarchYear(y, m)
           mp == MarchMonth(m)
           doy == DayOfYear(m, d)
<1>1. /\ y \in 2000..2099 /\ m \in 1..12 /\ d \in 1..31
      /\ d = 31 => m \in {1, 3, 5, 7, 8, 10, 12}
      /\ m = 2 => d <= 29 /\ (d = 29 => y % 4 = 0)
  BY DateBounds
<1>2. /\ mp \in 0..11
      /\ (d = 31 => mp \in {0, 2, 4, 5, 7, 9, 10}) /\ (mp = 11 => d <= 29)
      /\ (m <= 2 => yy = y - 1 /\ mp = m + 9) /\ (m > 2 => yy = y /\ mp = m - 3)
      /\ doy = (153 * mp + 2) \div 5 + d - 1
  BY <1>1, SMT DEF MarchMonth, MarchYear, DayOfYear
<1> HIDE DEF yy, mp, doy
<1>3. (5 * doy + 2) \div 153 = mp
  BY <1>1, <1>2, MonthOfYear, SMT
<1>4. /\ (IF mp < 10 THEN mp + 3 ELSE mp - 9) = m
      /\ yy + (IF m <= 2 THEN 1 ELSE 0) = y
      /\ doy - (153 * mp + 2) \div 5 + 1 = d
  BY <1>1, <1>2, SMT
<1>5. DateOf(yy, doy) = <<y, m, d>>
  BY <1>3, <1>4, SMT DEF DateOf
<1> QED BY <1>5 DEF yy, doy

\* A second of a day is found again from its hour, minute and second.
Hours == 0..23
Sixties == 0..59
Seconds(h, i, s) == h * 3600 + i * 60 + s

LEMMA TimeIsFound ==
    ASSUME NEW rem \in DaySeconds
    PROVE  \E h \in Hours, i \in Sixties, s \in Sixties :
              TimeOfDay(rem) = <<h, i, s>> /\ Seconds(h, i, s) = rem
<1>1. PICK h, r : h = rem \div 3600 /\ r = rem % 3600
  OBVIOUS
<1>2. PICK i, s : i = r \div 60 /\ s = r % 60
  OBVIOUS
<1>3. h \in 0..23 /\ r \in 0..3599 /\ rem = 3600 * h + r
  BY <1>1, SMT DEF DaySeconds
<1>4. i \in 0..59 /\ s \in 0..59 /\ r = 60 * i + s
  BY <1>2, <1>3, SMT
<1>5. rem % 60 = s
  <2>1. rem = 60 * (60 * h + i) + s
    BY <1>3, <1>4, SMT
  <2> QED BY <1>3, <1>4, <2>1, SMT
<1>6. TimeOfDay(rem) = <<h, i, s>>
  BY <1>1, <1>2, <1>5 DEF TimeOfDay
<1>7. Seconds(h, i, s) = rem
  BY <1>3, <1>4, SMT DEF Seconds
<1>8. h \in Hours /\ i \in Sixties /\ s \in Sixties
  BY <1>3, <1>4 DEF Hours, Sixties
<1> QED BY <1>6, <1>7, <1>8, Zenon

\* What from_unix_seconds makes of a day and a second is the date that it is, and
\* to_unix_seconds takes it back.
LEMMA FromUnixIsDate ==
    ASSUME NEW y, NEW m, NEW d, IsDate(y, m, d), NEW rem,
           NEW h, NEW i, NEW s, TimeOfDay(rem) = <<h, i, s>>
    PROVE  FromUnix(DayOf(y, m, d), rem) = <<y, m, d, h, i, s>>
<1>1. PICK days : days = DayOf(y, m, d)
  OBVIOUS
<1>2. PICK z : z = days + EpochShift
  OBVIOUS
<1>3. PICK doe : doe = z % EraDays
  OBVIOUS
<1>4. PICK yoe : yoe = YearOfEra(doe)
  OBVIOUS
<1>5. PICK f : f = DateOf(yoe + (z \div EraDays) * EraYears, doe - DaysOfYears(yoe))
  OBVIOUS
<1>6. /\ yoe + (z \div EraDays) * EraYears = MarchYear(y, m)
      /\ doe - DaysOfYears(yoe) = DayOfYear(m, d)
  BY <1>1, <1>2, <1>3, <1>4, DayOfEraIsFound, Zenon
<1>7. f = <<y, m, d>>
  BY <1>5, <1>6, DateIsFound
<1>8. f[1] = y /\ f[2] = m /\ f[3] = d
  BY <1>7
<1>9. PICK g : g = TimeOfDay(rem)
  OBVIOUS
<1>10. g[1] = h /\ g[2] = i /\ g[3] = s
  BY <1>9
<1>11. y \in Century
  BY DEF IsDate, Century
<1>12. FromUnix(days, rem) = IF f[1] \notin Century THEN None
                             ELSE <<f[1], f[2], f[3], g[1], g[2], g[3]>>
  BY <1>2, <1>3, <1>4, <1>5, <1>9, Zenon DEF FromUnix
<1> QED BY <1>1, <1>8, <1>10, <1>11, <1>12

LEMMA ToUnixIsDay ==
    ASSUME NEW y, NEW m, NEW d, IsDate(y, m, d),
           NEW h \in Hours, NEW i \in Sixties, NEW s \in Sixties
    PROVE  ToUnix(<<y, m, d, h, i, s>>) = <<DayOf(y, m, d), Seconds(h, i, s)>>
<1>1. PICK t : t = <<y, m, d, h, i, s>>
  OBVIOUS
<1>2. t[1] = y /\ t[2] = m /\ t[3] = d /\ t[4] = h /\ t[5] = i /\ t[6] = s /\ Len(t) = 6
  BY <1>1
<1>3. y \in 2000..2099 /\ m \in 1..12 /\ d \in 1..31
  BY DateBounds
<1>4. IsPlausible(t)
  BY <1>2, <1>3, SMT DEF IsPlausible, Century, Hours, Sixties
<1>5. ToUnix(t) = <<DayOf(y, m, d), Seconds(h, i, s)>>
  BY <1>2, <1>4, SMT DEF ToUnix, Seconds
<1> QED BY <1>1, <1>5

-----------------------------------------------------------------------------
CalendarInv == \E y, m, d : IsDate(y, m, d) /\ date = <<DayOf(y, m, d), y, m, d>>

LEMMA CalendarStart == CalendarInit => CalendarInv
<1> SUFFICES ASSUME CalendarInit PROVE CalendarInv
  OBVIOUS
<1>1. IsDate(2000, 1, 1)
  BY SMT DEF IsDate, DaysIn
<1>2. DayOf(2000, 1, 1) = 10957
  BY SMT DEF DayOf, EraDays, EpochShift, EraYears, DayOfEra, DaysOfYears, DayOfYear, MarchYear
<1> QED BY <1>1, <1>2 DEF CalendarInit, CalendarInv

LEMMA CalendarStep == CalendarInv /\ [Tomorrow]_date => CalendarInv'
<1> SUFFICES ASSUME CalendarInv, Tomorrow PROVE CalendarInv'
  BY DEF CalendarInv
<1>1. PICK y, m, d : IsDate(y, m, d) /\ date = <<DayOf(y, m, d), y, m, d>>
  BY DEF CalendarInv
<1>2. date[1] = DayOf(y, m, d) /\ date[2] = y /\ date[3] = m /\ date[4] = d
  BY <1>1
<1>3. y \in 2000..2099 /\ m \in 1..12 /\ d \in Nat /\ d >= 1 /\ d <= DaysIn(m, y) /\ DaysIn(m, y) \in 28..31
  <2>1. DaysIn(m, y) \in 28..31
    BY SMT DEF DaysIn
  <2> QED BY <1>1, <2>1, SMT DEF IsDate
<1>4. CASE d < DaysIn(m, y)
  <2>1. date' = <<DayOf(y, m, d) + 1, y, m, d + 1>>
    BY <1>2, <1>4 DEF Tomorrow
  <2>2. IsDate(y, m, d + 1) /\ DayOf(y, m, d + 1) = DayOf(y, m, d) + 1
    BY <1>1, <1>3, <1>4, DayAfter DEF IsDate
  <2> QED BY <2>1, <2>2 DEF CalendarInv
<1>5. CASE d = DaysIn(m, y) /\ m < 12
  <2>1. date' = <<DayOf(y, m, d) + 1, y, m + 1, 1>>
    BY <1>2, <1>3, <1>5 DEF Tomorrow
  <2>2. 1 \in 1..DaysIn(m + 1, y)
    BY SMT DEF DaysIn
  <2>3. IsDate(y, m + 1, 1) /\ DayOf(y, m + 1, 1) = DayOf(y, m, d) + 1
    BY <1>1, <1>3, <1>5, <2>2, DayAfter DEF IsDate
  <2> QED BY <2>1, <2>3 DEF CalendarInv
<1>6. CASE d = DaysIn(m, y) /\ m = 12
  <2>1. date' = <<DayOf(y, m, d) + 1, y + 1, 1, 1>>
    BY <1>2, <1>3, <1>6 DEF Tomorrow
  <2>2. y # 2099
    <3>1. DaysIn(m, y) = 31
      BY <1>6, SMT DEF DaysIn
    <3> QED BY <1>2, <1>6, <3>1 DEF Tomorrow
  <2>3. 1 \in 1..DaysIn(1, y + 1)
    BY SMT DEF DaysIn
  <2>4. IsDate(y + 1, 1, 1) /\ DayOf(y + 1, 1, 1) = DayOf(y, m, d) + 1
    BY <1>1, <1>3, <1>6, <2>2, <2>3, DayAfter DEF IsDate
  <2> QED BY <2>1, <2>4 DEF CalendarInv
<1> QED BY <1>3, <1>4, <1>5, <1>6

LEMMA CalendarMeans == CalendarInv => ConversionIsCalendar
<1> SUFFICES ASSUME CalendarInv, NEW rem \in Times
             PROVE  LET t == FromUnix(date[1], rem) IN
                      /\ t # None /\ SubSeq(t, 1, 3) = SubSeq(date, 2, 4)
                      /\ ToUnix(t) = <<date[1], rem>>
                      /\ DecodeClock(EncodeClock(t)) = t
                      /\ DecodeSchedule(EncodeSchedule(t)) = SubSeq(t, 1, 5)
  BY DEF ConversionIsCalendar
<1>0. rem \in DaySeconds
  BY CalendarAssumption
<1>1. PICK y, m, d : IsDate(y, m, d) /\ date = <<DayOf(y, m, d), y, m, d>>
  BY DEF CalendarInv
<1>2. PICK h \in Hours, mi \in Sixties, s \in Sixties :
        TimeOfDay(rem) = <<h, mi, s>> /\ Seconds(h, mi, s) = rem
  BY <1>0, TimeIsFound, Zenon
<1>3. PICK t : t = <<y, m, d, h, mi, s>>
  OBVIOUS
<1>4. FromUnix(date[1], rem) = t
  <2>1. FromUnix(DayOf(y, m, d), rem) = t
    BY <1>1, <1>2, <1>3, FromUnixIsDate
  <2> QED BY <1>1, <2>1
<1>5. ToUnix(t) = <<date[1], rem>>
  <2>1. ToUnix(t) = <<DayOf(y, m, d), Seconds(h, mi, s)>>
    BY <1>1, <1>3, ToUnixIsDay
  <2> QED BY <1>1, <1>2, <2>1
<1>6. h \in 0..23 /\ mi \in 0..59 /\ s \in 0..59
  BY DEF Hours, Sixties
<1>7. y \in 2000..2099 /\ m \in 1..12 /\ d \in 1..31
  BY <1>1, DateBounds
<1>8. t \in [1..6 -> Nat] /\ t \in Seq(Nat) /\ Storable(t, 6)
  <2>1. t \in [1..6 -> Nat] /\ t \in Seq(Nat) /\ Len(t) = 6 /\ t[1] = y /\ \A i \in 2..6 : t[i] \in 0..99
    BY <1>3, <1>6, <1>7
  <2>2. y \in Century
    BY <1>7 DEF Century
  <2> QED BY <2>1, <2>2 DEF Storable
<1>9. DecodeClock(EncodeClock(t)) = [i \in 1..6 |-> t[i]]
  <2>1. 6 \in Nat /\ 6 \in 1..6
    OBVIOUS
  <2> QED BY <1>8, <2>1, TimeIsKept, Zenon DEF DecodeClock, EncodeClock
<1>10. DecodeSchedule(EncodeSchedule(t)) = [i \in 1..5 |-> t[i]]
  <2>1. 6 \in Nat /\ 5 \in 1..6
    OBVIOUS
  <2> QED BY <1>8, <2>1, TimeIsKept, Zenon DEF DecodeSchedule, EncodeSchedule
<1>11. [i \in 1..6 |-> t[i]] = t /\ [i \in 1..5 |-> t[i]] = SubSeq(t, 1, 5)
  BY <1>8
<1>12. SubSeq(t, 1, 3) = <<y, m, d>> /\ SubSeq(date, 2, 4) = <<y, m, d>>
  <2> DEFINE f == <<y, m, d>>
  <2>1. f = [i \in 1..3 |-> f[i]]
    OBVIOUS
  <2>2. SubSeq(t, 1, 3) = [i \in 1..3 |-> t[i]] /\ SubSeq(date, 2, 4) = [i \in 1..3 |-> date[i + 1]]
    OBVIOUS
  <2>3. \A i \in 1..3 : t[i] = f[i] /\ date[i + 1] = f[i]
    BY <1>1, <1>3
  <2> HIDE DEF f
  <2>4. SubSeq(t, 1, 3) = f /\ SubSeq(date, 2, 4) = f
    BY <2>1, <2>2, <2>3, Zenon
  <2> QED BY <2>4 DEF f
<1>13. t # None
  BY <1>8, NoneIsRefusal
<1> QED BY <1>4, <1>5, <1>9, <1>10, <1>11, <1>12, <1>13

\* Every second of every day of the device's century is the calendar's, there and
\* back, and its minute survives the bytes of a schedule and its second a clock's.
THEOREM ConversionIsCalendarAlways == CalendarSpec => []ConversionIsCalendar
BY CalendarStart, CalendarStep, CalendarMeans, PTL DEF CalendarSpec

-----------------------------------------------------------------------------
(* The checksum of a frame. *)

\* Induction with the hypothesis as a set.
LEMMA SetInduction ==
    ASSUME NEW T, 0 \in T, \A n \in Nat : n \in T => n + 1 \in T
    PROVE  Nat \subseteq T
<1> DEFINE R == OpToRel(<, Nat)
           Outside == Nat \ T
<1> SUFFICES ASSUME Outside # {} PROVE FALSE
  OBVIOUS
<1>1. \E n \in Outside : \A m \in Outside : ~ (<<m, n>> \in R)
  <2>1. IsWellFoundedOn(R, Nat)
    BY NatLessThanWellFounded
  <2>2. Outside \subseteq Nat
    OBVIOUS
  <2> HIDE DEF R, Outside
  <2> QED BY <2>1, <2>2, WFMin
<1>2. PICK n \in Outside : \A m \in Outside : ~ (m < n)
  BY <1>1 DEF OpToRel
<1>3. n # 0 /\ n - 1 \in Nat /\ n - 1 \notin Outside
  BY <1>2
<1>4. n - 1 \in T /\ (n - 1) + 1 = n
  BY <1>3
<1> QED BY <1>3, <1>4

LEMMA BytesAdd ==
    ASSUME NEW x \in Byte, NEW y \in Byte
    PROVE  /\ (x + y) % 256 = IF x + y <= 255 THEN x + y ELSE x + y - 256
           /\ (x + y) % 256 \in Byte
<1>1. x \in Int /\ y \in Int /\ 0 <= x /\ x <= 255 /\ 0 <= y /\ y <= 255
  BY DEF Byte
<1>2. (x + y) % 256 = IF x + y <= 255 THEN x + y ELSE x + y - 256
  BY <1>1, SMT
<1>3. PICK z : z = (x + y) % 256
  OBVIOUS
<1>4. z \in Int /\ 0 <= z /\ z <= 255
  BY <1>1, <1>2, <1>3
<1> QED BY <1>2, <1>3, <1>4 DEF Byte

LEMMA BytesDiffer ==
    ASSUME NEW x \in Byte, NEW y \in Byte, NEW z \in Byte, x # y
    PROVE  (x + z) % 256 # (y + z) % 256 /\ (z + x) % 256 # (z + y) % 256
<1>1. /\ x \in Int /\ y \in Int /\ z \in Int
      /\ 0 <= x /\ x <= 255 /\ 0 <= y /\ y <= 255 /\ 0 <= z /\ z <= 255
  BY DEF Byte
<1>2. /\ (x + z) % 256 = IF x + z <= 255 THEN x + z ELSE x + z - 256
      /\ (y + z) % 256 = IF y + z <= 255 THEN y + z ELSE y + z - 256
      /\ (z + x) % 256 = IF z + x <= 255 THEN z + x ELSE z + x - 256
      /\ (z + y) % 256 = IF z + y <= 255 THEN z + y ELSE z + y - 256
  BY BytesAdd
<1> QED BY <1>1, <1>2, SMT

\* The sums of the first bytes, one by one.
Sums(bytes, f) ==
    f = [n \in 0..Len(bytes) |-> IF n = 0 THEN 0 ELSE (f[n - 1] + bytes[n]) % 256]

\* There is one such function, and the checksum is its last value.
LEMMA SumsAreOne ==
    ASSUME NEW bytes \in Seq(Byte), NEW f, NEW g, Sums(bytes, f), Sums(bytes, g)
    PROVE  f = g
<1> DEFINE T == {n \in Nat : n \in 0..Len(bytes) => f[n] = g[n]}
<1>1. Len(bytes) \in Nat
  BY LenProperties
<1>2. 0 \in T
  BY <1>1 DEF Sums
<1>3. ASSUME NEW n \in Nat, n \in T PROVE n + 1 \in T
  <2> SUFFICES ASSUME n + 1 \in 0..Len(bytes) PROVE f[n + 1] = g[n + 1]
    OBVIOUS
  <2>1. n \in 0..Len(bytes) /\ n + 1 # 0 /\ (n + 1) - 1 = n
    BY <1>1
  <2>2. f[n + 1] = (f[n] + bytes[n + 1]) % 256 /\ g[n + 1] = (g[n] + bytes[n + 1]) % 256
    BY <2>1 DEF Sums
  <2> QED BY <1>3, <2>1, <2>2
<1> HIDE DEF T
<1>4. Nat \subseteq T
  BY <1>2, <1>3, SetInduction
<1>5. \A n \in 0..Len(bytes) : f[n] = g[n]
  BY <1>1, <1>4 DEF T
<1> QED BY <1>5 DEF Sums

LEMMA SumsExist ==
    ASSUME NEW bytes \in Seq(Byte)
    PROVE  \E f \in [0..Len(bytes) -> Byte] : Sums(bytes, f)
<1> DEFINE Upto(n, f) == \A k \in 0..n : f[k] = IF k = 0 THEN 0 ELSE (f[k - 1] + bytes[k]) % 256
           T == {n \in Nat : n \in 0..Len(bytes) => \E f \in [0..n -> Byte] : Upto(n, f)}
<1>1. Len(bytes) \in Nat /\ \A i \in 1..Len(bytes) : bytes[i] \in Byte
  BY LenProperties, ElementOfSeq
<1>2. 0 \in T
  <2>1. [k \in 0..0 |-> 0] \in [0..0 -> Byte] /\ Upto(0, [k \in 0..0 |-> 0])
    BY DEF Byte
  <2> QED BY <2>1
<1>3. ASSUME NEW n \in Nat, n \in T PROVE n + 1 \in T
  <2> SUFFICES ASSUME n + 1 \in 0..Len(bytes) PROVE \E f \in [0..n + 1 -> Byte] : Upto(n + 1, f)
    OBVIOUS
  <2>1. PICK f \in [0..n -> Byte] : Upto(n, f)
    BY <1>1, <1>3
  <2> DEFINE g == [k \in 0..n + 1 |-> IF k = n + 1 THEN (f[n] + bytes[n + 1]) % 256 ELSE f[k]]
  <2>2. f[n] \in Byte /\ bytes[n + 1] \in Byte
    BY <1>1
  <2>3. (f[n] + bytes[n + 1]) % 256 \in Byte
    BY <2>2, BytesAdd
  <2>4. g \in [0..n + 1 -> Byte]
    BY <2>3
  <2>5. ASSUME NEW k \in 0..n + 1
        PROVE  g[k] = IF k = 0 THEN 0 ELSE (g[k - 1] + bytes[k]) % 256
    <3>1. CASE k = n + 1
      <4>1. k - 1 = n /\ n \in 0..n + 1 /\ n # n + 1 /\ k # 0
        BY <3>1
      <4> QED BY <3>1, <4>1
    <3>2. CASE k \in 0..n
      <4>1. k # n + 1 /\ (k # 0 => k - 1 \in 0..n + 1 /\ k - 1 # n + 1)
        BY <3>2
      <4>2. g[k] = f[k] /\ (k # 0 => g[k - 1] = f[k - 1])
        BY <4>1
      <4> QED BY <2>1, <3>2, <4>2
    <3> QED BY <3>1, <3>2
  <2> HIDE DEF g
  <2> QED BY <2>4, <2>5
<1> HIDE DEF T
<1>4. Nat \subseteq T
  BY <1>2, <1>3, SetInduction
<1>5. PICK f \in [0..Len(bytes) -> Byte] : Upto(Len(bytes), f)
  BY <1>1, <1>4 DEF T
<1>6. f = [n \in 0..Len(bytes) |-> IF n = 0 THEN 0 ELSE (f[n - 1] + bytes[n]) % 256]
  BY <1>5
<1> QED BY <1>6 DEF Sums

LEMMA ChecksumIsSum ==
    ASSUME NEW bytes \in Seq(Byte)
    PROVE  \E f \in [0..Len(bytes) -> Byte] : Sums(bytes, f) /\ Checksum(bytes) = f[Len(bytes)]
<1>1. PICK f \in [0..Len(bytes) -> Byte] : Sums(bytes, f)
  BY SumsExist
<1>2. (CHOOSE g : Sums(bytes, g)) = f
  BY <1>1, SumsAreOne
<1>3. (CHOOSE g : g = [n \in 0..Len(bytes) |-> IF n = 0 THEN 0 ELSE (g[n - 1] + bytes[n]) % 256]) = f
  BY <1>2, Zenon DEF Sums
<1>4. Checksum(bytes) = f[Len(bytes)]
  BY <1>3 DEF Checksum
<1> QED BY <1>1, <1>4

LEMMA ChecksumIsByte == ASSUME NEW bytes \in Seq(Byte) PROVE Checksum(bytes) \in Byte
BY ChecksumIsSum, LenProperties

\* One byte that is another one changes the checksum.
LEMMA OneByteTells ==
    ASSUME NEW a \in Seq(Byte), NEW b \in Seq(Byte), Len(a) = Len(b),
           NEW i \in 1..Len(a), a[i] # b[i], \A k \in 1..Len(a) : k # i => a[k] = b[k]
    PROVE  Checksum(a) # Checksum(b)
<1>1. PICK f \in [0..Len(a) -> Byte] : Sums(a, f) /\ Checksum(a) = f[Len(a)]
  BY ChecksumIsSum
<1>2. PICK g \in [0..Len(a) -> Byte] : Sums(b, g) /\ Checksum(b) = g[Len(a)]
  BY ChecksumIsSum
<1>3. /\ Len(a) \in Nat /\ i \in Nat
      /\ \A k \in 1..Len(a) : a[k] \in Byte /\ b[k] \in Byte
  BY LenProperties, ElementOfSeq
<1>4. /\ f[0] = 0 /\ g[0] = 0
      /\ \A k \in 1..Len(a) : /\ f[k] = (f[k - 1] + a[k]) % 256
                              /\ g[k] = (g[k - 1] + b[k]) % 256
  <2>1. Len(b) = Len(a) /\ 0 \in 0..Len(a)
    BY <1>3
  <2>2. \A k \in 1..Len(a) : k \in 0..Len(a) /\ k # 0
    BY <1>3
  <2> QED BY <1>1, <1>2, <2>1, <2>2 DEF Sums
<1> DEFINE T == {n \in Nat : n \in 0..Len(a) => (n < i => f[n] = g[n]) /\ (n >= i => f[n] # g[n])}
<1>5. 0 \in T
  BY <1>3, <1>4
<1>6. ASSUME NEW n \in Nat, n \in T PROVE n + 1 \in T
  <2> SUFFICES ASSUME n + 1 \in 0..Len(a)
               PROVE  (n + 1 < i => f[n + 1] = g[n + 1]) /\ (n + 1 >= i => f[n + 1] # g[n + 1])
    OBVIOUS
  <2>1. n \in 0..Len(a) /\ n + 1 \in 1..Len(a)
    BY <1>3
  <2>2. /\ f[n + 1] = (f[n] + a[n + 1]) % 256
        /\ g[n + 1] = (g[n] + b[n + 1]) % 256
    BY <1>4, <2>1
  <2>3. f[n] \in Byte /\ g[n] \in Byte /\ a[n + 1] \in Byte /\ b[n + 1] \in Byte
    BY <1>3, <2>1
  <2>4. (n < i => f[n] = g[n]) /\ (n >= i => f[n] # g[n])
    BY <1>6, <2>1
  <2>5. CASE n + 1 < i
    BY <1>3, <2>1, <2>2, <2>4, <2>5
  <2>6. CASE n + 1 = i
    <3>1. f[n] = g[n] /\ a[n + 1] # b[n + 1] /\ n + 1 >= i
      BY <1>3, <2>4, <2>6
    <3>2. f[n + 1] # g[n + 1]
      BY <2>2, <2>3, <3>1, BytesDiffer
    <3> QED BY <1>3, <2>6, <3>2
  <2>7. CASE n + 1 > i
    <3>1. n >= i /\ n + 1 # i
      BY <1>3, <2>7
    <3>2. f[n] # g[n] /\ a[n + 1] = b[n + 1]
      BY <2>1, <2>4, <3>1
    <3>3. f[n + 1] # g[n + 1]
      BY <2>2, <2>3, <3>2, BytesDiffer
    <3> QED BY <1>3, <2>7, <3>3
  <2> QED BY <1>3, <2>5, <2>6, <2>7
<1> HIDE DEF T
<1>7. Nat \subseteq T
  BY <1>5, <1>6, SetInduction
<1>8. f[Len(a)] # g[Len(a)]
  BY <1>3, <1>7 DEF T
<1> QED BY <1>1, <1>2, <1>8

-----------------------------------------------------------------------------
(* Frames. *)

\* What a frame may carry, and the frames.
Payloads == {p \in Seq(Byte) : Len(p) \in Byte}
Frames == [cmd : Byte, payload : Payloads]

LEMMA ByteIsNumber == \A x \in Byte : x \in Nat /\ 0 <= x /\ x <= 255
BY SMT DEF Byte

\* The bytes of a frame.
LEMMA FrameBytes ==
    ASSUME NEW c \in Byte, NEW p \in Payloads
    PROVE  \E head \in Seq(Byte), E \in Seq(Byte) :
              /\ E = EncodeInto(Frame(c, p))
              /\ Len(head) = Len(p) + 3 /\ Len(E) = Len(p) + 4
              /\ SubSeq(E, 1, Len(p) + 3) = head
              /\ head[1] = START /\ head[2] = Len(p) /\ head[3] = c
              /\ SubSeq(head, 4, Len(head)) = p
              /\ E[Len(E)] = Checksum(head)
<1> DEFINE first == <<START, Len(p), c>>
           h == first \o p
           E == Append(h, Checksum(h))
<1>0. p \in Seq(Byte) /\ Len(p) \in Byte
  BY DEF Payloads
<1>1. EncodeInto(Frame(c, p)) = E
  BY DEF EncodeInto, Frame
<1>2. first \in Seq(Byte) /\ Len(first) = 3
      /\ first[1] = START /\ first[2] = Len(p) /\ first[3] = c
  BY <1>0 DEF START, Byte
<1> HIDE DEF first
<1>3. h \in Seq(Byte) /\ Len(h) = Len(p) + 3
      /\ \A i \in 1..Len(p) + 3 : h[i] = IF i <= 3 THEN first[i] ELSE p[i - 3]
  <2>1. /\ h \in Seq(Byte) /\ Len(h) = Len(first) + Len(p)
        /\ \A i \in 1..Len(first) + Len(p) :
              h[i] = IF i <= Len(first) THEN first[i] ELSE p[i - Len(first)]
    BY <1>0, <1>2, ConcatProperties
  <2> HIDE DEF h
  <2>2. Len(p) \in Nat
    BY <1>0, LenProperties
  <2> QED BY <1>2, <2>1, <2>2
<1> HIDE DEF h
<1>4. SubSeq(h, 4, Len(h)) = p
  <2>1. \A i \in 4..Len(h) : h[i] \in Byte
    BY <1>3, ElementOfSeq
  <2>2. /\ SubSeq(h, 4, Len(h)) \in Seq(Byte)
        /\ Len(SubSeq(h, 4, Len(h))) = IF 4 <= Len(h) THEN Len(h) - 4 + 1 ELSE 0
        /\ \A i \in 1..Len(h) - 4 + 1 : SubSeq(h, 4, Len(h))[i] = h[4 + i - 1]
    BY <1>3, <2>1, SubSeqProperties
  <2>3. Len(SubSeq(h, 4, Len(h))) = Len(p)
    BY <1>0, <1>3, <2>2
  <2>4. \A i \in 1..Len(p) : SubSeq(h, 4, Len(h))[i] = p[i]
    BY <1>0, <1>3, <2>2
  <2> QED BY <1>0, <2>2, <2>3, <2>4, SeqEqual
<1>5. Checksum(h) \in Byte
  BY <1>3, ChecksumIsByte
<1>6. E \in Seq(Byte) /\ Len(E) = Len(p) + 4 /\ E[Len(E)] = Checksum(h)
  BY <1>0, <1>3, <1>5
<1>7. SubSeq(E, 1, Len(p) + 3) = h
  BY <1>0, <1>3, <1>5
<1>8. h[1] = START /\ h[2] = Len(p) /\ h[3] = c
  BY <1>0, <1>2, <1>3
<1> HIDE DEF E
<1> QED BY <1>1, <1>3, <1>4, <1>6, <1>7, <1>8

\* Frames of the same bytes carry the same.
LEMMA FrameIsItsBytes ==
    ASSUME NEW c \in Byte, NEW p \in Payloads, NEW d \in Byte, NEW q \in Payloads,
           EncodeInto(Frame(c, p)) = EncodeInto(Frame(d, q))
    PROVE  c = d /\ p = q
<1>1. PICK head \in Seq(Byte), E \in Seq(Byte) :
              /\ E = EncodeInto(Frame(c, p))
              /\ Len(head) = Len(p) + 3 /\ Len(E) = Len(p) + 4
              /\ SubSeq(E, 1, Len(p) + 3) = head
              /\ head[1] = START /\ head[2] = Len(p) /\ head[3] = c
              /\ SubSeq(head, 4, Len(head)) = p
  BY FrameBytes
<1>2. PICK head2 \in Seq(Byte), F \in Seq(Byte) :
              /\ F = EncodeInto(Frame(d, q))
              /\ Len(head2) = Len(q) + 3 /\ Len(F) = Len(q) + 4
              /\ SubSeq(F, 1, Len(q) + 3) = head2
              /\ head2[1] = START /\ head2[2] = Len(q) /\ head2[3] = d
              /\ SubSeq(head2, 4, Len(head2)) = q
  BY FrameBytes
<1>3. E = F
  BY <1>1, <1>2
<1>4. Len(p) \in Nat /\ Len(q) \in Nat
  BY LenProperties DEF Payloads
<1>5. Len(p) = Len(q)
  <2>1. Len(p) + 4 = Len(q) + 4
    BY <1>1, <1>2, <1>3
  <2> QED BY <1>4, <2>1
<1>6. head = head2
  BY <1>1, <1>2, <1>3, <1>5
<1> QED BY <1>1, <1>2, <1>6, Zenon

-----------------------------------------------------------------------------
(* The reader. *)

\* What is in the reader is the beginning of a frame.
Begun(buf) ==
    /\ buf \in Seq(Byte)
    /\ buf # <<>> => buf[1] = START
    /\ Len(buf) > 1 => Len(buf) <= buf[2] + 3

\* Whatever the bytes are: the reader holds fewer than the longest frame has, and
\* what it takes for a frame is the encoding of that frame, all of it.
LEMMA ReaderTakesFrames ==
    ASSUME NEW buf, Begun(buf), NEW b \in Byte
    PROVE  /\ Begun(Push(buf, b).buf)
           /\ Push(buf, b).buf \in {<<>>, Append(buf, b)}
           /\ Push(buf, b).out # None =>
                /\ Push(buf, b).buf = <<>>
                /\ Push(buf, b).out \in Frames
                /\ Append(buf, b) = EncodeInto(Push(buf, b).out)
<1> DEFINE pushed == Push(buf, b)
<1>1. /\ buf \in Seq(Byte) /\ Len(buf) \in Nat
      /\ \A i \in 1..Len(buf) : buf[i] \in Byte
  BY LenProperties, ElementOfSeq DEF Begun
<1>2. /\ Append(buf, b) \in Seq(Byte) /\ Len(Append(buf, b)) = Len(buf) + 1
      /\ \A i \in 1..Len(buf) : Append(buf, b)[i] = buf[i]
      /\ Append(buf, b)[Len(buf) + 1] = b
  BY <1>1
<1>3. Begun(<<>>)
  BY EmptySeq DEF Begun
<1>4. CASE Len(buf) < 3 \/ Len(buf) < buf[2] + 3
  <2>1. pushed = [buf |-> IF buf = <<>> /\ b # START THEN <<>> ELSE Append(buf, b), out |-> None]
    BY <1>4 DEF Push
  <2>2. CASE buf = <<>> /\ b # START
    BY <1>3, <2>1, <2>2
  <2>3. CASE ~(buf = <<>> /\ b # START)
    <3>1. Append(buf, b)[1] = START
      <4>1. CASE buf = <<>>
        BY <1>2, <2>3, <4>1
      <4>2. CASE buf # <<>>
        <5>1. 1 \in 1..Len(buf) /\ buf[1] = START
          BY <1>1, <4>2, EmptySeq DEF Begun
        <5> QED BY <1>2, <5>1
      <4> QED BY <4>1, <4>2
    <3>2. ASSUME Len(Append(buf, b)) > 1 PROVE Len(Append(buf, b)) <= Append(buf, b)[2] + 3
      <4>1. CASE Len(buf) = 1
        BY <1>1, <1>2, <4>1 DEF Byte
      <4>2. CASE Len(buf) > 1
        <5>1. 2 \in 1..Len(buf) /\ buf[2] \in Byte /\ Append(buf, b)[2] = buf[2]
          BY <1>1, <1>2, <4>2
        <5>2. buf[2] \in Int /\ buf[2] >= 0
          BY <5>1, ByteIsNumber
        <5>3. Len(buf) + 1 <= buf[2] + 3
          BY <1>1, <1>4, <5>2
        <5> QED BY <1>2, <5>1, <5>3
      <4>3. Len(buf) = 1 \/ Len(buf) > 1
        <5>1. PICK n \in Nat : n = Len(buf)
          BY <1>1
        <5>2. Len(Append(buf, b)) = n + 1
          BY <1>2, <5>1
        <5>3. n + 1 > 1
          BY <3>2, <5>2
        <5> QED BY <5>1, <5>3
      <4> QED BY <4>1, <4>2, <4>3
    <3>3. pushed.buf = Append(buf, b) /\ pushed.out = None
      BY <2>1, <2>3
    <3>4. Begun(Append(buf, b))
      BY <1>2, <3>1, <3>2 DEF Begun
    <3> HIDE DEF pushed
    <3> QED BY <3>3, <3>4, Zenon DEF pushed
  <2> QED BY <2>2, <2>3
<1>5. CASE ~(Len(buf) < 3 \/ Len(buf) < buf[2] + 3)
  <2> DEFINE p == SubSeq(buf, 4, Len(buf))
             first == <<START, Len(p), buf[3]>>
  <2>1. 1 \in 1..Len(buf) /\ 2 \in 1..Len(buf) /\ 3 \in 1..Len(buf) /\ buf # <<>>
    BY <1>1, <1>5, EmptySeq
  <2>2. buf[1] = START /\ Len(buf) = buf[2] + 3 /\ buf[2] \in Byte /\ buf[3] \in Byte
    <3>1. buf[1] = START /\ Len(buf) <= buf[2] + 3 /\ buf[2] \in Byte /\ buf[3] \in Byte
      BY <1>1, <1>5, <2>1 DEF Begun
    <3>2. buf[2] \in Int
      BY <3>1, ByteIsNumber
    <3> QED BY <1>1, <1>5, <3>1, <3>2
  <2>3. p \in Seq(Byte) /\ Len(p) = buf[2] /\ \A i \in 1..Len(p) : p[i] = buf[3 + i]
    <3>1. \A i \in 4..Len(buf) : buf[i] \in Byte
      BY <1>1
    <3>2. /\ p \in Seq(Byte)
          /\ Len(p) = IF 4 <= Len(buf) THEN Len(buf) - 4 + 1 ELSE 0
          /\ \A i \in 1..Len(buf) - 4 + 1 : p[i] = buf[4 + i - 1]
      BY <1>1, <3>1, SubSeqProperties
    <3> HIDE DEF p
    <3>3. buf[2] \in Int /\ buf[2] >= 0
      BY <2>2, ByteIsNumber
    <3>4. Len(p) = buf[2] /\ Len(p) = Len(buf) - 4 + 1
      BY <1>1, <2>2, <3>2, <3>3
    <3>5. \A i \in 1..Len(p) : 4 + i - 1 = 3 + i
      BY <3>3, <3>4
    <3> QED BY <3>2, <3>4, <3>5
  <2> HIDE DEF p
  <2>4. p \in Payloads /\ Frame(buf[3], p) \in Frames
    BY <2>2, <2>3 DEF Payloads, Frames, Frame
  <2>5. first \o p = buf
    <3>1. /\ first \in Seq(Byte) /\ Len(first) = 3
          /\ first[1] = buf[1] /\ first[2] = buf[2] /\ first[3] = buf[3]
      BY <2>2, <2>3 DEF START, Byte
    <3> HIDE DEF first
    <3>2. /\ first \o p \in Seq(Byte) /\ Len(first \o p) = Len(first) + Len(p)
          /\ \A i \in 1..Len(first) + Len(p) :
                (first \o p)[i] = IF i <= Len(first) THEN first[i] ELSE p[i - Len(first)]
      BY <2>3, <3>1, ConcatProperties
    <3>3. Len(p) \in Int /\ Len(p) >= 0 /\ Len(first \o p) = Len(buf) /\ Len(buf) = Len(p) + 3
      BY <2>2, <2>3, <3>1, <3>2 DEF Byte
    <3>4. ASSUME NEW i \in 1..Len(buf) PROVE (first \o p)[i] = buf[i]
      <4>1. CASE i <= 3
        BY <3>1, <3>2, <3>3, <4>1
      <4>2. CASE i > 3
        <5>1. i - 3 \in 1..Len(p) /\ 3 + (i - 3) = i
          BY <3>3, <4>2
        <5>2. p[i - 3] = buf[i]
          BY <2>3, <5>1
        <5> QED BY <3>1, <3>2, <3>3, <4>2, <5>2
      <4>3. i <= 3 \/ i > 3
        BY <1>1
      <4> QED BY <4>1, <4>2, <4>3, Zenon
    <3> HIDE DEF first
    <3> QED BY <1>1, <3>2, <3>3, <3>4, SeqEqual
  <2>6. EncodeInto(Frame(buf[3], p)) = Append(buf, Checksum(buf))
    BY <2>5 DEF EncodeInto, Frame
  <2>7. pushed = [buf |-> <<>>, out |-> IF b = Checksum(buf) THEN Frame(buf[3], p) ELSE None]
    BY <1>5 DEF Push, p
  <2>8. pushed.buf = <<>> /\ (pushed.out # None => b = Checksum(buf) /\ pushed.out = Frame(buf[3], p))
    BY <2>7
  <2> HIDE DEF pushed
  <2> QED BY <1>3, <2>4, <2>6, <2>8, Zenon DEF pushed
<1> QED BY <1>4, <1>5

-----------------------------------------------------------------------------
(* One fault. *)

LEMMA FrameAt ==
    ASSUME NEW c \in Byte, NEW p \in Payloads
    PROVE  \E E \in Seq(Byte), head \in Seq(Byte) :
              /\ E = EncodeInto(Frame(c, p))
              /\ Len(p) \in Nat /\ Len(E) = Len(p) + 4
              /\ E[1] = START /\ E[2] = Len(p) /\ E[3] = c
              /\ Len(head) = Len(p) + 3 /\ \A n \in 1..Len(p) + 3 : head[n] = E[n]
              /\ E[Len(p) + 4] = Checksum(head)
<1>1. PICK head \in Seq(Byte), E1 \in Seq(Byte) :
              /\ E1 = EncodeInto(Frame(c, p))
              /\ Len(head) = Len(p) + 3 /\ Len(E1) = Len(p) + 4
              /\ SubSeq(E1, 1, Len(p) + 3) = head
              /\ head[1] = START /\ head[2] = Len(p) /\ head[3] = c
              /\ E1[Len(E1)] = Checksum(head)
  BY FrameBytes
<1>2. Len(p) \in Nat
  BY LenProperties DEF Payloads
<1>3. \A n \in 1..Len(p) + 3 : head[n] = E1[n]
  BY <1>1, <1>2
<1>4. E1[1] = START /\ E1[2] = Len(p) /\ E1[3] = c /\ E1[Len(p) + 4] = Checksum(head)
  BY <1>1, <1>2, <1>3
<1> QED BY <1>1, <1>2, <1>3, <1>4, Zenon

\* What the device sends on its own.
Ack == EncodeInto(Frame(Acknowledge, <<>>))

LEMMA AckBytes ==
    /\ Ack \in Seq(Byte) /\ Len(Ack) = 4
    /\ Ack[1] = 254 /\ Ack[2] = 0 /\ Ack[3] = 8 /\ Ack[4] = 6
<1>1. /\ Acknowledge \in Byte /\ <<>> \in Payloads /\ Len(<<>>) = 0
      /\ 254 \in Byte /\ 0 \in Byte /\ 8 \in Byte
  BY EmptySeq DEF Acknowledge, Payloads, Byte
<1>2. PICK E \in Seq(Byte), h \in Seq(Byte) :
              /\ E = EncodeInto(Frame(Acknowledge, <<>>))
              /\ Len(<<>>) \in Nat /\ Len(E) = Len(<<>>) + 4
              /\ E[1] = START /\ E[2] = Len(<<>>) /\ E[3] = Acknowledge
              /\ Len(h) = Len(<<>>) + 3 /\ \A n \in 1..Len(<<>>) + 3 : h[n] = E[n]
              /\ E[Len(<<>>) + 4] = Checksum(h)
  BY <1>1, FrameAt, Zenon
<1>3. /\ Ack = E /\ Len(E) = 4 /\ E[4] = Checksum(h)
      /\ Len(h) = 3 /\ h[1] = 254 /\ h[2] = 0 /\ h[3] = 8
      /\ E[1] = 254 /\ E[2] = 0 /\ E[3] = 8
  BY <1>1, <1>2 DEF Ack, START, Acknowledge
<1>4. PICK f \in [0..Len(h) -> Byte] : Sums(h, f) /\ Checksum(h) = f[Len(h)]
  BY <1>3, ChecksumIsSum
<1>5. f[0] = 0 /\ f[1] = (f[0] + 254) % 256 /\ f[2] = (f[1] + 0) % 256 /\ f[3] = (f[2] + 8) % 256
  BY <1>3, <1>4 DEF Sums
<1>6. f[1] = 254
  BY <1>1, <1>5, BytesAdd
<1>7. f[2] = 254
  BY <1>1, <1>5, <1>6, BytesAdd
<1>8. f[3] = 6
  BY <1>1, <1>5, <1>7, BytesAdd
<1> QED BY <1>2, <1>3, <1>4, <1>8

\* The bytes of F are in D, from the one after the i-th.
Found(F, D, i) == i + Len(F) <= Len(D) /\ \A n \in 1..Len(F) : D[i + n] = F[n]

\* What one fault can make of a reply, or put before it.
Spoiled(E) == Damaged(E) \cup {Ack \o E}

LEMMA ChangedByte ==
    ASSUME NEW x \in Byte, NEW d \in Changes
    PROVE  (x + d) % 256 \in Byte /\ (x + d) % 256 # x
<1>1. d \in Byte /\ d \in Int /\ 1 <= d /\ d <= 255
  <2>1. d \in 1..255
    BY LinkAssumption, Zenon
  <2> QED BY <2>1 DEF Byte
<1>2. x \in Int /\ 0 <= x /\ x <= 255
  BY ByteIsNumber
<1>3. /\ (x + d) % 256 \in Byte
      /\ (x + d) % 256 = IF x + d <= 255 THEN x + d ELSE x + d - 256
  BY <1>1, BytesAdd
<1> QED BY <1>1, <1>2, <1>3

LEMMA SpoiledBytes ==
    ASSUME NEW E \in Seq(Byte), E # <<>>, NEW D \in Spoiled(E)
    PROVE  /\ D \in Seq(Byte)
           /\ \/ Len(D) < Len(E)
              \/ /\ Len(D) = Len(E)
                 /\ \E k \in 1..Len(E) : D[k] # E[k] /\ \A n \in 1..Len(E) : n # k => D[n] = E[n]
              \/ /\ Len(D) = Len(E) + 1 /\ \A n \in 1..Len(E) : D[1 + n] = E[n]
              \/ /\ Len(D) = 4 + Len(E) /\ \A n \in 1..Len(E) : D[4 + n] = E[n]
                 /\ D[1] = 254 /\ D[2] = 0 /\ D[3] = 8 /\ D[4] = 6
<1>1. Len(E) \in Nat /\ Len(E) > 0 /\ \A n \in 1..Len(E) : E[n] \in Byte
  BY LenProperties, ElementOfSeq, EmptySeq
<1>2. CASE D = <<>>
  BY <1>1, <1>2, EmptySeq
<1>3. CASE \E k \in 1..Len(E) : D = RemoveAt(E, k)
  <2>1. PICK k \in 1..Len(E) : D = RemoveAt(E, k)
    BY <1>3
  <2> DEFINE a == SubSeq(E, 1, k - 1)
             b == SubSeq(E, k + 1, Len(E))
  <2>2. a \in Seq(Byte) /\ Len(a) = k - 1
    BY <1>1
  <2>3. b \in Seq(Byte) /\ Len(b) = Len(E) - k
    BY <1>1
  <2>4. D = a \o b
    BY <2>1 DEF RemoveAt
  <2> HIDE DEF a, b
  <2>5. D \in Seq(Byte) /\ Len(D) = Len(a) + Len(b)
    BY <2>2, <2>3, <2>4, ConcatProperties
  <2>6. Len(D) < Len(E)
    BY <1>1, <2>2, <2>3, <2>5
  <2> QED BY <2>5, <2>6
<1>4. CASE \E k \in 1..Len(E), d \in Changes : D = [E EXCEPT ![k] = (@ + d) % 256]
  <2>1. PICK k \in 1..Len(E), d \in Changes : D = [E EXCEPT ![k] = (E[k] + d) % 256]
    BY <1>4
  <2>2. PICK x : x = (E[k] + d) % 256
    OBVIOUS
  <2>3. x \in Byte /\ x # E[k]
    BY <1>1, <2>2, ChangedByte
  <2>4. D = [E EXCEPT ![k] = x]
    BY <2>1, <2>2
  <2>5. /\ D \in Seq(Byte) /\ Len(D) = Len(E)
        /\ \A n \in 1..Len(E) : D[n] = IF n = k THEN x ELSE E[n]
    BY <2>3, <2>4, ExceptSeq
  <2> QED BY <2>3, <2>5
<1>5. CASE \E b \in Noise : D = <<b>> \o E
  <2>1. PICK b \in Noise : D = <<b>> \o E
    BY <1>5
  <2>2. b \in Byte
    BY LinkAssumption, Zenon
  <2>3. <<b>> \in Seq(Byte) /\ Len(<<b>>) = 1
    BY <2>2
  <2>4. PICK s \in Seq(Byte) : s = <<b>> /\ Len(s) = 1
    BY <2>3
  <2>5. /\ D \in Seq(Byte) /\ Len(D) = 1 + Len(E)
        /\ \A n \in 1..1 + Len(E) : D[n] = IF n <= 1 THEN s[n] ELSE E[n - 1]
    BY <2>1, <2>4, ConcatProperties
  <2>6. ASSUME NEW n \in 1..Len(E) PROVE D[1 + n] = E[n]
    <3>1. 1 + n \in 1..1 + Len(E) /\ ~(1 + n <= 1) /\ (1 + n) - 1 = n
      BY <1>1
    <3> QED BY <2>5, <3>1
  <2> QED BY <1>1, <2>5, <2>6
<1>6. CASE D = Ack \o E
  <2>1. /\ D \in Seq(Byte) /\ Len(D) = 4 + Len(E)
        /\ \A n \in 1..4 + Len(E) : D[n] = IF n <= 4 THEN Ack[n] ELSE E[n - 4]
    <3>1. PICK s \in Seq(Byte) : s = Ack /\ Len(s) = 4
      BY AckBytes
    <3>2. /\ s \o E \in Seq(Byte) /\ Len(s \o E) = Len(s) + Len(E)
          /\ \A n \in 1..Len(s) + Len(E) : (s \o E)[n] = IF n <= Len(s) THEN s[n] ELSE E[n - Len(s)]
      BY ConcatProperties
    <3>3. D = s \o E
      BY <1>6, <3>1
    <3> QED BY <3>1, <3>2, <3>3, Zenon
  <2>2. ASSUME NEW n \in 1..Len(E) PROVE D[4 + n] = E[n]
    <3>1. 4 + n \in 1..4 + Len(E) /\ ~(4 + n <= 4) /\ (4 + n) - 4 = n
      BY <1>1
    <3> QED BY <2>1, <3>1
  <2>3. D[1] = Ack[1] /\ D[2] = Ack[2] /\ D[3] = Ack[3] /\ D[4] = Ack[4]
    BY <1>1, <2>1
  <2> QED BY <2>1, <2>2, <2>3, AckBytes
<1>7. \/ D = <<>> \/ D = Ack \o E
      \/ \E k \in 1..Len(E) : D = RemoveAt(E, k)
      \/ \E k \in 1..Len(E), d \in Changes : D = [E EXCEPT ![k] = (@ + d) % 256]
      \/ \E b \in Noise : D = <<b>> \o E
  <2> DEFINE A == {RemoveAt(E, k) : k \in 1..Len(E)}
             B == {[E EXCEPT ![k] = (@ + d) % 256] : k \in 1..Len(E), d \in Changes}
             C == {<<b>> \o E : b \in Noise}
  <2>1. Damaged(E) = {<<>>} \cup A \cup B \cup C
    BY DEF Damaged
  <2>2. D \in A => \E k \in 1..Len(E) : D = RemoveAt(E, k)
    BY Zenon
  <2>3. D \in B => \E k \in 1..Len(E), d \in Changes : D = [E EXCEPT ![k] = (@ + d) % 256]
    OBVIOUS
  <2>4. D \in C => \E b \in Noise : D = <<b>> \o E
    BY Zenon
  <2> HIDE DEF A, B, C
  <2>5. D = <<>> \/ D \in A \/ D \in B \/ D \in C \/ D = Ack \o E
    BY <2>1, Zenon DEF Spoiled
  <2> QED BY <2>2, <2>3, <2>4, <2>5
<1> QED BY <1>2, <1>3, <1>4, <1>5, <1>6, <1>7, Zenon

\* A whole frame of the right command, as long as the reply, that stands anywhere in
\* a reply with one byte lost or changed or with noise or another frame before it is
\* the reply: for every payload, noise and change.
LEMMA DamageIsSeen ==
    ASSUME NEW c \in Byte, c # START, NEW p \in Payloads, NEW q \in Payloads, NEW E, NEW F,
           E = EncodeInto(Frame(c, p)), F = EncodeInto(Frame(c, q)),
           NEW D \in Spoiled(E), NEW i \in Nat, Found(F, D, i),
           Len(q) >= 1, Len(q) = Len(p) \/ Len(q) > Len(p) + 1
    PROVE  q = p
<1> DEFINE m == Len(p)
           l == Len(q)
<1>1a. PICK E1 \in Seq(Byte), hE \in Seq(Byte) :
      /\ E1 = EncodeInto(Frame(c, p))
      /\ Len(p) \in Nat /\ Len(E1) = Len(p) + 4
      /\ E1[1] = START /\ E1[2] = Len(p) /\ E1[3] = c
      /\ Len(hE) = Len(p) + 3 /\ (\A n \in 1..Len(p) + 3 : hE[n] = E1[n])
      /\ E1[Len(p) + 4] = Checksum(hE)
  BY FrameAt
<1>1. /\ E \in Seq(Byte) /\ m \in Nat /\ Len(E) = m + 4
      /\ E[1] = START /\ E[2] = m /\ E[3] = c
      /\ Len(hE) = m + 3 /\ (\A n \in 1..m + 3 : hE[n] = E[n]) /\ E[m + 4] = Checksum(hE)
  BY <1>1a
<1>2a. PICK F1 \in Seq(Byte), hF \in Seq(Byte) :
      /\ F1 = EncodeInto(Frame(c, q))
      /\ Len(q) \in Nat /\ Len(F1) = Len(q) + 4
      /\ F1[1] = START /\ F1[2] = Len(q) /\ F1[3] = c
      /\ Len(hF) = Len(q) + 3 /\ (\A n \in 1..Len(q) + 3 : hF[n] = F1[n])
      /\ F1[Len(q) + 4] = Checksum(hF)
  BY FrameAt
<1>2. /\ F \in Seq(Byte) /\ l \in Nat /\ Len(F) = l + 4
      /\ F[1] = START /\ F[2] = l /\ F[3] = c
      /\ Len(hF) = l + 3 /\ (\A n \in 1..l + 3 : hF[n] = F[n]) /\ F[l + 4] = Checksum(hF)
  BY <1>2a
<1>4. i + (l + 4) <= Len(D) /\ \A n \in 1..l + 4 : D[i + n] = F[n]
  BY <1>2 DEF Found
<1>5. l >= 1 /\ (l = m \/ l > m + 1) /\ Len(D) \in Nat
  <2>1. Len(D) \in Nat
    <3>1. E # <<>>
      BY <1>1, EmptySeq
    <3>2. D \in Seq(Byte)
      BY <1>1, <3>1, SpoiledBytes
    <3> QED BY <3>2, LenProperties
  <2> QED BY <2>1
<1>far. i + l + 4 <= Len(D) /\ Len(E) = m + 4 /\ m \in Nat /\ l \in Nat /\ i \in Nat
  BY <1>1, <1>2, <1>4, <1>5
<1> HIDE DEF m, l
<1>same. ASSUME l = m, \A n \in 1..m + 4 : F[n] = E[n] PROVE q = p
  <2>1. E = F
    BY <1>1, <1>2, <1>same, SeqEqual
  <2> QED BY <2>1, FrameIsItsBytes, Zenon
<1>6. CASE Len(D) < Len(E)
  BY <1>5, <1>6, <1>far
<1>7. CASE /\ Len(D) = Len(E)
           /\ \E k \in 1..Len(E) : D[k] # E[k] /\ \A n \in 1..Len(E) : n # k => D[n] = E[n]
  <2>1. l = m /\ i = 0
    BY <1>5, <1>7, <1>far
  <2>2. PICK k \in 1..m + 4 : D[k] # E[k] /\ \A n \in 1..m + 4 : n # k => D[n] = E[n]
    BY <1>1, <1>7
  <2>3. ASSUME NEW n \in 1..m + 4 PROVE D[n] = F[n]
    <3>1. i + n = n /\ n \in 1..l + 4
      BY <2>1
    <3> QED BY <1>4, <3>1
  <2>4. 1 \in 1..m + 4 /\ 2 \in 1..m + 4 /\ 3 \in 1..m + 4 /\ m + 4 \in 1..m + 4
    BY <1>1
  <2>5. k # 1 /\ k # 2 /\ k # 3
    BY <1>1, <1>2, <2>1, <2>2, <2>3, <2>4
  <2>6. CASE k = m + 4
    <3>1. ASSUME NEW n \in 1..m + 3 PROVE hE[n] = hF[n]
      <4>1. n \in 1..m + 4 /\ n # k
        BY <1>1, <2>6
      <4>2. hE[n] = E[n] /\ hF[n] = F[n] /\ D[n] = F[n] /\ D[n] = E[n]
        BY <1>1, <1>2, <2>1, <2>2, <2>3, <4>1
      <4> QED BY <4>2
    <3>2. hE = hF
      BY <1>1, <1>2, <2>1, <3>1, SeqEqual
    <3>3. E[k] = F[k]
      BY <1>1, <1>2, <2>1, <2>6, <3>2
    <3> QED BY <2>2, <2>3, <3>3
  <2>7. CASE k # m + 4
    <3>1. k \in 1..m + 3 /\ k \in 1..Len(hE) /\ Len(hE) = Len(hF)
      BY <1>1, <1>2, <2>1, <2>7
    <3>2. ASSUME NEW n \in 1..Len(hE) PROVE (n = k => hE[n] # hF[n]) /\ (n # k => hE[n] = hF[n])
      <4>1. n \in 1..m + 3 /\ n \in 1..m + 4
        BY <1>1
      <4>2. hE[n] = E[n] /\ hF[n] = D[n]
        BY <1>1, <1>2, <2>1, <2>3, <4>1
      <4> QED BY <2>2, <4>1, <4>2
    <3>3. Checksum(hE) # Checksum(hF)
      BY <1>1, <1>2, <3>1, <3>2, OneByteTells
    <3>4. D[m + 4] = E[m + 4] /\ D[m + 4] = F[m + 4]
      BY <2>2, <2>3, <2>4, <2>7
    <3> QED BY <1>1, <1>2, <2>1, <3>3, <3>4
  <2> QED BY <2>6, <2>7
<1>8. CASE /\ Len(D) = Len(E) + 1 /\ \A n \in 1..Len(E) : D[1 + n] = E[n]
  <2>1. l = m /\ i \in {0, 1}
    BY <1>5, <1>8, <1>far
  <2>2. i = 1
    <3> SUFFICES ASSUME i = 0 PROVE FALSE
      BY <2>1
    <3>1. D[2] = E[1] /\ D[3] = E[2]
      <4>1. 1 \in 1..Len(E) /\ 2 \in 1..Len(E) /\ 1 + 1 = 2 /\ 1 + 2 = 3
        BY <1>1
      <4> QED BY <1>8, <4>1
    <3>2. D[2] = F[2] /\ D[3] = F[3]
      <4>1. 2 \in 1..l + 4 /\ 3 \in 1..l + 4 /\ 0 + 2 = 2 /\ 0 + 3 = 3
        BY <1>2
      <4> QED BY <1>4, <4>1
    <3> QED BY <1>1, <1>2, <2>1, <3>1, <3>2
  <2>3. \A n \in 1..m + 4 : F[n] = E[n]
    BY <1>1, <1>4, <1>8, <2>1, <2>2
  <2> QED BY <1>same, <2>1, <2>3
<1>9. CASE /\ Len(D) = 4 + Len(E) /\ \A n \in 1..Len(E) : D[4 + n] = E[n]
           /\ D[1] = 254 /\ D[2] = 0 /\ D[3] = 8 /\ D[4] = 6
  <2>1. D[i + 1] = 254 /\ D[i + 2] = l
    <3>1. 1 \in 1..l + 4 /\ 2 \in 1..l + 4
      BY <1>2
    <3> QED BY <1>2, <1>4, <3>1 DEF START
  <2>2. i # 0 /\ i # 1 /\ i # 2 /\ i # 3
    BY <1>5, <1>9, <2>1
  <2>3. l = m /\ i = 4
    BY <1>5, <1>9, <1>far, <2>2
  <2>4. \A n \in 1..m + 4 : F[n] = E[n]
    <3>1. /\ \A n \in 1..m + 4 : D[4 + n] = F[n]
          /\ \A n \in 1..m + 4 : D[4 + n] = E[n]
      BY <1>1, <1>4, <1>9, <2>3
    <3> QED BY <3>1, Zenon
  <2> QED BY <1>same, <2>3, <2>4
<1>10. E # <<>>
  BY <1>1, EmptySeq
<1>11. \/ Len(D) < Len(E)
       \/ /\ Len(D) = Len(E)
          /\ \E k \in 1..Len(E) : D[k] # E[k] /\ \A n \in 1..Len(E) : n # k => D[n] = E[n]
       \/ /\ Len(D) = Len(E) + 1 /\ \A n \in 1..Len(E) : D[1 + n] = E[n]
       \/ /\ Len(D) = 4 + Len(E) /\ \A n \in 1..Len(E) : D[4 + n] = E[n]
          /\ D[1] = 254 /\ D[2] = 0 /\ D[3] = 8 /\ D[4] = 6
  BY <1>1, <1>10, SpoiledBytes
<1> QED BY <1>6, <1>7, <1>8, <1>9, <1>11, Zenon

-----------------------------------------------------------------------------
(* The serial link. *)

Schedules == Wakes \cup {ParkAt}

\* What the host sends.
Requests ==
    {Frame(BatteryStatus, <<>>), Frame(GetWake, <<>>)}
    \cup {Frame(SetWake, EncodeSchedule(t)) : t \in Schedules}

\* What the device may answer to it.
Answers(command) ==
    IF command = BatteryStatus THEN Batteries
    ELSE IF command = GetWake THEN {<<>>} \cup {EncodeSchedule(t) : t \in Schedules} ELSE {<<>>}

HostTypes ==
    /\ battery \in Batteries /\ wake \in {<<>>} \cup Schedules
    /\ job \in {"idle", "poll", "set", "readback", "park"}
    /\ job \in {"set", "readback"} => asked \in Wakes
    /\ waiting \in BOOLEAN /\ clean \in BOOLEAN
    /\ sent \in Seq(Requests)
    /\ waiting => job # "idle"

\* And the line: the reader holds the beginning of a frame, whatever came.
LineTypes ==
    /\ owed \in Seq(Frames) /\ wire \in Seq(Byte) /\ Begun(reader)
    /\ spoiled \in Nat /\ faults \in Nat /\ spoiled <= faults /\ faults <= MaxFaults

LinkTypes == HostTypes /\ LineTypes

Encoded(p) == EncodeInto(Frame(CommandOf(job), p))

\* The request, or its answer in the device.
RequestSent ==
    /\ sent = <<Frame(CommandOf(job), PayloadOf(job))>> /\ owed = <<>>
    /\ Reply(CommandOf(job)) \in truth
AnswerOwed(p) == sent = <<>> /\ owed = <<Frame(CommandOf(job), p)>>

\* Or on the line: of its bytes a proper part is in the reader, and the others are
\* the first in the port.
AnswerComes(p, k, after) ==
    /\ sent = <<>> /\ owed = <<>>
    /\ reader = SubSeq(Encoded(p), 1, k)
    /\ wire = SubSeq(Encoded(p), k + 1, Len(p) + 4) \o after

Due == truth \cap Answers(CommandOf(job))
Ahead == RequestSent \/ \E p \in Due : AnswerOwed(p)

OnItsWay ==
    \/ Ahead /\ wire = <<>> /\ reader = <<>>
    \/ \E p \in Due : \E k \in 0..Len(p) + 3 : AnswerComes(p, k, <<>>)

\* The reader and the port hold what D has after its i-th byte.
Along(D, i) ==
    /\ D \in Seq(Byte) /\ i \in Nat /\ i + Len(reader) + Len(wire) = Len(D)
    /\ \A n \in 1..Len(reader) : reader[n] = D[i + n]
    /\ \A n \in 1..Len(wire) : wire[n] = D[i + Len(reader) + n]

\* After one fault: an acknowledgement nobody asked for goes before the answer,
\* or the answer is damaged or lost, or the acknowledgement comes after it.
AfterOne ==
    \/ Ahead /\ \E i \in Nat : Along(Ack, i)
    \/ /\ sent = <<>> /\ owed = <<>>
       /\ \E p \in Due : \E D \in Spoiled(Encoded(p)) : \E i \in Nat : Along(D, i)
    \/ \E p \in Due : \E k \in 0..Len(p) + 3 : AnswerComes(p, k, Ack)

\* What was asked is asked once.
OneAsked == sent = <<>> \/ sent = <<Frame(CommandOf(job), PayloadOf(job))>>

\* The wake is not set while it is read.
HeldStill == job = "readback" => truth = {Reply(GetWake)}

LinkInv ==
    /\ LinkTypes
    /\ waiting /\ clean => /\ OneAsked /\ HeldStill
                           /\ spoiled = 0 => OnItsWay
                           /\ spoiled = 1 => AfterOne

-----------------------------------------------------------------------------
(* Schedules. *)
LEMMA ScheduleIsStorable == \A t \in Schedules : Storable(t, 5)
BY LinkAssumption, Zenon DEF Schedules

\* A schedule survives the encoding.
LEMMA ScheduleIsKept ==
    ASSUME NEW t \in Schedules
    PROVE  /\ EncodeSchedule(t) \in Seq(Byte) /\ Len(EncodeSchedule(t)) = 5
           /\ DecodeSchedule(EncodeSchedule(t)) = t
<1>1. 5 \in Nat /\ 5 \in 1..5
  OBVIOUS
<1>2. Storable(t, 5)
  BY ScheduleIsStorable
<1>3. /\ EncodeTime(t, 5) \in Seq(Byte) /\ Len(EncodeTime(t, 5)) = 5
      /\ DecodeTime(EncodeTime(t, 5), 5) = [i \in 1..5 |-> t[i]]
  BY <1>1, <1>2, TimeIsKept, Zenon
<1>4. t = [i \in 1..5 |-> t[i]]
  BY <1>2 DEF Storable
<1> QED BY <1>3, <1>4 DEF EncodeSchedule, DecodeSchedule

\* Every answer is a payload that fits a frame.
LEMMA AnswersFit ==
    ASSUME NEW command, NEW p \in Answers(command)
    PROVE  p \in Payloads
<1>1. CASE p = <<>>
  BY <1>1, EmptySeq DEF Byte, Payloads
<1>2. CASE p \in Batteries
  <2>1. Payload(p)
    BY <1>2, LinkAssumption, Zenon
  <2> QED BY <2>1 DEF Payload, Payloads
<1>3. CASE p \in {EncodeSchedule(t) : t \in Schedules}
  BY <1>3, ScheduleIsKept DEF Byte, Payloads
<1> QED BY <1>1, <1>2, <1>3 DEF Answers

\* What FrameBytes says of a frame, and of one that is partly in the reader.
LEMMA FrameInReader ==
    ASSUME NEW c \in Byte, NEW p \in Payloads, NEW k \in 0..Len(p) + 3
    PROVE  LET E == EncodeInto(Frame(c, p))
               buf == SubSeq(E, 1, k)
               rest == SubSeq(E, k + 1, Len(p) + 4)
           IN /\ buf \in Seq(Byte) /\ rest \in Seq(Byte) /\ Len(rest) = (Len(p) + 4) - k
              /\ rest # <<>>
              /\ Tail(rest) = SubSeq(E, k + 2, Len(p) + 4)
              /\ k < Len(p) + 3 => Push(buf, Head(rest)) = [buf |-> SubSeq(E, 1, k + 1), out |-> None]
              /\ k = Len(p) + 3 => Push(buf, Head(rest)) = [buf |-> <<>>, out |-> Frame(c, p)]
<1> DEFINE n == Len(p) + 4
<1>2. PICK head \in Seq(Byte), E \in Seq(Byte) :
              /\ E = EncodeInto(Frame(c, p))
              /\ Len(head) = Len(p) + 3 /\ Len(E) = Len(p) + 4
              /\ SubSeq(E, 1, Len(p) + 3) = head
              /\ head[1] = START /\ head[2] = Len(p) /\ head[3] = c
              /\ SubSeq(head, 4, Len(head)) = p
              /\ E[Len(E)] = Checksum(head)
  BY FrameBytes
<1> DEFINE buf == SubSeq(E, 1, k)
           rest == SubSeq(E, k + 1, n)
<1>3. n \in Nat /\ n = Len(E) /\ k + 1 \in 1..n /\ k \in 0..n /\ Len(p) \in Nat
  BY <1>2, LenProperties DEF Payloads
<1> HIDE DEF n
<1>4. /\ rest \in Seq(Byte) /\ Len(rest) = n - k
      /\ rest # <<>> /\ Head(rest) = E[k + 1] /\ Tail(rest) = SubSeq(E, k + 2, n)
  <2>1. Head(rest) = E[k + 1] /\ Tail(rest) = SubSeq(E, k + 1 + 1, n)
    BY <1>2, <1>3, HeadTailOfSubSeq
  <2>2. rest \in Seq(Byte) /\ Len(rest) = n - k
    BY <1>2, <1>3
  <2>3. rest # <<>>
    <3> HIDE DEF rest
    <3> QED BY <1>3, <2>2
  <2> QED BY <1>3, <2>1, <2>2, <2>3
<1>5. E[1] = START /\ E[2] = Len(p)
  BY <1>2, <1>3
<1>6. /\ buf \in Seq(Byte) /\ Len(buf) = k
      /\ \A i \in 1..k : buf[i] = E[i]
  BY <1>2, <1>3
<1>7. Append(buf, E[k + 1]) = SubSeq(E, 1, k + 1)
  BY <1>2, <1>3
<1>8. k = 0 => buf = <<>>
  BY <1>6
<1> HIDE DEF buf, rest
<1>9. ASSUME k < Len(p) + 3
      PROVE  Push(buf, Head(rest)) = [buf |-> SubSeq(E, 1, k + 1), out |-> None]
  <2>1. Len(buf) < 3 \/ Len(buf) < buf[2] + 3
    BY <1>3, <1>5, <1>6, <1>9
  <2>2. ~(buf = <<>> /\ E[k + 1] # START)
    BY <1>3, <1>5, <1>6
  <2>3. Push(buf, E[k + 1]) = [buf |-> Append(buf, E[k + 1]), out |-> None]
    BY <2>1, <2>2 DEF Push
  <2> QED BY <1>4, <1>7, <2>3
<1>10. ASSUME k = Len(p) + 3
      PROVE  Push(buf, Head(rest)) = [buf |-> <<>>, out |-> Frame(c, p)]
  <2>1. buf = head
    BY <1>2, <1>10 DEF buf
  <2>2. ~(Len(buf) < 3 \/ Len(buf) < buf[2] + 3)
    BY <1>2, <1>3, <2>1
  <2>3. E[k + 1] = Checksum(buf)
    BY <1>2, <1>3, <1>10, <2>1
  <2>4. Push(buf, E[k + 1]) = [buf |-> <<>>, out |-> Frame(c, p)]
    BY <1>2, <2>1, <2>2, <2>3 DEF Push
  <2> QED BY <1>4, <2>4
<1> QED BY <1>2, <1>4, <1>6, <1>9, <1>10, Zenon DEF n, buf, rest

LEMMA ConcatFront ==
    ASSUME NEW s \in Seq(Byte), s # <<>>, NEW t \in Seq(Byte)
    PROVE  s \o t # <<>> /\ Head(s \o t) = Head(s) /\ Tail(s \o t) = Tail(s) \o t
<1>1. /\ s \o t \in Seq(Byte) /\ Len(s \o t) = Len(s) + Len(t)
      /\ \A i \in 1..Len(s) + Len(t) : (s \o t)[i] = IF i <= Len(s) THEN s[i] ELSE t[i - Len(s)]
  BY ConcatProperties
<1>2. Len(s) \in Nat /\ Len(t) \in Nat /\ Len(s) > 0
  BY EmptySeq, LenProperties
<1>3. /\ Tail(s) \in Seq(Byte) /\ Len(Tail(s)) = Len(s) - 1
      /\ \A i \in 1..Len(Tail(s)) : Tail(s)[i] = s[i + 1]
  BY HeadTailProperties
<1>4. s \o t # <<>>
  BY <1>1, <1>2
<1>5. /\ Tail(s \o t) \in Seq(Byte) /\ Len(Tail(s \o t)) = Len(s \o t) - 1
      /\ \A i \in 1..Len(Tail(s \o t)) : Tail(s \o t)[i] = (s \o t)[i + 1]
  BY <1>1, <1>4, HeadTailProperties
<1>6. /\ Tail(s) \o t \in Seq(Byte) /\ Len(Tail(s) \o t) = Len(Tail(s)) + Len(t)
      /\ \A i \in 1..Len(Tail(s)) + Len(t) :
            (Tail(s) \o t)[i] = IF i <= Len(Tail(s)) THEN Tail(s)[i] ELSE t[i - Len(Tail(s))]
  BY <1>3, ConcatProperties
<1>7. Len(Tail(s \o t)) = Len(Tail(s) \o t)
  BY <1>1, <1>2, <1>3, <1>5, <1>6
<1>8. ASSUME NEW i \in 1..Len(Tail(s \o t)) PROVE Tail(s \o t)[i] = (Tail(s) \o t)[i]
  <2>1. i + 1 \in 1..Len(s) + Len(t) /\ i \in 1..Len(Tail(s)) + Len(t)
    BY <1>1, <1>2, <1>3, <1>5
  <2>2. CASE i <= Len(Tail(s))
    BY <1>1, <1>2, <1>3, <1>5, <1>6, <2>1, <2>2
  <2>3. CASE i > Len(Tail(s))
    <3>1. ~(i <= Len(Tail(s))) /\ ~(i + 1 <= Len(s)) /\ (i + 1) - Len(s) = i - Len(Tail(s))
      BY <1>2, <1>3, <2>3
    <3> QED BY <1>1, <1>5, <1>6, <2>1, <3>1
  <2> QED BY <1>2, <1>3, <2>2, <2>3
<1>9. Head(s \o t) = Head(s)
  BY <1>1, <1>2, <1>4
<1> QED BY <1>4, <1>5, <1>6, <1>7, <1>8, <1>9, SeqEqual

-----------------------------------------------------------------------------
(* The steps. *)

LEMMA Commands ==
    /\ CommandOf("poll") = BatteryStatus /\ CommandOf("readback") = GetWake
    /\ CommandOf("set") = SetWake /\ CommandOf("park") = SetWake
    /\ BatteryStatus = 0 /\ SetWake = 6 /\ GetWake = 7
BY DEF CommandOf, BatteryStatus, GetWake, SetWake

LEMMA RequestIsOne ==
    ASSUME HostTypes, job # "idle"
    PROVE  Frame(CommandOf(job), PayloadOf(job)) \in Requests
<1>1. CASE job = "poll"
  BY <1>1, Commands DEF Requests, PayloadOf
<1>2. CASE job = "readback"
  BY <1>2, Commands DEF Requests, PayloadOf
<1>3. CASE job = "set"
  <2>1. asked \in Schedules
    BY <1>3 DEF HostTypes, Schedules
  <2> QED BY <1>3, <2>1, Commands DEF Requests, PayloadOf
<1>4. CASE job = "park"
  BY <1>4, Commands DEF Requests, PayloadOf, Schedules
<1> QED BY <1>1, <1>2, <1>3, <1>4 DEF HostTypes

\* The device can answer every request of the host.
LEMMA ReplyIsOne ==
    ASSUME HostTypes, NEW c \in {0, 6, 7}
    PROVE  Reply(c) \in Answers(c) /\ Frame(c, Reply(c)) \in Frames
<1>1. Reply(c) \in Answers(c)
  BY Commands DEF Reply, Answers, HostTypes
<1>2. Reply(c) \in Payloads /\ c \in Byte
  BY <1>1, AnswersFit DEF Byte
<1> QED BY <1>1, <1>2 DEF Frame, Frames

LEMMA RequestNames ==
    ASSUME NEW r \in Requests
    PROVE  r.cmd \in {0, 6, 7}
BY Commands DEF Requests, Frame

\* A schedule that arrives is one the host sent.
LEMMA ScheduleArrives ==
    ASSUME NEW r \in Requests, r.cmd = SetWake
    PROVE  DecodeSchedule(r.payload) \in Schedules
<1>1. r # Frame(BatteryStatus, <<>>) /\ r # Frame(GetWake, <<>>)
  BY Commands DEF Frame
<1>2. PICK t \in Schedules : r = Frame(SetWake, EncodeSchedule(t))
  BY <1>1 DEF Requests
<1>3. r.payload = EncodeSchedule(t)
  BY <1>2 DEF Frame
<1> QED BY <1>3, ScheduleIsKept

LEMMA ConcludeTypes ==
    ASSUME HostTypes, NEW p, Conclude(p), UNCHANGED asked
    PROVE  /\ waiting' = FALSE
           /\ job' \in {"idle", "poll", "set", "readback", "park"}
           /\ job' \in {"set", "readback"} => asked' \in Wakes
BY DEF HostTypes, Conclude

LEMMA HostTypesStep == HostTypes /\ [LinkNext]_linkVars => HostTypes'
<1> SUFFICES ASSUME HostTypes, [LinkNext]_linkVars PROVE HostTypes'
  OBVIOUS
<1>1. CASE Respond
  <2>1. Head(sent) \in Requests /\ Tail(sent) \in Seq(Requests)
    BY <1>1, HeadTailProperties DEF HostTypes, Respond
  <2>2. wake' \in {<<>>} \cup Schedules
    BY <1>1, <2>1, ScheduleArrives DEF HostTypes, Respond
  <2> QED BY <1>1, <2>1, <2>2 DEF HostTypes, Respond, hostVars, historyVars
<1>2. CASE RequestLost
  BY <1>2, HeadTailProperties DEF HostTypes, RequestLost, Fault, hostVars
<1>3. CASE SendReply
  BY <1>3 DEF HostTypes, SendReply, Fault, hostVars
<1>4. CASE Unsolicited
  BY <1>4 DEF HostTypes, Unsolicited, Fault, hostVars
<1>5. CASE BatteryMoves
  BY <1>5 DEF HostTypes, BatteryMoves, hostVars
<1>6. CASE Begin
  BY <1>6 DEF HostTypes, Begin, historyVars
<1>7. CASE Request
  <2>1. sent' \in Seq(Requests)
    BY <1>7, RequestIsOne DEF HostTypes, Request
  <2>2. clean' \in BOOLEAN
    BY <1>7, Zenon DEF Request
  <2> QED BY <1>7, <2>1, <2>2 DEF HostTypes, Request
<1>8. CASE Read
  <2>1. CASE \E p : Conclude(p) /\ UNCHANGED asked
    BY <1>8, <2>1, ConcludeTypes DEF HostTypes, Read, historyVars
  <2>2. CASE UNCHANGED hostVars
    BY <1>8, <2>2 DEF HostTypes, Read, historyVars, hostVars
  <2> QED BY <1>8, <2>1, <2>2, Zenon DEF Read
<1>9. CASE TimeOut
  BY <1>9, ConcludeTypes DEF HostTypes, TimeOut, Fault
<1>10. CASE UNCHANGED linkVars
  BY <1>10 DEF HostTypes, linkVars, hostVars, historyVars
<1> QED
  BY <1>1, <1>2, <1>3, <1>4, <1>5, <1>6, <1>7, <1>8, <1>9, <1>10 DEF LinkNext, Device, Host

LEMMA FrameEncodes ==
    ASSUME NEW f \in Frames
    PROVE  /\ f.cmd \in Byte /\ f.payload \in Payloads /\ f = Frame(f.cmd, f.payload)
           /\ EncodeInto(f) \in Seq(Byte) /\ EncodeInto(f) # <<>>
<1>1. f.cmd \in Byte /\ f.payload \in Payloads /\ f = Frame(f.cmd, f.payload)
  BY DEF Frames, Frame
<1>2. PICK E \in Seq(Byte) :
         E = EncodeInto(Frame(f.cmd, f.payload)) /\ Len(f.payload) \in Nat /\ Len(E) = Len(f.payload) + 4
  BY <1>1, FrameAt
<1>3. E # <<>>
  BY <1>2, EmptySeq
<1> QED BY <1>1, <1>2, <1>3

LEMMA LineTypesStep == LinkTypes /\ [LinkNext]_linkVars => LineTypes'
<1> SUFFICES ASSUME LinkTypes, [LinkNext]_linkVars PROVE LineTypes'
  OBVIOUS
<1> USE DEF LinkTypes
<1>0. /\ owed \in Seq(Frames) /\ wire \in Seq(Byte) /\ Begun(reader)
      /\ spoiled \in Nat /\ faults \in Nat /\ spoiled <= faults /\ faults <= MaxFaults
      /\ MaxFaults \in Nat
  BY LinkAssumption, Zenon DEF LineTypes
<1>a. ASSUME Fault
      PROVE  spoiled' \in Nat /\ faults' \in Nat /\ spoiled' <= faults' /\ faults' <= MaxFaults
  BY <1>0, <1>a DEF Fault
<1>1. CASE Respond
  <2>1. Head(sent) \in Requests
    BY <1>1, HeadTailProperties DEF HostTypes, Respond
  <2>2. Frame(Head(sent).cmd, Reply(Head(sent).cmd)) \in Frames
    BY <2>1, RequestNames, ReplyIsOne
  <2>3. owed' \in Seq(Frames)
    BY <1>0, <1>1, <2>2 DEF Respond
  <2> QED BY <1>0, <1>1, <2>3 DEF LineTypes, Respond, historyVars
<1>2. CASE RequestLost
  BY <1>0, <1>2, <1>a DEF LineTypes, RequestLost
<1>3. CASE SendReply
  <2>1. Head(owed) \in Frames /\ owed' \in Seq(Frames)
    BY <1>0, <1>3, HeadTailProperties DEF SendReply
  <2>2. PICK E \in Seq(Byte) : E = EncodeInto(Head(owed)) /\ E # <<>>
    BY <2>1, FrameEncodes
  <2>3. Damaged(E) \subseteq Seq(Byte)
    BY <2>2, SpoiledBytes DEF Spoiled
  <2>4. wire' \in Seq(Byte)
    <3>1. \E b \in Seq(Byte) : wire' = wire \o b
      BY <1>3, <2>2, <2>3 DEF SendReply
    <3> QED BY <1>0, <3>1, ConcatProperties
  <2>5. reader' = reader /\ (Fault \/ UNCHANGED <<faults, spoiled>>)
    BY <1>3 DEF SendReply
  <2> QED BY <1>0, <1>a, <2>1, <2>4, <2>5 DEF LineTypes
<1>4. CASE Unsolicited
  <2>1. wire' \in Seq(Byte)
    BY <1>0, <1>4, AckBytes, ConcatProperties DEF Unsolicited, Ack
  <2> QED BY <1>0, <1>4, <1>a, <2>1 DEF LineTypes, Unsolicited
<1>5. CASE BatteryMoves
  BY <1>0, <1>5 DEF LineTypes, BatteryMoves
<1>6. CASE Begin
  BY <1>0, <1>6 DEF LineTypes, Begin, historyVars
<1>7. CASE Request
  BY <1>0, <1>7, EmptySeq DEF LineTypes, Request, Begun
<1>8. CASE Read
  <2>1. Head(wire) \in Byte /\ Tail(wire) \in Seq(Byte)
    BY <1>0, <1>8, HeadTailProperties DEF Read
  <2>2. Begun(reader')
    BY <1>0, <1>8, <2>1, ReaderTakesFrames DEF Read
  <2>3. wire' \in Seq(Byte)
    <3>1. CASE wire' = Tail(wire)
      BY <2>1, <3>1
    <3>2. CASE \E n \in 1..Len(wire) : wire' = SubSeq(wire, n + 1, Len(wire))
      <4>1. PICK n \in 1..Len(wire) : wire' = SubSeq(wire, n + 1, Len(wire))
        BY <3>2
      <4> QED BY <1>0, <4>1
    <3> QED BY <1>8, <3>1, <3>2 DEF Read
  <2>4. UNCHANGED <<owed, faults, spoiled>>
    BY <1>8 DEF Read, historyVars
  <2>5. /\ owed' \in Seq(Frames) /\ spoiled' \in Nat /\ faults' \in Nat
        /\ spoiled' <= faults' /\ faults' <= MaxFaults
    BY <1>0, <2>4
  <2> QED BY <2>2, <2>3, <2>5, Zenon DEF LineTypes, Begun
<1>9. CASE TimeOut
  <2>1. UNCHANGED <<owed, wire, reader>> /\ (Fault \/ UNCHANGED <<faults, spoiled>>)
    BY <1>9 DEF TimeOut
  <2> QED BY <1>0, <1>a, <2>1 DEF LineTypes
<1>10. CASE UNCHANGED linkVars
  BY <1>0, <1>10 DEF LineTypes, linkVars, hostVars, historyVars
<1> QED
  BY <1>1, <1>2, <1>3, <1>4, <1>5, <1>6, <1>7, <1>8, <1>9, <1>10 DEF LinkNext, Device, Host

LEMMA LinkTypesStep == LinkTypes /\ [LinkNext]_linkVars => LinkTypes'
BY HostTypesStep, LineTypesStep DEF LinkTypes

LEMMA CommandIsByte == ASSUME LinkTypes PROVE CommandOf(job) \in {0, 6, 7} /\ CommandOf(job) \in Byte
BY Commands DEF LinkTypes, HostTypes, CommandOf, Byte

LEMMA DueFits ==
    ASSUME NEW p \in Due
    PROVE  p \in truth /\ p \in Answers(CommandOf(job)) /\ p \in Payloads /\ Len(p) \in Nat
<1>1. p \in truth /\ p \in Answers(CommandOf(job)) /\ p \in Payloads
  BY AnswersFit DEF Due
<1> QED BY <1>1, LenProperties DEF Payloads

\* What the host asks, the device can answer now.
LEMMA ReplyIsDue ==
    ASSUME LinkTypes, RequestSent
    PROVE  Reply(CommandOf(job)) \in Due
BY CommandIsByte, ReplyIsOne DEF LinkTypes, RequestSent, Due

-----------------------------------------------------------------------------
(* Where the answer is. *)

LEMMA AlongReads ==
    ASSUME LinkTypes, NEW D, NEW i, Along(D, i), wire # <<>>,
           reader' = Push(reader, Head(wire)).buf, wire' = Tail(wire)
    PROVE  \E j \in Nat : Along(D, j)'
<1>1. /\ reader \in Seq(Byte) /\ wire \in Seq(Byte) /\ Begun(reader)
      /\ D \in Seq(Byte) /\ i \in Nat /\ i + Len(reader) + Len(wire) = Len(D)
      /\ \A n \in 1..Len(reader) : reader[n] = D[i + n]
      /\ \A n \in 1..Len(wire) : wire[n] = D[i + Len(reader) + n]
  BY DEF LinkTypes, LineTypes, Begun, Along
<1>2. /\ Head(wire) = wire[1] /\ Head(wire) \in Byte
      /\ wire' \in Seq(Byte) /\ Len(wire') = Len(wire) - 1
      /\ \A n \in 1..Len(wire') : wire'[n] = wire[n + 1]
  BY <1>1, HeadTailProperties
<1>3. reader' \in {<<>>, Append(reader, Head(wire))}
  BY <1>1, <1>2, ReaderTakesFrames
<1>4. PICK r \in Nat, w \in Nat : r = Len(reader) /\ w = Len(wire)
  BY <1>1, LenProperties
<1>5. w >= 1
  <2>1. Len(wire) \in Nat /\ Len(wire) # 0
    BY <1>1, EmptySeq, LenProperties
  <2> QED BY <1>4, <2>1
<1>6. Len(wire') = w - 1 /\ Len(D) = i + r + w
  BY <1>1, <1>2, <1>4
<1>7. (\A n \in 1..r : reader[n] = D[i + n]) /\ \A n \in 1..w : wire[n] = D[i + r + n]
  BY <1>1, <1>4
<1>8. ASSUME NEW n \in 1..w - 1 PROVE wire'[n] = D[i + r + (n + 1)]
  <2>1. n + 1 \in 1..w
    BY <1>4, <1>5
  <2> QED BY <1>2, <1>6, <1>7, <2>1
<1>9. CASE reader' = <<>>
  <2>1. PICK j \in Nat : j = i + r + 1
    BY <1>1, <1>4
  <2>2. Len(reader') = 0
    BY <1>9
  <2>3. j + 0 + (w - 1) = i + r + w
    BY <1>1, <1>4, <2>1
  <2>4. ASSUME NEW n \in 1..w - 1 PROVE wire'[n] = D[j + 0 + n]
    <3>1. i + r + (n + 1) = j + 0 + n
      BY <1>1, <1>4, <2>1
    <3> QED BY <1>8, <3>1
  <2>5. \A n \in 1..Len(reader') : reader'[n] = D[j + n]
    BY <2>2
  <2> QED BY <1>1, <1>6, <2>2, <2>3, <2>4, <2>5 DEF Along
<1>10. CASE reader' = Append(reader, Head(wire))
  <2>1. /\ Len(reader') = r + 1 /\ reader'[r + 1] = Head(wire)
        /\ \A n \in 1..r : reader'[n] = reader[n]
    <3>1. PICK b \in Byte, s \in Seq(Byte) : b = Head(wire) /\ s = reader /\ r = Len(s)
      BY <1>1, <1>2, <1>4
    <3>2. /\ Len(Append(s, b)) = r + 1 /\ Append(s, b)[r + 1] = b
          /\ \A n \in 1..r : Append(s, b)[n] = s[n]
      BY <1>4, <3>1
    <3> QED BY <1>10, <3>1, <3>2, Zenon
  <2>2. i + (r + 1) + (w - 1) = i + r + w
    BY <1>1, <1>4
  <2>3. ASSUME NEW n \in 1..r + 1 PROVE reader'[n] = D[i + n]
    <3>1. CASE n \in 1..r
      BY <1>7, <2>1, <3>1
    <3>2. CASE n = r + 1
      <4>1. 1 \in 1..w /\ i + r + 1 = i + n
        BY <1>1, <1>4, <1>5, <3>2
      <4> QED BY <1>2, <1>7, <2>1, <3>2, <4>1
    <3> QED BY <1>4, <3>1, <3>2
  <2>4. ASSUME NEW n \in 1..w - 1 PROVE wire'[n] = D[i + (r + 1) + n]
    <3>1. i + r + (n + 1) = i + (r + 1) + n
      BY <1>1, <1>4
    <3> QED BY <1>8, <3>1
  <2>5. i + Len(reader') + Len(wire') = Len(D)
    BY <1>6, <2>1, <2>2
  <2>6. \A n \in 1..Len(reader') : reader'[n] = D[i + n]
    BY <2>1, <2>3
  <2>7. \A n \in 1..Len(wire') : wire'[n] = D[i + Len(reader') + n]
    BY <1>6, <2>1, <2>4
  <2> QED BY <1>1, <2>5, <2>6, <2>7, Zenon DEF Along
<1> QED BY <1>3, <1>9, <1>10

LEMMA AlongFinds ==
    ASSUME LinkTypes, NEW D, NEW i, Along(D, i), wire # <<>>
    PROVE  Found(Append(reader, Head(wire)), D, i)
<1>1. /\ reader \in Seq(Byte) /\ Len(reader) \in Nat /\ wire \in Seq(Byte)
      /\ i \in Nat /\ i + Len(reader) + Len(wire) = Len(D)
      /\ \A n \in 1..Len(reader) : reader[n] = D[i + n]
      /\ \A n \in 1..Len(wire) : wire[n] = D[i + Len(reader) + n]
  BY LenProperties DEF LinkTypes, LineTypes, Begun, Along
<1>2. Head(wire) = wire[1] /\ Head(wire) \in Byte /\ Len(wire) \in Nat /\ Len(wire) >= 1
  BY <1>1, HeadTailProperties
<1>3. PICK F : F = Append(reader, Head(wire))
  OBVIOUS
<1>4. /\ Len(F) = Len(reader) + 1 /\ F[Len(reader) + 1] = Head(wire)
      /\ \A n \in 1..Len(reader) : F[n] = reader[n]
  BY <1>1, <1>2, <1>3
<1>5. ASSUME NEW n \in 1..Len(F) PROVE D[i + n] = F[n]
  <2>1. CASE n \in 1..Len(reader)
    BY <1>1, <1>4, <2>1
  <2>2. CASE n = Len(reader) + 1
    <3>1. 1 \in 1..Len(wire) /\ i + Len(reader) + 1 = i + n
      BY <1>1, <1>2, <2>2
    <3> QED BY <1>1, <1>2, <1>4, <2>2, <3>1
  <2> QED BY <1>1, <1>4, <2>1, <2>2
<1>6. i + Len(F) <= Len(D)
  BY <1>1, <1>2, <1>4
<1> QED BY <1>3, <1>5, <1>6 DEF Found

\* No frame in an unsolicited one answers the host.
LEMMA AckIsNoAnswer ==
    ASSUME NEW f \in Frames, NEW i \in Nat, Found(EncodeInto(f), Ack, i)
    PROVE  f.cmd = Acknowledge
<1>1. PICK F \in Seq(Byte) :
         /\ F = EncodeInto(Frame(f.cmd, f.payload))
         /\ Len(f.payload) \in Nat /\ Len(F) = Len(f.payload) + 4 /\ F[3] = f.cmd
  BY FrameEncodes, FrameAt
<1>2. F = EncodeInto(f)
  BY <1>1, FrameEncodes
<1>3. i + Len(F) <= 4 /\ \A n \in 1..Len(F) : Ack[i + n] = F[n]
  BY <1>2, AckBytes DEF Found
<1>4. i = 0 /\ Len(F) = 4
  BY <1>1, <1>3
<1>5. 3 \in 1..Len(F) /\ i + 3 = 3
  BY <1>4
<1> QED BY <1>1, <1>3, <1>5, AckBytes DEF Acknowledge

\* As long as the host is at the same request, what was due stays so.
LEMMA DueStays ==
    ASSUME job' = job, truth \subseteq truth'
    PROVE  /\ Due \subseteq Due' /\ CommandOf(job)' = CommandOf(job)
           /\ \A p : Encoded(p)' = Encoded(p)
BY DEF Due, Answers, CommandOf, Encoded

LEMMA AheadStays ==
    ASSUME Ahead, UNCHANGED <<sent, owed, wake, job, asked>>, truth \subseteq truth',
           battery' = battery \/ (job = "poll" => battery' \in truth')
    PROVE  Ahead'
<1>1. CASE RequestSent
  <2>1. (Reply(CommandOf(job)) \in truth)'
    <3>1. CASE job = "poll" /\ battery' # battery
      BY <3>1, Commands DEF Reply
    <3>2. CASE ~(job = "poll" /\ battery' # battery)
      <4>1. CommandOf(job) # BatteryStatus \/ battery' = battery
        BY <3>2, Commands DEF CommandOf
      <4>2. Reply(CommandOf(job))' = Reply(CommandOf(job))
        BY <4>1 DEF Reply, CommandOf
      <4> QED BY <1>1, <4>2 DEF RequestSent
    <3> QED BY <3>1, <3>2
  <2> QED BY <1>1, <2>1 DEF RequestSent, Ahead, CommandOf, PayloadOf
<1>2. CASE \E p \in Due : AnswerOwed(p)
  <2>1. PICK p \in Due : AnswerOwed(p)
    BY <1>2
  <2>2. p \in Due'
    BY DueStays
  <2> QED BY <2>1, <2>2 DEF AnswerOwed, Ahead, CommandOf
<1> QED BY <1>1, <1>2 DEF Ahead

LEMMA RespondKeeps ==
    ASSUME LinkTypes, RequestSent, Respond
    PROVE  Ahead'
<1>0. PICK p : p = Reply(CommandOf(job))
  OBVIOUS
<1>1. p \in Due
  BY <1>0, ReplyIsDue
<1>2. p \in Due' /\ CommandOf(job)' = CommandOf(job)
  BY <1>1, DueStays DEF Respond, historyVars, hostVars
<1>3. Head(sent).cmd = CommandOf(job) /\ Tail(sent) = <<>>
  BY DEF RequestSent, Frame
<1>4. owed' = <<Frame(CommandOf(job), p)>> /\ sent' = <<>>
  BY <1>0, <1>3 DEF Respond, RequestSent
<1>5. AnswerOwed(p)'
  BY <1>2, <1>4 DEF AnswerOwed
<1> QED BY <1>2, <1>5 DEF Ahead

\* The reply goes out, on a line that is quiet or has a part of D left.
LEMMA ReplyComes ==
    ASSUME LinkTypes, NEW p \in Due, sent' = <<>>, owed' = <<>>,
           wire = <<>>, reader = <<>>, wire' = wire \o Encoded(p), UNCHANGED <<reader, job, truth>>
    PROVE  OnItsWay'
<1>1. p \in Payloads /\ CommandOf(job) \in Byte /\ Len(p) \in Nat
  BY DueFits, CommandIsByte
<1>2. PICK E \in Seq(Byte) : E = Encoded(p) /\ Len(E) = Len(p) + 4
  BY <1>1, FrameAt DEF Encoded
<1>3. /\ wire' = SubSeq(E, 1, Len(p) + 4) \o <<>> /\ SubSeq(E, 1, 0) = <<>>
  <2>1. wire' = E /\ E \o <<>> = E /\ SubSeq(E, 1, Len(p) + 4) = E
    BY <1>2, ConcatEmptySeq, SubSeqFull
  <2>2. SubSeq(E, 1, 0) = <<>>
    BY <1>2, SubSeqEmpty
  <2> QED BY <2>1, <2>2
<1>4. p \in Due' /\ 0 \in 0..Len(p) + 3 /\ Encoded(p)' = E
  BY <1>1, <1>2, DueStays
<1>5. AnswerComes(p, 0, <<>>)'
  BY <1>2, <1>3, <1>4 DEF AnswerComes
<1> QED BY <1>4, <1>5 DEF OnItsWay

LEMMA AlongGrows ==
    ASSUME LinkTypes, NEW D, NEW i, Along(D, i), NEW E \in Seq(Byte),
           wire' = wire \o E, reader' = reader
    PROVE  Along(D \o E, i)'
<1>1. /\ reader \in Seq(Byte) /\ wire \in Seq(Byte) /\ D \in Seq(Byte) /\ i \in Nat
      /\ i + Len(reader) + Len(wire) = Len(D)
      /\ \A n \in 1..Len(reader) : reader[n] = D[i + n]
      /\ \A n \in 1..Len(wire) : wire[n] = D[i + Len(reader) + n]
  BY DEF LinkTypes, LineTypes, Begun, Along
<1>2. PICK r \in Nat, w \in Nat, e \in Nat : r = Len(reader) /\ w = Len(wire) /\ e = Len(E)
  BY <1>1, LenProperties
<1>3. PICK d \in Nat : d = Len(D) /\ d = i + r + w
  BY <1>1, <1>2, LenProperties
<1>4. /\ D \o E \in Seq(Byte) /\ Len(D \o E) = d + e
      /\ \A n \in 1..d + e : (D \o E)[n] = IF n <= d THEN D[n] ELSE E[n - d]
  <2>1. /\ D \o E \in Seq(Byte) /\ Len(D \o E) = Len(D) + Len(E)
        /\ \A n \in 1..Len(D) + Len(E) :
              (D \o E)[n] = IF n <= Len(D) THEN D[n] ELSE E[n - Len(D)]
    BY <1>1, ConcatProperties
  <2> QED BY <1>2, <1>3, <2>1
<1>5. /\ wire' \in Seq(Byte) /\ Len(wire') = w + e
      /\ \A n \in 1..w + e : wire'[n] = IF n <= w THEN wire[n] ELSE E[n - w]
  BY <1>1, <1>2, ConcatProperties
<1>6. PICK G : G = D \o E
  OBVIOUS
<1>7. ASSUME NEW n \in 1..r PROVE reader[n] = G[i + n]
  <2>1. i + n \in 1..d + e /\ i + n <= d
    BY <1>1, <1>2, <1>3
  <2> QED BY <1>1, <1>2, <1>4, <1>6, <2>1
<1>8. ASSUME NEW n \in 1..w + e PROVE wire'[n] = G[i + r + n]
  <2>1. i + r + n \in 1..d + e
    BY <1>1, <1>2, <1>3
  <2>2. CASE n <= w
    <3>1. i + r + n <= d /\ n \in 1..w
      BY <1>1, <1>2, <1>3, <2>2
    <3> QED BY <1>1, <1>2, <1>4, <1>5, <1>6, <2>1, <2>2, <3>1
  <2>3. CASE ~(n <= w)
    <3>1. ~(i + r + n <= d) /\ (i + r + n) - d = n - w
      BY <1>1, <1>2, <1>3, <2>3
    <3> QED BY <1>4, <1>5, <1>6, <2>1, <2>3, <3>1
  <2> QED BY <2>2, <2>3
<1>9. i + r + (w + e) = d + e
  BY <1>1, <1>2, <1>3
<1> QED BY <1>1, <1>2, <1>4, <1>5, <1>6, <1>7, <1>8, <1>9 DEF Along

\* All of D is there.
LEMMA AlongStarts ==
    ASSUME NEW D \in Seq(Byte), reader' = <<>>, wire' = D
    PROVE  Along(D, 0)'
<1>1. Len(reader') = 0 /\ Len(D) \in Nat
  BY LenProperties
<1> QED BY <1>1 DEF Along

-----------------------------------------------------------------------------
(* The steps of the link. *)

LEMMA ReadTakesByte ==
    ASSUME LinkTypes, Read
    PROVE  /\ waiting /\ wire # <<>> /\ reader' = Push(reader, Head(wire)).buf
           /\ UNCHANGED <<sent, owed, battery, wake, clean, truth, spoiled>>
           /\ \/ /\ wire' = Tail(wire) /\ UNCHANGED hostVars
                 /\ ~(Push(reader, Head(wire)).out # None /\ Push(reader, Head(wire)).out.cmd = CommandOf(job))
              \/ /\ Push(reader, Head(wire)).out # None /\ Push(reader, Head(wire)).out.cmd = CommandOf(job)
                 /\ Push(reader, Head(wire)).out \in Frames
                 /\ Append(reader, Head(wire)) = EncodeInto(Push(reader, Head(wire)).out)
                 /\ Conclude(Push(reader, Head(wire)).out.payload) /\ UNCHANGED asked
                 /\ \E n \in 1..Len(wire) : wire' = SubSeq(wire, n + 1, Len(wire))
<1> DEFINE pushed == Push(reader, Head(wire))
<1>1. /\ waiting /\ wire # <<>> /\ reader' = pushed.buf
      /\ UNCHANGED <<sent, owed, battery, wake, clean, truth, spoiled>>
      /\ \/ /\ pushed.out # None /\ pushed.out.cmd = CommandOf(job)
            /\ Conclude(pushed.out.payload) /\ UNCHANGED asked
            /\ \E n \in 1..Len(wire) : wire' = SubSeq(wire, n + 1, Len(wire))
         \/ /\ ~(pushed.out # None /\ pushed.out.cmd = CommandOf(job))
            /\ wire' = Tail(wire) /\ UNCHANGED hostVars
  BY Zenon DEF Read, historyVars
<1>2. Begun(reader) /\ Head(wire) \in Byte
  BY <1>1, HeadTailProperties DEF LinkTypes, LineTypes
<1>3. pushed.out # None => pushed.out \in Frames /\ Append(reader, Head(wire)) = EncodeInto(pushed.out)
  BY <1>2, ReaderTakesFrames, Zenon
<1> HIDE DEF pushed
<1> QED BY <1>1, <1>3, Zenon DEF pushed

\* Whatever is on the line: what is taken for the answer is a frame that stands there.
LEMMA ReadAlong ==
    ASSUME LinkTypes, Read, NEW D, NEW i, Along(D, i)
    PROVE  \/ UNCHANGED hostVars /\ \E j \in Nat : Along(D, j)'
           \/ \E f \in Frames :
                 /\ f.cmd = CommandOf(job) /\ Found(EncodeInto(f), D, i)
                 /\ Conclude(f.payload) /\ UNCHANGED asked
<1> DEFINE pushed == Push(reader, Head(wire))
<1>1. /\ wire # <<>> /\ reader' = pushed.buf
      /\ \/ wire' = Tail(wire) /\ UNCHANGED hostVars
         \/ /\ pushed.out.cmd = CommandOf(job)
            /\ pushed.out \in Frames /\ Append(reader, Head(wire)) = EncodeInto(pushed.out)
            /\ Conclude(pushed.out.payload) /\ UNCHANGED asked
  BY ReadTakesByte, Zenon
<1>2. CASE wire' = Tail(wire) /\ UNCHANGED hostVars
  BY <1>1, <1>2, AlongReads
<1>3. Found(Append(reader, Head(wire)), D, i)
  BY <1>1, AlongFinds
<1> HIDE DEF pushed
<1> QED BY <1>1, <1>2, <1>3, Zenon

\* Nothing before its last byte ends the wait for an answer that is all there.
LEMMA ReadAnswer ==
    ASSUME LinkTypes, Read, NEW p \in Due, NEW k \in 0..Len(p) + 3,
           NEW after \in Seq(Byte), AnswerComes(p, k, after)
    PROVE  \/ /\ UNCHANGED hostVars
              /\ \E k2 \in 0..Len(p) + 3 : AnswerComes(p, k2, after)'
           \/ /\ Conclude(p) /\ UNCHANGED asked
              /\ sent' = <<>> /\ owed' = <<>> /\ (after = <<>> => wire' = <<>>)
<1> DEFINE c == CommandOf(job)
           E == EncodeInto(Frame(c, p))
           rest == SubSeq(E, k + 1, Len(p) + 4)
           pushed == Push(reader, Head(wire))
<1>1. p \in Payloads /\ c \in Byte /\ Len(p) \in Nat
  BY DueFits, CommandIsByte
<1>2. /\ reader = SubSeq(E, 1, k) /\ wire = rest \o after /\ sent = <<>> /\ owed = <<>>
  BY DEF AnswerComes, Encoded
<1>3. /\ rest \in Seq(Byte) /\ rest # <<>> /\ Len(rest) = (Len(p) + 4) - k
      /\ Tail(rest) = SubSeq(E, k + 2, Len(p) + 4)
      /\ k < Len(p) + 3 => Push(SubSeq(E, 1, k), Head(rest)) = [buf |-> SubSeq(E, 1, k + 1), out |-> None]
      /\ k = Len(p) + 3 => Push(SubSeq(E, 1, k), Head(rest)) = [buf |-> <<>>, out |-> Frame(c, p)]
  BY <1>1, FrameInReader, Zenon
<1> HIDE DEF rest
<1>4. Head(wire) = Head(rest) /\ Tail(wire) = Tail(rest) \o after
  BY <1>2, <1>3, ConcatFront
<1> HIDE DEF E
<1>5. /\ k < Len(p) + 3 => pushed = [buf |-> SubSeq(E, 1, k + 1), out |-> None]
      /\ k = Len(p) + 3 => pushed = [buf |-> <<>>, out |-> Frame(c, p)]
  BY <1>2, <1>3, <1>4, Zenon
<1>6. /\ reader' = pushed.buf /\ UNCHANGED <<sent, owed, truth>>
      /\ \/ /\ wire' = Tail(wire) /\ UNCHANGED hostVars
            /\ ~(pushed.out # None /\ pushed.out.cmd = c)
         \/ /\ pushed.out # None /\ Conclude(pushed.out.payload) /\ UNCHANGED asked
            /\ \E n \in 1..Len(wire) : wire' = SubSeq(wire, n + 1, Len(wire))
  BY ReadTakesByte, Zenon
<1> HIDE DEF pushed
<1>7. CASE k < Len(p) + 3
  <2>1. pushed.buf = SubSeq(E, 1, k + 1) /\ pushed.out = None
    BY <1>5, <1>7
  <2>2. reader' = SubSeq(E, 1, k + 1) /\ wire' = Tail(wire) /\ UNCHANGED hostVars
    BY <1>6, <2>1
  <2>3. k + 1 \in 0..Len(p) + 3 /\ (k + 1) + 1 = k + 2
    BY <1>1, <1>7
  <2>4. Encoded(p)' = E
    <3>1. job' = job /\ truth \subseteq truth'
      BY <1>6, <2>2 DEF hostVars
    <3> QED BY <3>1, DueStays DEF Encoded, E
  <2>5. AnswerComes(p, k + 1, after)'
    BY <1>2, <1>3, <1>4, <1>6, <2>2, <2>3, <2>4 DEF AnswerComes
  <2> QED BY <2>2, <2>3, <2>5
<1>8. CASE k = Len(p) + 3
  <2>1. pushed.out = Frame(c, p)
    BY <1>5, <1>8
  <2>2. Frame(c, p) \in [cmd : Byte, payload : Seq(Byte)]
    BY <1>1 DEF Frame, Payloads
  <2>3. Frame(c, p) # None /\ Frame(c, p).cmd = c /\ Frame(c, p).payload = p
    BY <2>2, LinkAssumption, Zenon DEF Frame
  <2>4. /\ Conclude(p) /\ UNCHANGED asked /\ sent' = <<>> /\ owed' = <<>>
        /\ \E n \in 1..Len(wire) : wire' = SubSeq(wire, n + 1, Len(wire))
    <3> HIDE DEF c
    <3> QED BY <1>2, <1>6, <2>1, <2>3
  <2>5. ASSUME after = <<>> PROVE wire' = <<>>
    <3>1. Len(rest) = 1
      BY <1>1, <1>3, <1>8
    <3>2. wire = rest
      BY <1>2, <1>3, <2>5, ConcatEmptySeq
    <3>3. PICK n \in 1..Len(wire) : wire' = SubSeq(wire, n + 1, Len(wire))
      BY <2>4
    <3>4. wire' = SubSeq(wire, 2, 1)
      BY <3>1, <3>2, <3>3
    <3> QED BY <1>3, <3>2, <3>4, SubSeqEmpty
  <2> QED BY <2>4, <2>5
<1> QED BY <1>1, <1>7, <1>8

LEMMA ReadIsAnswer ==
    ASSUME LinkTypes, OnItsWay, Read
    PROVE  \/ OnItsWay' /\ UNCHANGED hostVars
           \/ /\ \E p \in Due : Conclude(p)
              /\ UNCHANGED asked /\ sent' = <<>> /\ owed' = <<>> /\ wire' = <<>>
<1>1. PICK p \in Due : \E k \in 0..Len(p) + 3 : AnswerComes(p, k, <<>>)
  BY ReadTakesByte DEF OnItsWay
<1>2. PICK k \in 0..Len(p) + 3 : AnswerComes(p, k, <<>>)
  BY <1>1
<1>3. \/ /\ UNCHANGED hostVars
         /\ \E k2 \in 0..Len(p) + 3 : AnswerComes(p, k2, <<>>)'
      \/ /\ Conclude(p) /\ UNCHANGED asked
         /\ sent' = <<>> /\ owed' = <<>> /\ wire' = <<>>
  BY <1>2, EmptySeq, ReadAnswer
<1>4. CASE /\ UNCHANGED hostVars
           /\ \E k2 \in 0..Len(p) + 3 : AnswerComes(p, k2, <<>>)'
  <2>1. job' = job /\ truth \subseteq truth'
    BY <1>4, ReadTakesByte DEF hostVars
  <2>2. p \in Due'
    BY <2>1, DueStays
  <2> QED BY <1>4, <2>2 DEF OnItsWay
<1> QED BY <1>3, <1>4

\* After one fault, what is taken for the answer tells nothing else.
Told(q, p) == (Len(q) >= 1 /\ (Len(q) = Len(p) \/ Len(q) > Len(p) + 1)) => q = p

LEMMA ReadAfterOne ==
    ASSUME LinkTypes, AfterOne, Read
    PROVE  \/ AfterOne' /\ UNCHANGED hostVars
           \/ \E p \in Due : \E q \in Payloads : Told(q, p) /\ Conclude(q) /\ UNCHANGED asked
<1>0. UNCHANGED <<sent, owed, battery, wake, truth>>
  BY ReadTakesByte
<1>a. ASSUME UNCHANGED hostVars
      PROVE  Due \subseteq Due' /\ (\A p : Encoded(p)' = Encoded(p)) /\ UNCHANGED <<job, asked>>
  <2>1. job' = job /\ asked' = asked /\ truth \subseteq truth'
    BY <1>0, <1>a DEF hostVars
  <2> QED BY <2>1, DueStays
<1>1. CASE Ahead /\ \E i \in Nat : Along(Ack, i)
  <2>1. PICK i \in Nat : Along(Ack, i)
    BY <1>1
  <2>2. \/ UNCHANGED hostVars /\ \E j \in Nat : Along(Ack, j)'
        \/ \E f \in Frames : f.cmd = CommandOf(job) /\ Found(EncodeInto(f), Ack, i)
    BY <2>1, ReadAlong
  <2>3. ~ \E f \in Frames : f.cmd = CommandOf(job) /\ Found(EncodeInto(f), Ack, i)
    BY <2>1, AckIsNoAnswer, CommandIsByte DEF Acknowledge
  <2>4. UNCHANGED hostVars /\ \E j \in Nat : Along(Ack, j)'
    BY <2>2, <2>3
  <2>5. Ahead'
    BY <1>0, <1>1, <1>a, <2>4, AheadStays
  <2> QED BY <2>4, <2>5 DEF AfterOne
<1>2. CASE /\ sent = <<>> /\ owed = <<>>
           /\ \E p \in Due : \E D \in Spoiled(Encoded(p)) : \E i \in Nat : Along(D, i)
  <2>1. PICK p \in Due : \E D \in Spoiled(Encoded(p)) : \E i \in Nat : Along(D, i)
    BY <1>2
  <2>2. PICK D \in Spoiled(Encoded(p)) : \E i \in Nat : Along(D, i)
    BY <2>1
  <2>3. PICK i \in Nat : Along(D, i)
    BY <2>2
  <2>4. CASE UNCHANGED hostVars /\ \E j \in Nat : Along(D, j)'
    <3>1. p \in Due' /\ D \in Spoiled(Encoded(p)') /\ sent' = <<>> /\ owed' = <<>>
      BY <1>0, <1>2, <1>a, <2>4
    <3>2. \E j \in Nat : Along(D, j)'
      BY <2>4
    <3>3. D \in Spoiled(Encoded(p))'
      BY <3>1, Zenon
    <3> QED BY <2>4, <3>1, <3>2, <3>3, Zenon DEF AfterOne
  <2>5. CASE \E f \in Frames : /\ f.cmd = CommandOf(job) /\ Found(EncodeInto(f), D, i)
                               /\ Conclude(f.payload) /\ UNCHANGED asked
    <3>1. PICK f \in Frames : /\ f.cmd = CommandOf(job) /\ Found(EncodeInto(f), D, i)
                              /\ Conclude(f.payload) /\ UNCHANGED asked
      BY <2>5
    <3>2. f.payload \in Payloads /\ f = Frame(CommandOf(job), f.payload)
      BY <3>1, FrameEncodes
    <3>a. PICK c \in Byte, q \in Payloads : c = CommandOf(job) /\ q = f.payload
      BY <3>2, CommandIsByte
    <3>3. PICK E, F : /\ c = CommandOf(job) /\ q = f.payload
                      /\ E = EncodeInto(Frame(c, p)) /\ F = EncodeInto(Frame(c, q))
      BY <3>a
    <3>4. c # START /\ p \in Payloads
      BY <3>3, CommandIsByte, DueFits DEF START
    <3>5. D \in Spoiled(E) /\ Found(F, D, i)
      BY <2>2, <3>1, <3>2, <3>3 DEF Encoded
    <3>6. (Len(q) >= 1 /\ (Len(q) = Len(p) \/ Len(q) > Len(p) + 1)) => q = p
      BY <3>3, <3>4, <3>5, DamageIsSeen, Zenon
    <3> QED BY <3>1, <3>3, <3>6 DEF Told
  <2> QED BY <2>3, <2>4, <2>5, ReadAlong
<1>3. CASE \E p \in Due : \E k \in 0..Len(p) + 3 : AnswerComes(p, k, Ack)
  <2>1. PICK p \in Due : \E k \in 0..Len(p) + 3 : AnswerComes(p, k, Ack)
    BY <1>3
  <2>2. PICK k \in 0..Len(p) + 3 : AnswerComes(p, k, Ack)
    BY <2>1
  <2>3. \/ UNCHANGED hostVars /\ \E k2 \in 0..Len(p) + 3 : AnswerComes(p, k2, Ack)'
        \/ Conclude(p) /\ UNCHANGED asked
    BY <2>2, AckBytes, ReadAnswer
  <2>4. CASE UNCHANGED hostVars /\ \E k2 \in 0..Len(p) + 3 : AnswerComes(p, k2, Ack)'
    <3>1. PICK k2 \in 0..Len(p) + 3 : AnswerComes(p, k2, Ack)'
      BY <2>4
    <3>2. p \in Due'
      BY <1>a, <2>4
    <3>3. Ack' = Ack
      BY DEF Ack
    <3> QED BY <2>4, <3>1, <3>2 DEF AfterOne
  <2>5. CASE Conclude(p) /\ UNCHANGED asked
    <3>1. p \in Payloads /\ Told(p, p)
      BY DueFits DEF Told
    <3> QED BY <2>5, <3>1
  <2> QED BY <2>3, <2>4, <2>5
<1> QED BY <1>1, <1>2, <1>3 DEF AfterOne

\* The next fault is the first one or a later one.
LEMMA FaultCounts ==
    ASSUME LinkTypes, Fault
    PROVE  spoiled' # 0 /\ (spoiled' = 1 => spoiled = 0)
BY DEF LinkTypes, LineTypes, Fault

LEMMA RequestLostKeeps ==
    ASSUME LinkTypes, OnItsWay, RequestLost
    PROVE  AfterOne'
<1>1. RequestSent /\ wire = <<>> /\ reader = <<>>
  BY DEF RequestLost, OnItsWay, Ahead, AnswerOwed, AnswerComes
<1>2. PICK p \in Due : p = Reply(CommandOf(job))
  BY <1>1, ReplyIsDue
<1>3. sent' = <<>> /\ owed' = <<>> /\ UNCHANGED <<reader, wire, job, truth>>
  BY <1>1 DEF RequestLost, RequestSent, hostVars
<1>4. p \in Due'
  BY <1>3, DueStays
<1>5. <<>> \in Spoiled(Encoded(p)')
  BY DEF Spoiled, Damaged
<1>6. Along(<<>>, 0)' /\ 0 \in Nat
  BY <1>1, <1>3, EmptySeq, AlongStarts
<1> QED BY <1>3, <1>4, <1>5, <1>6, Zenon DEF AfterOne

LEMMA SendReplyKeeps ==
    ASSUME LinkTypes, SendReply
    PROVE  /\ OnItsWay /\ spoiled' = spoiled => OnItsWay'
           /\ AfterOne /\ spoiled' = spoiled => AfterOne'
           /\ OnItsWay /\ spoiled' # spoiled => AfterOne'
<1>1. owed # <<>> /\ UNCHANGED <<reader, sent, job, truth>>
  BY DEF SendReply, hostVars
<1>2. ASSUME NEW p \in Due, AnswerOwed(p)
      PROVE  /\ sent' = <<>> /\ owed' = <<>>
             /\ spoiled' = spoiled => wire' = wire \o Encoded(p)
             /\ spoiled' # spoiled => \E b \in Damaged(Encoded(p)) : wire' = wire \o b
             /\ p \in Due' /\ Encoded(p)' = Encoded(p)
             /\ \E E \in Seq(Byte) : E = Encoded(p) /\ E # <<>>
  <2>1. sent' = <<>> /\ owed' = <<>> /\ Head(owed) = Frame(CommandOf(job), p)
    BY <1>1, <1>2 DEF SendReply, AnswerOwed
  <2>2. Fault => spoiled' # spoiled
    BY DEF LinkTypes, LineTypes, Fault
  <2>3. \/ wire' = wire \o Encoded(p) /\ spoiled' = spoiled
        \/ spoiled' # spoiled /\ \E b \in Damaged(Encoded(p)) : wire' = wire \o b
    BY <2>1, <2>2 DEF SendReply, Encoded
  <2>4. p \in Due' /\ Encoded(p)' = Encoded(p)
    BY <1>1, DueStays
  <2>5. p \in Payloads /\ CommandOf(job) \in Byte
    BY DueFits, CommandIsByte
  <2>6. PICK E \in Seq(Byte) : E = EncodeInto(Frame(CommandOf(job), p)) /\ Len(p) \in Nat /\ Len(E) = Len(p) + 4
    BY <2>5, FrameAt
  <2>7. E = Encoded(p) /\ E # <<>>
    BY <2>6, EmptySeq DEF Encoded
  <2> QED BY <2>1, <2>3, <2>4, <2>7, Zenon
<1>3. ASSUME OnItsWay PROVE wire = <<>> /\ reader = <<>> /\ \E p \in Due : AnswerOwed(p)
  BY <1>1, <1>3 DEF OnItsWay, Ahead, RequestSent, AnswerComes
<1>4. ASSUME OnItsWay, spoiled' = spoiled PROVE OnItsWay'
  <2>1. PICK p \in Due : AnswerOwed(p)
    BY <1>3, <1>4
  <2>2. sent' = <<>> /\ owed' = <<>> /\ wire' = wire \o Encoded(p) /\ UNCHANGED <<reader, job, truth>>
    BY <1>1, <1>2, <1>4, <2>1
  <2> QED BY <1>3, <1>4, <2>2, ReplyComes, Zenon
<1>5. ASSUME OnItsWay, spoiled' # spoiled PROVE AfterOne'
  <2>1. PICK p \in Due : AnswerOwed(p)
    BY <1>3, <1>5
  <2>2. PICK E \in Seq(Byte) : E = Encoded(p) /\ E # <<>>
    BY <1>2, <2>1
  <2>3. PICK D \in Damaged(E) : wire' = wire \o D
    BY <1>2, <1>5, <2>1, <2>2
  <2>4. D \in Spoiled(E)
    BY DEF Spoiled
  <2>5. D \in Seq(Byte)
    BY <2>2, <2>4, SpoiledBytes
  <2>6. wire' = D /\ reader' = <<>>
    BY <1>1, <1>3, <1>5, <2>3, <2>5, ConcatEmptySeq
  <2>7. Along(D, 0)' /\ 0 \in Nat
    BY <2>5, <2>6, AlongStarts
  <2>8. /\ sent' = <<>> /\ owed' = <<>> /\ p \in Due' /\ D \in Spoiled(Encoded(p)')
    BY <1>2, <2>1, <2>2, <2>4
  <2> QED BY <2>7, <2>8, Zenon DEF AfterOne
<1>6. ASSUME AfterOne, spoiled' = spoiled PROVE AfterOne'
  <2>1. Ahead /\ \E i \in Nat : Along(Ack, i)
    BY <1>1, <1>6 DEF AfterOne, AnswerComes
  <2>2. PICK p \in Due : AnswerOwed(p)
    BY <1>1, <2>1 DEF Ahead, RequestSent
  <2>3. PICK i \in Nat : Along(Ack, i)
    BY <2>1
  <2>4. PICK E \in Seq(Byte) : E = Encoded(p) /\ E # <<>>
    BY <1>2, <2>2
  <2>5. wire' = wire \o E /\ reader' = reader
    BY <1>1, <1>2, <1>6, <2>2, <2>4
  <2>6. Along(Ack \o E, i)'
    BY <2>3, <2>5, AlongGrows
  <2>7. Ack \o E \in Spoiled(E)
    BY DEF Spoiled
  <2>8. /\ sent' = <<>> /\ owed' = <<>> /\ p \in Due' /\ Ack \o E \in Spoiled(Encoded(p)')
    BY <1>2, <2>2, <2>4, <2>7
  <2> QED BY <2>6, <2>8, Zenon DEF AfterOne
<1> QED BY <1>4, <1>5, <1>6

LEMMA UnsolicitedKeeps ==
    ASSUME LinkTypes, OnItsWay, Unsolicited
    PROVE  AfterOne'
<1>1. /\ wire' = wire \o Ack
      /\ UNCHANGED <<reader, sent, owed, battery, wake, job, asked, truth>>
  BY DEF Unsolicited, Ack, hostVars
<1>2. CASE Ahead /\ wire = <<>> /\ reader = <<>>
  <2>1. wire' = Ack /\ reader' = <<>> /\ Ack \in Seq(Byte)
    BY <1>1, <1>2, AckBytes, ConcatEmptySeq
  <2>2. Along(Ack, 0)' /\ 0 \in Nat
    BY <2>1, AlongStarts
  <2>3. Ahead'
    BY <1>1, <1>2, AheadStays
  <2>4. Ack' = Ack
    BY DEF Ack
  <2> QED BY <2>2, <2>3 DEF AfterOne
<1>3. CASE \E p \in Due : \E k \in 0..Len(p) + 3 : AnswerComes(p, k, <<>>)
  <2>1. PICK p \in Due : \E k \in 0..Len(p) + 3 : AnswerComes(p, k, <<>>)
    BY <1>3
  <2>2. PICK k \in 0..Len(p) + 3 : AnswerComes(p, k, <<>>)
    BY <2>1
  <2>3. p \in Due' /\ Encoded(p)' = Encoded(p)
    BY <1>1, DueStays
  <2>4. p \in Payloads /\ CommandOf(job) \in Byte
    BY DueFits, CommandIsByte
  <2>5. PICK rest \in Seq(Byte) : rest = SubSeq(Encoded(p), k + 1, Len(p) + 4)
    BY <2>4, FrameInReader, Zenon DEF Encoded
  <2>6. wire' = rest \o Ack
    BY <1>1, <2>2, <2>5, ConcatEmptySeq DEF AnswerComes
  <2>7. AnswerComes(p, k, Ack)'
    BY <1>1, <2>2, <2>3, <2>5, <2>6 DEF AnswerComes
  <2> QED BY <2>3, <2>7 DEF AfterOne
<1> QED BY <1>2, <1>3 DEF OnItsWay

\* A step that leaves the line, the host and the schedule alone.
LEMMA LineStays ==
    ASSUME UNCHANGED <<reader, wire, sent, owed, wake, job, asked>>, truth \subseteq truth',
           battery' = battery \/ (job = "poll" => battery' \in truth')
    PROVE  (OnItsWay => OnItsWay') /\ (AfterOne => AfterOne')
<1>1. /\ Due \subseteq Due' /\ CommandOf(job)' = CommandOf(job)
      /\ \A p : Encoded(p)' = Encoded(p)
  BY DueStays
<1>2. Ahead => Ahead'
  BY AheadStays
<1>3. \A p, k, after : AnswerComes(p, k, after) => AnswerComes(p, k, after)'
  BY <1>1 DEF AnswerComes
<1>4. \A D, i : Along(D, i) => Along(D, i)'
  BY DEF Along
<1>5. OnItsWay => OnItsWay'
  BY <1>1, <1>2, <1>3 DEF OnItsWay
<1>6. ASSUME AfterOne PROVE AfterOne'
  <2>1. CASE Ahead /\ \E i \in Nat : Along(Ack, i)
    BY <1>2, <1>4, <2>1 DEF AfterOne
  <2>2. CASE /\ sent = <<>> /\ owed = <<>>
             /\ \E p \in Due : \E D \in Spoiled(Encoded(p)) : \E i \in Nat : Along(D, i)
    <3>1. PICK p \in Due : \E D \in Spoiled(Encoded(p)) : \E i \in Nat : Along(D, i)
      BY <2>2
    <3>2. PICK D \in Spoiled(Encoded(p)) : \E i \in Nat : Along(D, i)
      BY <3>1
    <3>3. p \in Due' /\ D \in Spoiled(Encoded(p)') /\ sent' = <<>> /\ owed' = <<>>
      BY <1>1, <2>2
    <3>4. \E i \in Nat : Along(D, i)'
      BY <1>4, <3>2
    <3> QED BY <3>3, <3>4, Zenon DEF AfterOne
  <2>3. CASE \E p \in Due : \E k \in 0..Len(p) + 3 : AnswerComes(p, k, Ack)
    BY <1>1, <1>3, <2>3 DEF AfterOne
  <2> QED BY <1>6, <2>1, <2>2, <2>3 DEF AfterOne
<1> QED BY <1>5, <1>6

\* Where the answer is, without a fault and after one.
Ways == (spoiled = 0 => OnItsWay) /\ (spoiled = 1 => AfterOne)

LEMMA WaysStep ==
    ASSUME LinkInv, [LinkNext]_linkVars, waiting', clean'
    PROVE  Ways'
<1>0. LinkTypes /\ (waiting /\ clean => Ways) /\ spoiled \in Nat
  BY DEF LinkInv, Ways, LinkTypes, LineTypes
<1>a. ASSUME Fault PROVE spoiled' # 0 /\ (spoiled' = 1 => spoiled = 0) /\ spoiled' # spoiled
  BY <1>0, <1>a, FaultCounts DEF Fault
<1>1. CASE Respond
  <2>1. /\ Ways /\ sent # <<>> /\ UNCHANGED <<reader, wire, spoiled>>
    BY <1>0, <1>1 DEF Respond, hostVars, historyVars
  <2>2. Ahead => Ahead'
    BY <1>0, <1>1, <2>1, RespondKeeps DEF Ahead, AnswerOwed
  <2>3. OnItsWay => OnItsWay'
    BY <2>1, <2>2 DEF OnItsWay, AnswerComes
  <2>4. AfterOne => Ahead /\ \E i \in Nat : Along(Ack, i)
    BY <2>1 DEF AfterOne, AnswerComes
  <2>5. \A i : Along(Ack, i) => Along(Ack, i)'
    BY <2>1 DEF Along, Ack
  <2>6. AfterOne => AfterOne'
    BY <2>2, <2>4, <2>5 DEF AfterOne
  <2> QED BY <2>1, <2>3, <2>6 DEF Ways
<1>2. CASE RequestLost
  <2>1. Ways /\ Fault
    BY <1>0, <1>2 DEF RequestLost, hostVars
  <2> QED BY <1>0, <1>2, <1>a, <2>1, RequestLostKeeps DEF Ways
<1>3. CASE SendReply
  <2>1. Ways /\ (Fault \/ spoiled' = spoiled)
    BY <1>0, <1>3 DEF SendReply, hostVars
  <2> QED BY <1>0, <1>3, <1>a, <2>1, SendReplyKeeps DEF Ways
<1>4. CASE Unsolicited
  <2>1. Ways /\ Fault
    BY <1>0, <1>4 DEF Unsolicited, hostVars
  <2> QED BY <1>0, <1>4, <1>a, <2>1, UnsolicitedKeeps DEF Ways
<1>5. CASE BatteryMoves
  <2>1. /\ Ways /\ UNCHANGED <<reader, wire, sent, owed, wake, job, asked, spoiled>>
        /\ truth \subseteq truth' /\ (job = "poll" => battery' \in truth')
    BY <1>0, <1>5 DEF BatteryMoves, hostVars
  <2> QED BY <2>1, LineStays DEF Ways
<1>6. CASE Begin
  BY <1>0, <1>6 DEF Begin, LinkTypes, HostTypes
<1>7. CASE Request
  <2>1. /\ wire = <<>> /\ owed = <<>> /\ sent = <<>> /\ reader' = <<>>
        /\ sent' = Append(sent, Frame(CommandOf(job), PayloadOf(job)))
        /\ truth' = {Reply(CommandOf(job))} /\ spoiled' = 0
        /\ UNCHANGED <<wire, owed, battery, wake, job, asked>>
    BY <1>7 DEF Request
  <2>2. sent' = <<Frame(CommandOf(job), PayloadOf(job))>>
    BY <2>1
  <2>3. RequestSent'
    BY <2>1, <2>2 DEF RequestSent, CommandOf, PayloadOf, Reply
  <2> QED BY <2>1, <2>3 DEF OnItsWay, Ahead, Ways
<1>8. CASE Read
  <2>1. Ways /\ spoiled' = spoiled
    BY <1>0, <1>8 DEF Read, historyVars
  <2>2. ~ \E p : Conclude(p)
    BY DEF Conclude
  <2>3. OnItsWay => OnItsWay'
    BY <1>0, <1>8, <2>2, ReadIsAnswer, Zenon
  <2>4. AfterOne => AfterOne'
    BY <1>0, <1>8, <2>2, ReadAfterOne, Zenon
  <2> QED BY <2>1, <2>3, <2>4 DEF Ways
<1>9. CASE TimeOut
  BY <1>9 DEF TimeOut, Conclude
<1>10. CASE UNCHANGED linkVars
  <2>1. /\ Ways /\ UNCHANGED <<reader, wire, sent, owed, wake, job, asked, spoiled, battery, truth>>
    BY <1>0, <1>10 DEF linkVars, hostVars, historyVars
  <2> QED BY <2>1, LineStays DEF Ways
<1> QED
  BY <1>1, <1>2, <1>3, <1>4, <1>5, <1>6, <1>7, <1>8, <1>9, <1>10 DEF LinkNext, Device, Host

LEMMA AskedStep ==
    ASSUME LinkInv, [LinkNext]_linkVars, waiting', clean'
    PROVE  OneAsked' /\ HeldStill'
<1>0. LinkTypes /\ (waiting /\ clean => OneAsked /\ HeldStill)
  BY DEF LinkInv
<1>1. ASSUME waiting, clean, UNCHANGED <<job, asked, sent, truth, wake>> PROVE OneAsked' /\ HeldStill'
  BY <1>0, <1>1, Commands DEF OneAsked, HeldStill, CommandOf, PayloadOf, Reply
<1>2. ASSUME waiting, clean, UNCHANGED <<job, asked, truth, wake>>, sent # <<>>, sent' = Tail(sent)
      PROVE  OneAsked' /\ HeldStill'
  <2>1. sent' = <<>>
    BY <1>0, <1>2 DEF OneAsked
  <2> QED BY <1>0, <1>2, <2>1, Commands DEF OneAsked, HeldStill, Reply
<1>3. CASE Respond
  <2>1. /\ waiting /\ clean /\ UNCHANGED <<job, asked, truth>> /\ sent # <<>> /\ sent' = Tail(sent)
        /\ wake' = IF Head(sent).cmd = SetWake THEN DecodeSchedule(Head(sent).payload) ELSE wake
    BY <1>3 DEF Respond, hostVars, historyVars
  <2>2. sent = <<Frame(CommandOf(job), PayloadOf(job))>>
    BY <1>0, <2>1 DEF OneAsked
  <2>3. CASE job = "readback"
    <3>1. Head(sent).cmd = GetWake
      BY <2>2, <2>3, Commands DEF Frame
    <3>2. wake' = wake
      BY <2>1, <3>1, Commands
    <3> QED BY <1>2, <2>1, <3>2
  <2>4. CASE job # "readback"
    <3>1. sent' = <<>>
      BY <2>1, <2>2
    <3> QED BY <2>1, <2>4, <3>1 DEF OneAsked, HeldStill
  <2> QED BY <2>3, <2>4
<1>4. CASE RequestLost
  BY <1>2, <1>4 DEF RequestLost, hostVars
<1>5. CASE SendReply
  BY <1>1, <1>5 DEF SendReply, hostVars, LinkTypes, HostTypes
<1>6. CASE Unsolicited
  BY <1>1, <1>6 DEF Unsolicited, hostVars
<1>7. CASE BatteryMoves
  <2>1. /\ waiting /\ clean /\ UNCHANGED <<job, asked, sent, wake>>
        /\ job # "poll" => truth' = truth
    BY <1>7 DEF BatteryMoves, hostVars
  <2>2. CASE job = "poll"
    BY <1>0, <2>1, <2>2 DEF OneAsked, HeldStill, CommandOf, PayloadOf
  <2> QED BY <1>1, <2>1, <2>2
<1>8. CASE Begin
  BY <1>8, <1>0 DEF Begin, LinkTypes, HostTypes
<1>9. CASE Request
  <2>1. /\ sent = <<>> /\ sent' = Append(sent, Frame(CommandOf(job), PayloadOf(job)))
        /\ truth' = {Reply(CommandOf(job))} /\ UNCHANGED <<battery, wake, job, asked>>
    BY <1>9 DEF Request
  <2>2. sent' = <<Frame(CommandOf(job), PayloadOf(job))>>
    BY <2>1
  <2> QED BY <2>1, <2>2, Commands DEF OneAsked, HeldStill, CommandOf, PayloadOf, Reply
<1>10. CASE Read
  <2>1. waiting /\ clean /\ UNCHANGED <<sent, truth, wake>> /\ UNCHANGED hostVars
    BY <1>0, <1>10, ReadTakesByte DEF Conclude, LinkTypes, HostTypes
  <2> QED BY <1>1, <2>1 DEF hostVars
<1>11. CASE TimeOut
  BY <1>11 DEF TimeOut, Conclude
<1>12. CASE UNCHANGED linkVars
  BY <1>1, <1>12 DEF linkVars, hostVars, historyVars
<1> QED
  BY <1>3, <1>4, <1>5, <1>6, <1>7, <1>8, <1>9, <1>10, <1>11, <1>12 DEF LinkNext, Device, Host

LEMMA LinkStep == LinkInv /\ [LinkNext]_linkVars => LinkInv'
<1> SUFFICES ASSUME LinkInv, [LinkNext]_linkVars PROVE LinkInv'
  OBVIOUS
<1>1. LinkTypes'
  BY LinkTypesStep DEF LinkInv
<1>2. ASSUME waiting', clean' PROVE OneAsked' /\ HeldStill' /\ Ways'
  BY <1>2, WaysStep, AskedStep
<1> QED BY <1>1, <1>2 DEF LinkInv, Ways

LEMMA LinkStart == LinkInit => LinkInv
<1> SUFFICES ASSUME LinkInit PROVE LinkInv
  OBVIOUS
<1>1. sent \in Seq(Requests) /\ owed \in Seq(Frames) /\ wire \in Seq(Byte) /\ Begun(reader)
  BY EmptySeq DEF LinkInit, Begun
<1>2. HostTypes
  BY <1>1 DEF LinkInit, HostTypes
<1>3. LineTypes
  BY <1>1, LinkAssumption DEF LinkInit, LineTypes
<1>4. ~waiting
  BY DEF LinkInit
<1> QED BY <1>2, <1>3, <1>4 DEF LinkInv, LinkTypes

-----------------------------------------------------------------------------
(* What the link promises. *)

LEMMA NotOnAQuietLine ==
    ASSUME LinkTypes, OnItsWay, wire = <<>>, owed = <<>>, sent = <<>>
    PROVE  FALSE
<1>1. PICK p \in Due : \E k \in 0..Len(p) + 3 : AnswerComes(p, k, <<>>)
  BY DEF OnItsWay, Ahead, RequestSent, AnswerOwed
<1>2. PICK k \in 0..Len(p) + 3 : AnswerComes(p, k, <<>>)
  BY <1>1
<1>3. p \in Payloads /\ CommandOf(job) \in Byte
  BY DueFits, CommandIsByte
<1>4. PICK rest \in Seq(Byte) : rest = SubSeq(Encoded(p), k + 1, Len(p) + 4) /\ rest # <<>>
  BY <1>3, FrameInReader, Zenon DEF Encoded
<1>5. wire = rest
  BY <1>2, <1>4, ConcatEmptySeq DEF AnswerComes
<1> QED BY <1>4, <1>5

\* Of all that comes, the reader keeps less than the longest frame has: its buffer
\* of MAX_FRAME bytes is never too short.
THEOREM ReaderNeverOverflows == LinkSpec => [](Len(reader) < 255 + 4)
<1>1. LinkInv => Len(reader) < 255 + 4
  <2> SUFFICES ASSUME LinkInv PROVE Len(reader) < 255 + 4
    OBVIOUS
  <2>1. reader \in Seq(Byte) /\ Len(reader) \in Nat /\ (Len(reader) > 1 => Len(reader) <= reader[2] + 3)
    BY LenProperties DEF LinkInv, LinkTypes, LineTypes, Begun
  <2>2. CASE Len(reader) > 1
    <3>1. reader[2] \in Byte
      BY <2>1, <2>2, ElementOfSeq
    <3>2. reader[2] \in Int /\ reader[2] <= 255
      BY <3>1, ByteIsNumber
    <3> QED BY <2>1, <2>2, <3>2
  <2> QED BY <2>1, <2>2
<1> QED BY <1>1, LinkStart, LinkStep, PTL DEF LinkSpec

\* Whatever was lost, damaged or late before, with noise and unsolicited frames: a
\* request that is sent on a quiet line is answered before its deadline unless
\* something goes wrong with it, for all payloads, schedules and any number of both.
THEOREM QuietLineAnswersAlways == LinkSpec => QuietLineAnswers
<1>1. LinkInv /\ [LinkNext]_linkVars => [TimeOut /\ clean => spoiled' > 0]_linkVars
  <2> SUFFICES ASSUME LinkInv, TimeOut, clean, ~(spoiled' > 0) PROVE FALSE
    OBVIOUS
  <2>1. LinkTypes /\ spoiled \in Nat /\ waiting
    BY DEF LinkInv, LinkTypes, LineTypes, TimeOut
  <2>2. ~Fault
    BY <2>1 DEF Fault
  <2>3. wire = <<>> /\ owed = <<>> /\ sent = <<>> /\ spoiled = 0
    BY <2>1, <2>2 DEF TimeOut
  <2>4. OnItsWay
    BY <2>1, <2>3 DEF LinkInv
  <2> QED BY <2>1, <2>3, <2>4, NotOnAQuietLine
<1> QED BY <1>1, LinkStart, LinkStep, PTL DEF LinkSpec, QuietLineAnswers

\* What ends the wait of a request that was sent on a quiet line, with at most one
\* fault since: the answer itself, or a frame that cannot be taken for one.
LEMMA AnswerIsTold ==
    ASSUME LinkInv, Read, ~waiting', clean, spoiled <= 1
    PROVE  /\ waiting
           /\ \E p \in Due : \E q \in Payloads :
                 /\ Told(q, p) /\ Conclude(q) /\ UNCHANGED asked
                 /\ spoiled = 0 => /\ q = p
                                   /\ sent' = <<>> /\ owed' = <<>> /\ wire' = <<>>
<1>1. LinkTypes /\ waiting /\ spoiled \in {0, 1}
  BY DEF LinkInv, LinkTypes, LineTypes, Read
<1>2. ~ UNCHANGED hostVars
  BY <1>1 DEF hostVars
<1>3. CASE spoiled = 0
  <2>1. PICK p \in Due : Conclude(p) /\ UNCHANGED asked /\ sent' = <<>> /\ owed' = <<>> /\ wire' = <<>>
    BY <1>1, <1>2, <1>3, ReadIsAnswer DEF LinkInv
  <2>2. p \in Payloads /\ Told(p, p)
    BY DueFits DEF Told
  <2> QED BY <1>1, <2>1, <2>2
<1>4. CASE spoiled = 1
  BY <1>1, <1>2, <1>4, ReadAfterOne DEF LinkInv
<1> QED BY <1>1, <1>3, <1>4

\* A wake that is read back on such a line is the one the device holds.
LEMMA ReadbackIsTold ==
    ASSUME LinkInv, Read, ~waiting', clean, spoiled <= 1, job = "readback", outcome' = "ok"
    PROVE  /\ wake = asked /\ EncodeSchedule(asked) \in truth
           /\ job' = "idle" /\ UNCHANGED <<wake, asked, sent>>
           /\ sent = <<>> \/ sent = <<Frame(GetWake, <<>>)>>
<1>1. PICK p \in Due, q \in Payloads : Told(q, p) /\ Conclude(q) /\ UNCHANGED asked
  BY AnswerIsTold
<1>2. job' = "idle" /\ DecodeOptionalSchedule(q) = asked /\ asked \in Wakes
  BY <1>1 DEF Conclude, LinkInv, LinkTypes, HostTypes
<1>3. Storable(asked, 5) /\ asked \in Schedules
  BY <1>2, ScheduleIsStorable DEF Schedules
<1>4. asked # <<>> /\ asked # None
  <2>1. asked \in [1..5 -> Nat] /\ 5 \in Nat
    BY <1>3 DEF Storable
  <2>2. asked \in Seq(Nat) /\ Len(asked) = 5
    BY <2>1, FunctionIsSeq
  <2>3. asked # <<>>
    <3>1. Len(asked) # Len(<<>>)
      BY <2>2
    <3> QED BY <3>1, Zenon
  <2>4. asked # None
    BY <2>2, NoneIsRefusal, Zenon
  <2> QED BY <2>3, <2>4
<1>5. q # <<>> /\ DecodeSchedule(q) = asked
  BY <1>2, <1>4 DEF DecodeOptionalSchedule
<1>6. Len(q) = 5
  BY <1>4, <1>5 DEF DecodeSchedule, DecodeTime
<1>7. waiting
  BY AnswerIsTold
<1>8. /\ truth = {Reply(GetWake)} /\ wake \in {<<>>} \cup Schedules
      /\ sent = <<>> \/ sent = <<Frame(GetWake, <<>>)>>
  BY <1>7, Commands DEF LinkInv, LinkTypes, HostTypes, HeldStill, OneAsked, PayloadOf
<1>9. p = IF wake = <<>> THEN <<>> ELSE EncodeSchedule(wake)
  BY <1>8, DueFits, Commands DEF Reply
<1>10. wake # <<>>
  <2> SUFFICES ASSUME wake = <<>> PROVE FALSE
    OBVIOUS
  <2>1. p = <<>> /\ Len(p) = 0
    BY <1>9
  <2>2. q = p
    BY <1>1, <1>6, <2>1 DEF Told
  <2> QED BY <1>5, <2>1, <2>2
<1>11. p = EncodeSchedule(wake) /\ Len(p) = 5 /\ DecodeSchedule(p) = wake
  BY <1>8, <1>9, <1>10, ScheduleIsKept
<1>12. q = p
  BY <1>1, <1>6, <1>11 DEF Told
<1>13. wake = asked
  BY <1>5, <1>11, <1>12
<1>14. EncodeSchedule(asked) \in truth
  BY <1>11, <1>13, DueFits
<1>15. UNCHANGED <<wake, sent>>
  BY ReadTakesByte DEF LinkInv
<1> QED BY <1>1, <1>2, <1>8, <1>13, <1>14, <1>15

\* And a battery is one the device measured since it was asked, or none.
LEMMA PollIsTold ==
    ASSUME \A b \in Batteries : Len(b) = 2,
           LinkInv, Read, ~waiting', clean, spoiled <= 1, job = "poll"
    PROVE  /\ reading' \in {None} \cup {DecodeBattery(b) : b \in truth}
           /\ spoiled = 0 => reading' \in {DecodeBattery(b) : b \in truth}
<1>1. PICK p \in Due, q \in Payloads :
         Told(q, p) /\ Conclude(q) /\ UNCHANGED asked /\ (spoiled = 0 => q = p)
  BY AnswerIsTold
<1>2. p \in truth /\ Len(p) = 2
  BY DueFits, Commands DEF Answers
<1>3. q # None
  BY LinkAssumption DEF Payloads
<1>4. reading' = DecodeBattery(q)
  BY <1>1, <1>3 DEF Conclude
<1>5. CASE Len(q) # 2
  <2>1. DecodeBattery(q) = None
    BY <1>5 DEF DecodeBattery
  <2> QED BY <1>1, <1>2, <1>4, <1>5, <2>1
<1>6. CASE Len(q) = 2
  <2>1. q = p
    BY <1>1, <1>2, <1>6 DEF Told
  <2> QED BY <1>2, <1>4, <2>1
<1> QED BY <1>5, <1>6

\* The answer to a request that was sent on a quiet line and with which nothing went
\* wrong is one the device could have given since it was sent, and a wake that is
\* reported as set on the strength of it is in the device.
THEOREM UnspoiledAnswerIsTrue ==
    LinkSpec => [][Read /\ waiting /\ ~waiting' /\ clean /\ spoiled = 0 =>
                    IF job = "poll" THEN reading' \in {DecodeBattery(b) : b \in truth}
                    ELSE (job = "readback" /\ outcome' = "ok") => wake' = asked']_linkVars
<1> DEFINE True == IF job = "poll" THEN reading' \in {DecodeBattery(b) : b \in truth}
                   ELSE (job = "readback" /\ outcome' = "ok") => wake' = asked'
<1>1. LinkInv => [Read /\ waiting /\ ~waiting' /\ clean /\ spoiled = 0 => True]_linkVars
  <2> SUFFICES ASSUME LinkInv, Read, waiting, ~waiting', clean, spoiled = 0 PROVE True
    OBVIOUS
  <2>1. CASE job = "poll"
    <3>1. PICK p \in Due, q \in Payloads : Conclude(q) /\ q = p
      BY AnswerIsTold
    <3>2. p \in truth /\ p # None
      BY DueFits, LinkAssumption DEF Payloads
    <3> QED BY <2>1, <3>1, <3>2 DEF Conclude
  <2>2. CASE job = "readback" /\ outcome' = "ok"
    BY <2>2, ReadbackIsTold
  <2> QED BY <2>1, <2>2
<1> QED BY <1>1, LinkStart, LinkStep, PTL DEF LinkSpec

\* One thing that goes wrong with a request is seen, whatever went wrong with those
\* before it: a byte lost or changed in any way, any noise, a loss or a frame nobody
\* asked for makes no other answer of it, and none of them a wake that is confirmed
\* and not held.  The batteries' payloads are of two bytes, as the device's are.
THEOREM OneFaultIsSeen ==
    ASSUME \A b \in Batteries : Len(b) = 2
    PROVE  LinkSpec => [][Read /\ waiting /\ ~waiting' /\ clean /\ spoiled <= 1 =>
              IF job = "poll" THEN reading' \in {None} \cup {DecodeBattery(b) : b \in truth}
              ELSE (job = "readback" /\ outcome' = "ok") =>
                      wake' = asked' /\ EncodeSchedule(asked) \in truth]_linkVars
<1> DEFINE True == IF job = "poll" THEN reading' \in {None} \cup {DecodeBattery(b) : b \in truth}
                   ELSE (job = "readback" /\ outcome' = "ok") =>
                           wake' = asked' /\ EncodeSchedule(asked) \in truth
<1>1. LinkInv => [Read /\ waiting /\ ~waiting' /\ clean /\ spoiled <= 1 => True]_linkVars
  <2> SUFFICES ASSUME LinkInv, Read, waiting, ~waiting', clean, spoiled <= 1 PROVE True
    OBVIOUS
  <2>1. CASE job = "poll"
    BY <2>1, PollIsTold
  <2>2. CASE job = "readback" /\ outcome' = "ok"
    BY <2>2, ReadbackIsTold
  <2> QED BY <2>1, <2>2
<1> QED BY <1>1, LinkStart, LinkStep, PTL DEF LinkSpec

\* With one fault in all, the answer on a quiet line is the device's.
THEOREM AnswerIsTrueAfterOneFault ==
    ASSUME \A b \in Batteries : Len(b) = 2, MaxFaults <= 1
    PROVE  LinkSpec => AnswerIsTrue
<1> DEFINE True == IF job = "poll" THEN reading' \in {None} \cup {DecodeBattery(b) : b \in truth}
                   ELSE (job = "readback" /\ outcome' = "ok") => EncodeSchedule(asked) \in truth
<1>1. LinkInv => [Read /\ waiting /\ ~waiting' /\ clean => True]_linkVars
  <2> SUFFICES ASSUME LinkInv, Read, waiting, ~waiting', clean PROVE True
    OBVIOUS
  <2>1. spoiled <= 1
    BY LinkAssumption DEF LinkInv, LinkTypes, LineTypes
  <2>2. CASE job = "poll"
    BY <2>1, <2>2, PollIsTold
  <2>3. CASE job = "readback" /\ outcome' = "ok"
    BY <2>1, <2>3, ReadbackIsTold
  <2> QED BY <2>2, <2>3
<1> QED BY <1>1, LinkStart, LinkStep, PTL DEF LinkSpec, AnswerIsTrue

-----------------------------------------------------------------------------
(* The wake that is confirmed. *)

\* It is in the device, and nothing on its way sets another.
Settled ==
    /\ outcome = "ok" /\ job \in {"idle", "poll"} /\ wake = asked
    /\ \A n \in 1..Len(sent) : sent[n].cmd # SetWake

LEMMA SettledStays ==
    ASSUME LinkTypes, Settled, [LinkNext]_linkVars
    PROVE  Settled' \/ outcome' = "none"
<1>0. sent \in Seq(Requests)
  BY DEF LinkTypes, HostTypes
<1>1. ASSUME sent # <<>>, sent' = Tail(sent)
      PROVE  (\A n \in 1..Len(sent') : sent'[n].cmd # SetWake) /\ Head(sent).cmd # SetWake
  <2>1. /\ Head(sent) = sent[1] /\ Len(sent') = Len(sent) - 1 /\ Len(sent) \in Nat /\ Len(sent) > 0
        /\ \A n \in 1..Len(sent') : sent'[n] = sent[n + 1]
    BY <1>0, <1>1, HeadTailProperties, EmptySeq, LenProperties
  <2>2. 1 \in 1..Len(sent) /\ \A n \in 1..Len(sent') : n + 1 \in 1..Len(sent)
    BY <2>1
  <2> QED BY <2>1, <2>2 DEF Settled
<1>2. CASE Respond
  <2>1. wake' = wake /\ UNCHANGED <<outcome, job, asked>>
    BY <1>1, <1>2 DEF Respond, hostVars
  <2>2. \A n \in 1..Len(sent') : sent'[n].cmd # SetWake
    BY <1>1, <1>2 DEF Respond
  <2> QED BY <2>1, <2>2 DEF Settled
<1>3. CASE RequestLost
  <2>1. UNCHANGED <<wake, outcome, job, asked>>
    BY <1>3 DEF RequestLost, hostVars
  <2>2. \A n \in 1..Len(sent') : sent'[n].cmd # SetWake
    BY <1>1, <1>3 DEF RequestLost
  <2> QED BY <2>1, <2>2 DEF Settled
<1>4. CASE SendReply \/ Unsolicited \/ BatteryMoves \/ UNCHANGED linkVars
  BY <1>4 DEF SendReply, Unsolicited, BatteryMoves, linkVars, hostVars, Settled
<1>5. CASE Begin
  BY <1>5 DEF Begin, Settled
<1>6. CASE Request
  <2>1. /\ job = "poll" /\ UNCHANGED <<wake, outcome, job, asked>>
        /\ sent' = Append(sent, Frame(BatteryStatus, PayloadOf(job)))
    BY <1>6, Commands DEF Request, Settled
  <2>2. PICK f \in Requests : f = Frame(BatteryStatus, PayloadOf(job))
    BY <2>1, RequestIsOne, Commands DEF LinkTypes
  <2>3. f.cmd # SetWake
    BY <2>2, Commands DEF Frame
  <2>4. /\ Len(sent') = Len(sent) + 1 /\ sent'[Len(sent) + 1] = f /\ Len(sent) \in Nat
        /\ \A n \in 1..Len(sent) : sent'[n] = sent[n]
    BY <1>0, <2>1, <2>2, AppendProperties, LenProperties
  <2>5. \A n \in 1..Len(sent') : n \in 1..Len(sent) \/ n = Len(sent) + 1
    BY <2>4
  <2> QED BY <2>1, <2>3, <2>4, <2>5 DEF Settled
<1>7. ASSUME NEW p, Conclude(p), waiting PROVE job' = "idle" /\ outcome' = outcome
  BY <1>7 DEF Conclude, Settled, LinkTypes, HostTypes
<1>8. CASE Read
  <2>1. waiting /\ UNCHANGED <<sent, wake>>
    BY <1>8 DEF Read
  <2>2. UNCHANGED hostVars \/ \E p : Conclude(p) /\ UNCHANGED asked
    BY <1>8, Zenon DEF Read
  <2>3. UNCHANGED <<asked, outcome>> /\ job' \in {job, "idle"}
    BY <1>7, <2>1, <2>2 DEF hostVars
  <2> QED BY <2>1, <2>3 DEF Settled
<1>9. CASE TimeOut
  <2>1. waiting /\ Conclude(None) /\ UNCHANGED <<sent, wake, asked>>
    BY <1>9 DEF TimeOut
  <2>2. job' = "idle" /\ outcome' = outcome
    BY <1>7, <2>1
  <2> QED BY <2>1, <2>2 DEF Settled
<1> QED BY <1>2, <1>3, <1>4, <1>5, <1>6, <1>8, <1>9 DEF LinkNext, Device, Host

LEMMA ReadbackSettles ==
    ASSUME LinkInv, Read, ~waiting', clean, spoiled <= 1, job = "readback", outcome' = "ok"
    PROVE  Settled'
<1>1. /\ wake' = asked' /\ job' = "idle" /\ sent' = sent
      /\ sent = <<>> \/ sent = <<Frame(GetWake, <<>>)>>
  BY ReadbackIsTold
<1>2. \A n \in 1..Len(sent) : sent[n].cmd # SetWake
  BY <1>1, Commands DEF Frame
<1> QED BY <1>1, <1>2 DEF Settled

\* However many faults there were before: a wake that was read back on a quiet line,
\* with at most one fault since, is the one in the device, and it stays there until
\* another is asked for, whatever else is polled, lost, damaged or late.
THEOREM ConfirmedStaysHeld ==
    LinkSpec => [][/\ Read /\ job = "readback" /\ outcome' = "ok" /\ ~waiting'
                      /\ clean /\ spoiled <= 1 => Settled'
                   /\ Settled => Settled' \/ outcome' = "none"]_linkVars
<1> DEFINE Held == /\ Read /\ job = "readback" /\ outcome' = "ok" /\ ~waiting'
                      /\ clean /\ spoiled <= 1 => Settled'
                   /\ Settled => Settled' \/ outcome' = "none"
<1>1. LinkInv /\ [LinkNext]_linkVars => [Held]_linkVars
  BY ReadbackSettles, SettledStays DEF LinkInv
<1> QED BY <1>1, LinkStart, LinkStep, PTL DEF LinkSpec

\* Without a fault a line is quiet between two requests, and what is confirmed is held.
Calm ==
    /\ waiting => clean
    /\ ~waiting => sent = <<>> /\ owed = <<>> /\ wire = <<>>
    /\ outcome = "ok" => Settled

LEMMA CalmStep ==
    ASSUME MaxFaults = 0, LinkInv, Calm, [LinkNext]_linkVars
    PROVE  Calm'
<1>0. LinkTypes /\ spoiled = 0 /\ ~Fault
  BY DEF LinkInv, LinkTypes, LineTypes, Fault
<1>a. Settled => Settled' \/ outcome' = "none"
  BY <1>0, SettledStays
<1>1. CASE Respond
  <2>1. waiting /\ clean /\ UNCHANGED <<waiting, clean, outcome>>
    BY <1>1 DEF Calm, Respond, hostVars, historyVars
  <2> QED BY <1>a, <2>1 DEF Calm
<1>2. CASE RequestLost \/ Unsolicited
  BY <1>0, <1>2 DEF RequestLost, Unsolicited
<1>3. CASE SendReply
  <2>1. waiting /\ clean /\ UNCHANGED <<waiting, clean, outcome>>
    BY <1>3 DEF Calm, SendReply, hostVars
  <2> QED BY <1>a, <2>1 DEF Calm
<1>4. CASE BatteryMoves \/ UNCHANGED linkVars
  <2>1. UNCHANGED <<waiting, clean, outcome, sent, owed, wire>>
    BY <1>4 DEF BatteryMoves, linkVars, hostVars, historyVars
  <2> QED BY <1>a, <2>1 DEF Calm
<1>5. CASE Begin
  <2>1. UNCHANGED <<waiting, clean, sent, owed, wire>> /\ (outcome' = outcome \/ outcome' = "none")
    BY <1>5 DEF Begin, historyVars
  <2> QED BY <1>a, <2>1 DEF Calm
<1>6. CASE Request
  <2>1. waiting' /\ clean' /\ outcome' = outcome
    BY <1>6 DEF Calm, Request
  <2> QED BY <1>a, <2>1 DEF Calm
<1>7. CASE Read
  <2>1. waiting /\ clean /\ OnItsWay /\ clean' = clean
    BY <1>0, <1>7, ReadTakesByte DEF Calm, LinkInv
  <2>2. CASE UNCHANGED hostVars
    <3>1. UNCHANGED <<waiting, outcome>>
      BY <2>2 DEF hostVars
    <3> QED BY <1>a, <2>1, <3>1 DEF Calm
  <2>3. CASE ~ UNCHANGED hostVars
    <3>1. /\ \E p \in Due : Conclude(p)
          /\ sent' = <<>> /\ owed' = <<>> /\ wire' = <<>>
      BY <1>0, <1>7, <2>1, <2>3, ReadIsAnswer
    <3>2. PICK p : Conclude(p)
      BY <3>1
    <3>3. ~waiting' /\ (outcome' = "ok" => outcome = "ok" \/ job = "readback")
      BY <3>2 DEF Conclude
    <3>4. outcome' = "ok" => Settled'
      BY <1>0, <1>7, <1>a, <2>1, <3>3, ReadbackSettles DEF Calm
    <3> QED BY <3>1, <3>3, <3>4 DEF Calm
  <2> QED BY <2>2, <2>3
<1>8. CASE TimeOut
  <2>1. waiting /\ clean /\ OnItsWay /\ wire = <<>> /\ owed = <<>> /\ sent = <<>>
    BY <1>0, <1>8 DEF Calm, LinkInv, TimeOut
  <2> QED BY <1>0, <2>1, NotOnAQuietLine
<1> QED BY <1>1, <1>2, <1>3, <1>4, <1>5, <1>6, <1>7, <1>8 DEF LinkNext, Device, Host

\* As long as nothing is lost, damaged or late, a wake that is reported as set is in
\* the device, for all schedules, batteries and orders of requests.
THEOREM ConfirmedIsHeldWithoutFault ==
    ASSUME MaxFaults = 0
    PROVE  LinkSpec => []ConfirmedIsHeld
<1>1. LinkInit => Calm
  BY DEF LinkInit, Calm
<1>2. LinkInv /\ Calm /\ [LinkNext]_linkVars => Calm'
  BY CalmStep
<1>3. Calm => ConfirmedIsHeld
  BY DEF Calm, Settled, ConfirmedIsHeld
<1> QED BY <1>1, <1>2, <1>3, LinkStart, LinkStep, PTL DEF LinkSpec
=============================================================================
