------------------------- MODULE ControlRelayProofs -------------------------
(***************************************************************************)
(* Proofs about ControlRelay, for any number of callers and any times.     *)
(***************************************************************************)
EXTENDS ControlRelay, FiniteSetTheorems, TLAPS

LEMMA ConstantTypes ==
    /\ Interval \in Nat /\ AnswerTimeout \in Nat /\ StaleAfter \in Nat
    /\ PollTicks \in Nat /\ RequestTicks \in Nat /\ MaxCalls \in Nat
    /\ Ports \subseteq {"opened", "absent", "held"}
  BY RelayAssumption

-----------------------------------------------------------------------------
(* No lost wakeup: the order of send and flag, and of clear and drain. *)

LEMMA WakeupInit == Init => NoLostWakeup
  BY DEF Init, NoLostWakeup

LEMMA WakeupStep == TypeOK /\ NoLostWakeup /\ [Next]_vars => NoLostWakeup'
  <1> SUFFICES ASSUME TypeOK, NoLostWakeup, [Next]_vars PROVE NoLostWakeup'
    OBVIOUS
  <1>a. ASSUME NEW c \in Callers, Send(c) PROVE NoLostWakeup'
    <2>1. CASE pc = "gone"
      BY <1>a, <2>1 DEF Send, NoLostWakeup, thread
    <2>2. CASE pc # "gone"
      <3>1. caller'[c] = "sent"
        BY <1>a, <2>2 DEF Send, TypeOK
      <3> QED
        BY <3>1 DEF NoLostWakeup
    <2> QED
      BY <2>1, <2>2
  <1>b. ASSUME NEW c \in Callers, Flag(c) PROVE NoLostWakeup'
    BY <1>b DEF Flag, NoLostWakeup
  <1>c. ASSUME NEW c \in Callers, Receive(c) PROVE NoLostWakeup'
    <2>1. caller[c] = "waiting" /\ caller' = [caller EXCEPT ![c] = "idle"]
      BY <1>c DEF Receive, Return
    <2>2. \A d \in Callers : caller[d] = "sent" => caller'[d] = "sent"
      BY <2>1 DEF TypeOK
    <2> QED
      BY <1>c, <2>2 DEF Receive, NoLostWakeup, thread
  <1>d. CASE Top
    <2>1. pc' # "sleep"
      BY <1>d, ConstantTypes DEF Top, Goto
    <2> QED
      BY <2>1 DEF NoLostWakeup
  <1>e. CASE Poll
    BY <1>e DEF Poll, Goto, NoLostWakeup
  <1>f. CASE Clear
    BY <1>f DEF Clear, Goto, NoLostWakeup
  <1>g. CASE Drain
    BY <1>g DEF Drain, Goto, NoLostWakeup
  <1>h. CASE Work
    BY <1>h DEF Work, Goto, NoLostWakeup
  <1>i. CASE SleepOver
    BY <1>i DEF SleepOver, Goto, NoLostWakeup
  <1>j. CASE HeldOver
    BY <1>j DEF HeldOver, Goto, NoLostWakeup
  <1>k. CASE Stop
    BY <1>k DEF Stop, NoLostWakeup, thread, clients
  <1>l. CASE Tick
    BY <1>l DEF Tick, NoLostWakeup
  <1>m. CASE UNCHANGED vars
    BY <1>m DEF vars, NoLostWakeup, thread, clients
  <1> QED
    BY <1>a, <1>b, <1>c, <1>d, <1>e, <1>f, <1>g, <1>h, <1>i, <1>j, <1>k, <1>l, <1>m
       DEF Next, Thread, Relay

-----------------------------------------------------------------------------
(* Types. *)

LEMMA FlagsStep == FlagsOK /\ [Next]_vars => FlagsOK'
  <1> SUFFICES ASSUME FlagsOK, [Next]_vars PROVE FlagsOK'
    OBVIOUS
  <1>1. monitor \in BOOLEAN /\ waiting \in BOOLEAN /\ stopping \in BOOLEAN
    BY DEF FlagsOK
  <1>2. /\ monitor' \in BOOLEAN \cup {monitor}
        /\ waiting' \in {TRUE, FALSE, waiting}
        /\ stopping' \in {TRUE, stopping}
    BY DEF Next, vars, thread, clients, Thread, Relay, Send, Flag, Receive, Top, Poll,
           Clear, Drain, Work, SleepOver, HeldOver, Stop, Tick
  <1> QED
    BY <1>1, <1>2 DEF FlagsOK

\* The history holds calls.
LEMMA BlockedStep == TypeOK /\ [Next]_vars => blocked' \subseteq Callers \X Nat
  <1> SUFFICES ASSUME TypeOK, [Next]_vars PROVE blocked' \subseteq Callers \X Nat
    OBVIOUS
  <1>1. blocked \subseteq Callers \X Nat /\ calls \in [Callers -> Nat]
    BY DEF TypeOK
  <1>2. UnderWay \subseteq Callers \X Nat
    BY <1>1 DEF UnderWay
  <1>3. \/ blocked' \in {blocked, blocked \cup UnderWay}
        \/ \E c \in Callers : calls'[c] \in Nat /\ blocked' = blocked \cup {<<c, calls'[c]>>}
    <2>1. ASSUME NEW c \in Callers, Send(c)
          PROVE  calls'[c] \in Nat /\ blocked' \in {blocked, blocked \cup {<<c, calls'[c]>>}}
      BY <1>1, <2>1 DEF Send
    <2>2. CASE \E c \in Callers : Flag(c) \/ Receive(c)
      BY <2>2 DEF Flag, Receive
    <2>3. CASE Top
      BY <2>3 DEF Top
    <2>4. CASE Poll \/ Clear \/ Drain \/ Work
      BY <2>4 DEF Poll, Clear, Drain, Work
    <2>5. CASE SleepOver \/ HeldOver \/ Stop \/ Tick \/ UNCHANGED vars
      BY <2>5 DEF SleepOver, HeldOver, Stop, Tick, vars
    <2> QED
      BY <2>1, <2>2, <2>3, <2>4, <2>5 DEF Next, Thread, Relay
  <1> QED
    BY <1>1, <1>2, <1>3

LEMMA AppendTypes ==
    ASSUME NEW S, NEW q \in Seq(S), NEW e \in S PROVE Append(q, e) \in Seq(S)
  OBVIOUS

LEMMA EmptyChannel == <<>> \in Seq(Callers \X Nat)
  OBVIOUS

LEMMA TypeInit == Init => TypeOK
  <1> SUFFICES ASSUME Init PROVE TypeOK
    OBVIOUS
  <1>1. FlagsOK /\ blocked \subseteq Callers \X Nat
    BY DEF Init, FlagsOK
  <1>2. /\ pc = "top" /\ spent = 0 /\ quiet = 0
        /\ queue \in Seq(Callers \X Nat) /\ current = <<>>
    BY EmptyChannel DEF Init
  <1>3. /\ caller \in [Callers -> {"idle", "sent", "waiting"}]
        /\ outcome \in [Callers -> Outcomes]
        /\ {calls, replied, age} \subseteq [Callers -> Nat]
    BY DEF Init, Outcomes
  <1> QED
    BY <1>1, <1>2, <1>3 DEF TypeOK, ThreadSteps

LEMMA TypeStep == TypeOK /\ [Next]_vars => TypeOK'
  <1> SUFFICES ASSUME TypeOK, [Next]_vars PROVE TypeOK'
    OBVIOUS
  <1>0. FlagsOK' /\ blocked' \subseteq Callers \X Nat
    BY FlagsStep, BlockedStep DEF TypeOK
  <1>a. ASSUME NEW c \in Callers, Send(c) PROVE TypeOK'
    <2>1. calls' \in [Callers -> Nat] /\ age' \in [Callers -> Nat]
      BY <1>a DEF Send, TypeOK
    <2>2. <<c, calls'[c]>> \in Callers \X Nat
      BY <2>1
    <2>3. queue' \in Seq(Callers \X Nat)
      <3>1. queue' \in {queue, Append(queue, <<c, calls'[c]>>)}
        BY <1>a DEF Send
      <3>2. queue \in Seq(Callers \X Nat)
        BY DEF TypeOK
      <3>3. Append(queue, <<c, calls'[c]>>) \in Seq(Callers \X Nat)
        BY <2>2, <3>2, AppendTypes
      <3> QED
        BY <3>1, <3>2, <3>3
    <2>4. /\ caller' \in [Callers -> {"idle", "sent", "waiting"}]
          /\ outcome' \in [Callers -> Outcomes]
      BY <1>a DEF Send, Return, TypeOK, Outcomes
    <2> QED
      BY <1>0, <1>a, <2>1, <2>3, <2>4 DEF Send, TypeOK, thread
  <1>b. ASSUME NEW c \in Callers, Flag(c) PROVE TypeOK'
    BY <1>0, <1>b DEF Flag, TypeOK, thread
  <1>c. ASSUME NEW c \in Callers, Receive(c) PROVE TypeOK'
    BY <1>0, <1>c DEF Receive, Return, TypeOK, Outcomes, thread
  <1>d. CASE Top
    <2>1. pc' \in ThreadSteps \ {"work"} /\ spent' = 0
      BY <1>d, ConstantTypes DEF Top, Goto, ThreadSteps
    <2>2. queue' \in {<<>>, queue} /\ quiet' \in {0, quiet}
      BY <1>d DEF Top
    <2>3. queue' \in Seq(Callers \X Nat) /\ quiet' \in Nat
      <3>1. queue \in Seq(Callers \X Nat) /\ quiet \in Nat
        BY DEF TypeOK
      <3>2. quiet' \in Nat
        BY <2>2, <3>1
      <3>3. queue' \in Seq(Callers \X Nat)
        BY <2>2, <3>1, EmptyChannel
      <3> QED
        BY <3>2, <3>3
    <2>4. UNCHANGED <<current, clients, replied>>
      BY <1>d DEF Top
    <2> QED
      BY <1>0, <2>1, <2>3, <2>4 DEF TypeOK, clients
  <1>e. CASE Poll
    BY <1>0, <1>e DEF Poll, Goto, TypeOK, ThreadSteps, clients
  <1>f. CASE Clear
    BY <1>0, <1>f DEF Clear, Goto, TypeOK, ThreadSteps, clients
  <1>g. CASE Drain
    <2>1. CASE queue = <<>>
      BY <1>0, <1>g, <2>1 DEF Drain, Goto, TypeOK, ThreadSteps, clients
    <2>2. CASE queue # <<>>
      <3>1. Head(queue) \in Callers \X Nat /\ Tail(queue) \in Seq(Callers \X Nat)
        BY <2>2 DEF TypeOK
      <3>2. Head(queue) # <<>>
        BY <3>1
      <3>3. /\ pc' = "work" /\ spent' = 0
            /\ current' = Head(queue) /\ queue' = Tail(queue)
            /\ UNCHANGED <<clients, replied, quiet>>
        BY <1>g, <2>2 DEF Drain, Goto
      <3>4. /\ pc' \in ThreadSteps /\ {spent', quiet'} \subseteq Nat
            /\ queue' \in Seq(Callers \X Nat)
            /\ current' \in Callers \X Nat /\ current' # <<>>
        BY <3>1, <3>2, <3>3 DEF TypeOK, ThreadSteps
      <3>5. /\ caller' \in [Callers -> {"idle", "sent", "waiting"}]
            /\ outcome' \in [Callers -> Outcomes]
            /\ {calls', replied', age'} \subseteq [Callers -> Nat]
        BY <3>3 DEF TypeOK, clients
      <3> QED
        BY <1>0, <3>4, <3>5 DEF TypeOK
    <2> QED
      BY <2>1, <2>2
  <1>h. CASE Work
    <2>1. current[1] \in Callers /\ current[2] \in Nat
      BY <1>h DEF Work, TypeOK
    <2> QED
      BY <1>0, <1>h, <2>1 DEF Work, Goto, TypeOK, ThreadSteps, clients
  <1>i. CASE SleepOver
    BY <1>0, <1>i DEF SleepOver, Goto, TypeOK, ThreadSteps, clients
  <1>j. CASE HeldOver
    BY <1>0, <1>j DEF HeldOver, Goto, TypeOK, ThreadSteps, clients
  <1>k. CASE Stop
    BY <1>0, <1>k DEF Stop, TypeOK, thread, clients
  <1>l. CASE Tick
    BY <1>0, <1>l DEF Tick, TypeOK, Outcomes
  <1>m. CASE UNCHANGED vars
    BY <1>0, <1>m DEF vars, TypeOK, thread, clients
  <1> QED
    BY <1>a, <1>b, <1>c, <1>d, <1>e, <1>f, <1>g, <1>h, <1>i, <1>j, <1>k, <1>l, <1>m
       DEF Next, Thread, Relay

-----------------------------------------------------------------------------
(* In time: how long a call may still have to wait.                        *)

Entries == 1..Len(queue)
Pending(c) == caller[c] # "idle" /\ replied[c] # calls[c]
Present(e) == caller[e[1]] # "idle" /\ e[2] = calls[e[1]] /\ e \notin blocked

\* The channel is in the order of the calls, and holds what is not replied to.
Later(e) == replied[e[1]] < e[2] /\ e[2] <= calls[e[1]]
InOrder ==
    /\ \A c \in Callers : replied[c] <= calls[c] /\ calls[c] <= MaxCalls
    /\ \A i \in Entries : Later(queue[i])
    /\ \A i, j \in Entries : i < j /\ queue[i][1] = queue[j][1] => queue[i][2] < queue[j][2]
    /\ pc = "work" =>
         /\ Later(current)
         /\ \A i \in Entries : queue[i][1] = current[1] => current[2] < queue[i][2]

\* A call that is not replied to is in the channel or in hand, and a port held
\* by somebody else is no secret.
Steady ==
    /\ pc # "work" => current = <<>>
    /\ pc = "poll" => spent <= PollTicks
    /\ pc = "work" => spent <= RequestTicks
    /\ pc = "held" => UnderWay \subseteq blocked
    /\ pc = "gone" => queue = <<>>
NotForgotten ==
    pc # "gone" =>
        \A c \in Callers : Pending(c) =>
            \/ \E i \in Entries : queue[i] = <<c, calls[c]>>
            \/ current = <<c, calls[c]>>

Cost(n) == RequestTicks * n
Allowance(n) == PollTicks + Cost(n)

\* What comes before the channel is looked at, or before its next entry is.
Ahead ==
    IF pc \in {"top", "sleep"} THEN PollTicks
    ELSE IF pc = "poll" THEN PollTicks - spent
    ELSE IF pc = "work" THEN RequestTicks - spent
    ELSE 0

\* Room for one more among n.
FirstPlace == IF pc = "work" THEN 0 ELSE 1
Room(n) == Len(queue) - FirstPlace + 2 <= n

Timely(n) ==
    /\ \A i \in Entries : Present(queue[i]) => age[queue[i][1]] + Ahead + Cost(i) <= Allowance(n)
    /\ pc = "work" /\ Present(current) => age[current[1]] + Ahead <= Allowance(n)

\* What nobody waits for any more is what waited for a held port.
OnlyBlockedAreStale ==
    /\ \A i \in Entries : Present(queue[i]) \/ queue[i] \in blocked
    /\ pc = "work" => Present(current) \/ current \in blocked

RelayInv == InOrder /\ Steady /\ NotForgotten

LEMMA CostIsNat == ASSUME NEW n \in Nat PROVE Cost(n) \in Nat
BY ConstantTypes DEF Cost

LEMMA CostOfOne == Cost(0) = 0 /\ Cost(1) = RequestTicks
BY ConstantTypes DEF Cost

LEMMA CostOfNext == ASSUME NEW n \in Nat PROVE Cost(n + 1) = Cost(n) + RequestTicks
BY ConstantTypes DEF Cost

LEMMA CostGrows == ASSUME NEW m \in Nat, NEW n \in Nat, m <= n PROVE Cost(m) <= Cost(n)
<1>1. PICK k \in Nat : n = m + k
  <2>1. n - m \in Nat /\ n = m + (n - m)
    OBVIOUS
  <2> QED BY <2>1
<1>2. Cost(n) = Cost(m) + Cost(k)
  BY <1>1, ConstantTypes DEF Cost
<1> QED BY <1>2, CostIsNat

LEMMA EntriesAreCalls ==
    ASSUME TypeOK
    PROVE  /\ Len(queue) \in Nat
           /\ \A i \in Entries : /\ i \in Nat /\ 1 <= i /\ i <= Len(queue)
                                 /\ queue[i] \in Callers \X Nat
                                 /\ queue[i][1] \in Callers /\ queue[i][2] \in Nat
           /\ pc = "work" => /\ current \in Callers \X Nat
                             /\ current[1] \in Callers /\ current[2] \in Nat
BY DEF TypeOK, Entries

LEMMA CallersAre ==
    ASSUME TypeOK, NEW c \in Callers
    PROVE  calls[c] \in Nat /\ replied[c] \in Nat /\ age[c] \in Nat
BY DEF TypeOK

\* A call that is sent is the last in the channel.
LEMMA SendChannel ==
    ASSUME TypeOK, NEW c \in Callers, Send(c), pc # "gone"
    PROVE  /\ Len(queue') = Len(queue) + 1
           /\ queue'[Len(queue) + 1] = <<c, calls[c] + 1>>
           /\ \A i \in Entries : queue'[i] = queue[i]
           /\ \A i \in Entries' : i \in Entries \/ i = Len(queue) + 1
           /\ caller[c] = "idle" /\ caller' = [caller EXCEPT ![c] = "sent"]
           /\ calls' = [calls EXCEPT ![c] = @ + 1] /\ calls'[c] = calls[c] + 1
           /\ age' = [age EXCEPT ![c] = 0]
<1>1. queue \in Seq(Callers \X Nat) /\ calls'[c] = calls[c] + 1
  BY DEF Send, TypeOK
<1>2. queue' = Append(queue, <<c, calls[c] + 1>>)
  BY <1>1 DEF Send
<1> DEFINE e == <<c, calls[c] + 1>>
<1>3. e \in Callers \X Nat
  BY CallersAre
<1> HIDE DEF e
<1>4. /\ Len(Append(queue, e)) = Len(queue) + 1
      /\ Append(queue, e)[Len(queue) + 1] = e
      /\ \A i \in 1..Len(queue) : Append(queue, e)[i] = queue[i]
  BY <1>1, <1>3
<1>5. \A i \in 1..Len(queue') : i \in 1..Len(queue) \/ i = Len(queue) + 1
  BY <1>1, <1>2, <1>4 DEF e
<1> QED BY <1>1, <1>2, <1>4, <1>5 DEF Send, e, Entries

\* The first in the channel is taken in hand.
LEMMA DrainChannel ==
    ASSUME TypeOK, Drain, queue # <<>>
    PROVE  /\ 1 \in Entries /\ current' = queue[1] /\ pc' = "work" /\ spent' = 0
           /\ Len(queue') = Len(queue) - 1
           /\ \A i \in Entries' : i + 1 \in Entries /\ queue'[i] = queue[i + 1]
           /\ \A i \in Entries : i = 1 \/ (i - 1 \in Entries' /\ queue'[i - 1] = queue[i])
<1>1. queue \in Seq(Callers \X Nat) /\ queue' = Tail(queue) /\ current' = Head(queue)
  BY DEF TypeOK, Drain
<1>2. /\ Len(queue) \in Nat /\ Len(queue) >= 1 /\ Head(queue) = queue[1]
      /\ Len(Tail(queue)) = Len(queue) - 1
      /\ \A i \in 1..Len(Tail(queue)) : Tail(queue)[i] = queue[i + 1]
  BY <1>1
<1>3. \A i \in Entries : i \in Nat /\ 1 <= i /\ i <= Len(queue)
  BY <1>2 DEF Entries
<1>4. \A i \in Entries : i = 1 \/ i - 1 \in 1..Len(Tail(queue))
  BY <1>2, <1>3
<1>5. \A i \in Entries : i = 1 \/ Tail(queue)[i - 1] = queue[i]
  BY <1>2, <1>3, <1>4
<1> QED BY <1>1, <1>2, <1>4, <1>5 DEF Entries, Drain, Goto

-----------------------------------------------------------------------------

LEMMA RelayInit == Init => RelayInv
<1> SUFFICES ASSUME Init PROVE RelayInv OBVIOUS
<1>1. Entries = {}
  BY DEF Init, Entries
<1>2. InOrder
  BY <1>1, ConstantTypes DEF Init, InOrder
<1>3. Steady /\ NotForgotten
  BY DEF Init, Steady, NotForgotten, Pending
<1> QED BY <1>2, <1>3 DEF RelayInv

\* What leaves the channel and the numbers of the calls alone.
LEMMA OrderKept ==
    ASSUME InOrder, UNCHANGED <<queue, calls, replied>>, pc' # "work" \/ (pc = "work" /\ current' = current)
    PROVE  InOrder'
BY DEF InOrder, Entries, Later

LEMMA OrderStep == TypeOK /\ RelayInv /\ [Next]_vars => InOrder'
<1> SUFFICES ASSUME TypeOK, RelayInv, [Next]_vars PROVE InOrder' OBVIOUS
<1>0. InOrder /\ Steady
  BY DEF RelayInv
<1>a. ASSUME NEW c \in Callers, Send(c) PROVE InOrder'
  <2>1. CASE pc = "gone"
    <3>1. queue' = <<>> /\ pc' # "work"
      BY <1>0, <1>a, <2>1 DEF Steady, Send, thread
    <3>2. Entries' = {}
      BY <3>1 DEF Entries
    <3>3. \A d \in Callers : replied'[d] <= calls'[d] /\ calls'[d] <= MaxCalls
      <4>1. calls[c] < MaxCalls /\ calls' = [calls EXCEPT ![c] = @ + 1] /\ replied' = replied
        BY <1>a DEF Send
      <4>2. calls \in [Callers -> Nat] /\ replied \in [Callers -> Nat]
        BY DEF TypeOK
      <4>3. \A d \in Callers : replied[d] <= calls[d] /\ calls[d] <= MaxCalls
        BY <1>0 DEF InOrder
      <4> QED BY <4>1, <4>2, <4>3, ConstantTypes
    <3> QED BY <3>1, <3>2, <3>3 DEF InOrder
  <2>2. CASE pc # "gone"
    <3> DEFINE l == Len(queue) + 1
    <3>1. /\ queue'[l] = <<c, calls[c] + 1>> /\ calls'[c] = calls[c] + 1
          /\ \A i \in Entries : queue'[i] = queue[i]
          /\ \A i \in Entries' : i \in Entries \/ i = l
          /\ UNCHANGED <<pc, current, replied>> /\ calls[c] < MaxCalls
      BY <1>a, <2>2, SendChannel DEF Send, thread
    <3>2. \A d \in Callers : calls'[d] \in {calls[d], calls[d] + 1}
      BY <1>a, <2>2, SendChannel, CallersAre DEF TypeOK
    <3>3. \A d \in Callers : d # c => calls'[d] = calls[d]
      BY <1>a, <2>2, SendChannel, CallersAre DEF TypeOK
    <3>4. \A d \in Callers : replied'[d] <= calls'[d] /\ calls'[d] <= MaxCalls
      <4>1. \A d \in Callers : replied[d] <= calls[d] /\ calls[d] <= MaxCalls
        BY <1>0 DEF InOrder
      <4>2. \A d \in Callers : calls[d] \in Nat /\ replied[d] \in Nat
        BY CallersAre
      <4> QED BY <3>1, <3>2, <3>3, <4>1, <4>2, ConstantTypes
    <3>5. \A i \in Entries : /\ Later(queue[i]) /\ queue[i][1] \in Callers /\ queue[i][2] \in Nat
                             /\ i \in Nat /\ i < l
      BY <1>0, EntriesAreCalls DEF InOrder
    <3>6. \A e \in Callers \X Nat : Later(e) => Later(e)'
      <4> SUFFICES ASSUME NEW e \in Callers \X Nat, Later(e)
                   PROVE  Later(e)'
        OBVIOUS
      <4>1. e[1] \in Callers /\ e[2] \in Nat /\ calls[e[1]] \in Nat /\ calls'[e[1]] \in {calls[e[1]], calls[e[1]] + 1}
        BY <3>2, CallersAre
      <4> QED BY <4>1, <3>1 DEF Later
    <3>7. /\ queue'[l][1] = c /\ queue'[l][2] = calls[c] + 1 /\ calls[c] \in Nat
          /\ replied[c] \in Nat /\ replied[c] <= calls[c]
      BY <3>1, CallersAre, <1>0 DEF InOrder
    <3>8. replied'[queue'[l][1]] < queue'[l][2] /\ queue'[l][2] <= calls'[queue'[l][1]]
      BY <3>1, <3>7
    <3>9. \A i \in Entries' : Later(queue[i])'
      <4>1. \A i \in Entries : replied'[queue'[i][1]] < queue'[i][2] /\ queue'[i][2] <= calls'[queue'[i][1]]
        BY <3>1, <3>5, <3>6, EntriesAreCalls DEF Later
      <4> QED BY <3>1, <3>8, <4>1 DEF Later
    <3>10. \A i \in Entries : queue[i][1] = c => queue[i][2] < calls[c] + 1
      BY <3>5, <3>7 DEF Later
    <3>11. \A i, j \in Entries' : i < j /\ queue'[i][1] = queue'[j][1] => queue'[i][2] < queue'[j][2]
      <4> SUFFICES ASSUME NEW i \in Entries', NEW j \in Entries', i < j, queue'[i][1] = queue'[j][1]
                   PROVE  queue'[i][2] < queue'[j][2]
        OBVIOUS
      <4>1. Len(queue) \in Nat
        BY EntriesAreCalls
      <4>2. CASE j \in Entries
        <5>1. i \in Entries
          BY <3>1, <3>5, <4>1, <4>2
        <5> QED BY <3>1, <4>2, <5>1, <1>0 DEF InOrder
      <4>3. CASE j = l
        <5>1. i \in Entries
          BY <3>1, <4>1, <4>3
        <5> QED BY <3>1, <3>7, <3>10, <4>3, <5>1
      <4> QED BY <3>1, <4>2, <4>3
    <3>12. pc' = "work" => /\ Later(current)'
                           /\ \A i \in Entries' : queue'[i][1] = current'[1] => current'[2] < queue'[i][2]
      <4> SUFFICES ASSUME pc = "work"
                   PROVE  /\ Later(current)'
                          /\ \A i \in Entries' : queue'[i][1] = current[1] => current[2] < queue'[i][2]
        BY <3>1
      <4>1. /\ current \in Callers \X Nat /\ current[2] \in Nat /\ Later(current)
            /\ \A i \in Entries : queue[i][1] = current[1] => current[2] < queue[i][2]
        BY <1>0, EntriesAreCalls DEF InOrder
      <4>2. Later(current)'
        BY <3>1, <3>6, <4>1
      <4>3. current[1] = c => current[2] < calls[c] + 1
        BY <3>7, <4>1 DEF Later
      <4> QED BY <3>1, <3>7, <4>1, <4>2, <4>3
    <3> QED BY <3>4, <3>9, <3>11, <3>12 DEF InOrder
  <2> QED BY <2>1, <2>2
<1>b. ASSUME NEW c \in Callers, Flag(c) \/ Receive(c) PROVE InOrder'
  BY <1>0, <1>b, OrderKept DEF Flag, Receive, thread
<1>d. CASE Top
  <2>1. pc' # "work" /\ queue' \in {<<>>, queue} /\ UNCHANGED <<calls, replied>>
    BY <1>d, ConstantTypes DEF Top, Goto, clients
  <2>2. CASE queue' = queue
    BY <1>0, <2>1, <2>2, OrderKept
  <2>3. CASE queue' = <<>>
    <3>1. Entries' = {}
      BY <2>3 DEF Entries
    <3> QED BY <1>0, <2>1, <3>1 DEF InOrder
  <2> QED BY <2>1, <2>2, <2>3
<1>e. CASE Poll \/ Clear \/ SleepOver \/ HeldOver
  BY <1>0, <1>e, OrderKept DEF Poll, Clear, SleepOver, HeldOver, Goto, clients
<1>g. CASE Drain
  <2>1. CASE queue = <<>>
    BY <1>0, <1>g, <2>1, OrderKept DEF Drain, Goto, clients
  <2>2. CASE queue # <<>>
    <3>1. /\ 1 \in Entries /\ current' = queue[1]
          /\ \A i \in Entries' : i + 1 \in Entries /\ queue'[i] = queue[i + 1]
          /\ UNCHANGED <<calls, replied>>
      BY <1>g, <2>2, DrainChannel DEF Drain, clients
    <3>2. \A e : Later(e)' <=> Later(e)
      BY <3>1 DEF Later
    <3>3. Entries' \subseteq Nat /\ \A i \in Entries' : 1 <= i
      <4>1. Len(queue') \in Nat
        BY TypeStep DEF TypeOK
      <4> QED BY <4>1 DEF Entries
    <3>4. \A i, j \in Entries' : i < j /\ queue'[i][1] = queue'[j][1] => queue'[i][2] < queue'[j][2]
      <4> SUFFICES ASSUME NEW i \in Entries', NEW j \in Entries', i < j, queue'[i][1] = queue'[j][1]
                   PROVE  queue'[i][2] < queue'[j][2]
        OBVIOUS
      <4>1. i + 1 < j + 1
        BY <3>3
      <4> QED BY <3>1, <4>1, <1>0 DEF InOrder
    <3>5. \A i \in Entries' : queue'[i][1] = current'[1] => current'[2] < queue'[i][2]
      <4> SUFFICES ASSUME NEW i \in Entries', queue'[i][1] = current'[1]
                   PROVE  current'[2] < queue'[i][2]
        OBVIOUS
      <4>1. 1 < i + 1
        BY <3>3
      <4> QED BY <3>1, <4>1, <1>0 DEF InOrder
    <3> QED BY <1>0, <3>1, <3>2, <3>4, <3>5 DEF InOrder
  <2> QED BY <2>1, <2>2
<1>h. CASE Work
  <2>1. /\ pc = "work" /\ pc' = "drain" /\ UNCHANGED <<queue, calls>>
        /\ replied' = [replied EXCEPT ![current[1]] = current[2]]
    BY <1>h DEF Work, Goto, clients
  <2>2. /\ current[1] \in Callers /\ current[2] \in Nat /\ replied \in [Callers -> Nat]
    BY <2>1, EntriesAreCalls DEF TypeOK
  <2>3. /\ Later(current) /\ \A i \in Entries : queue[i][1] = current[1] => current[2] < queue[i][2]
    BY <1>0, <2>1 DEF InOrder
  <2>4. \A c \in Callers : replied'[c] = IF c = current[1] THEN current[2] ELSE replied[c]
    BY <2>1, <2>2
  <2>5. \A c \in Callers : replied'[c] <= calls'[c] /\ calls'[c] <= MaxCalls
    BY <1>0, <2>1, <2>3, <2>4 DEF InOrder, Later
  <2>6. \A i \in Entries : Later(queue[i])'
    BY <1>0, <2>1, <2>3, <2>4, EntriesAreCalls DEF InOrder, Later
  <2>7. Entries' = Entries
    BY <2>1 DEF Entries
  <2> QED BY <1>0, <2>1, <2>5, <2>6, <2>7 DEF InOrder
<1>k. CASE Stop
  BY <1>0, <1>k, OrderKept DEF Stop, thread, clients
<1>l. CASE Tick
  BY <1>0, <1>l, OrderKept DEF Tick
<1>m. CASE UNCHANGED vars
  BY <1>0, <1>m, OrderKept DEF vars, thread, clients
<1> QED
  BY <1>a, <1>b, <1>d, <1>e, <1>g, <1>h, <1>k, <1>l, <1>m DEF Next, Thread, Relay

LEMMA SteadyStep == TypeOK /\ RelayInv /\ [Next]_vars => Steady'
<1> SUFFICES ASSUME TypeOK, RelayInv, [Next]_vars PROVE Steady' OBVIOUS
<1>0. Steady /\ spent \in Nat
  BY DEF RelayInv, TypeOK
<1>a. ASSUME NEW c \in Callers, Send(c) PROVE Steady'
  <2>1. \A d \in Callers : d # c => caller'[d] = caller[d] /\ calls'[d] = calls[d]
    BY <1>a DEF Send, Return, TypeOK
  <2>2. pc = "held" => UnderWay' \subseteq blocked'
    BY <1>0, <1>a, <2>1 DEF Send, Steady, UnderWay
  <2> QED BY <1>0, <1>a, <2>2 DEF Send, Steady, thread
<1>b. ASSUME NEW c \in Callers, Flag(c) \/ Receive(c) PROVE Steady'
  <2>1. /\ \A d \in Callers : caller'[d] # "idle" => caller[d] # "idle"
        /\ UNCHANGED <<calls, blocked>>
    BY <1>b DEF Flag, Receive, Return, TypeOK
  <2>2. UnderWay' \subseteq UnderWay
    BY <2>1 DEF UnderWay
  <2> QED BY <1>0, <1>b, <2>1, <2>2 DEF Steady, Flag, Receive, thread
<1>d. CASE Top
  <2>1. /\ pc' # "work" /\ spent' = 0 /\ current' = <<>>
        /\ pc' = "gone" => queue' = <<>>
        /\ pc' = "held" => blocked' = blocked \cup UnderWay
    BY <1>0, <1>d, ConstantTypes DEF Top, Goto, Steady
  <2>2. UnderWay' = UnderWay
    BY <1>d DEF Top, UnderWay, clients
  <2> QED BY <1>0, <2>1, <2>2, ConstantTypes DEF Steady
<1>e. CASE Poll \/ Clear \/ SleepOver \/ HeldOver
  BY <1>0, <1>e DEF Poll, Clear, SleepOver, HeldOver, Goto, Steady
<1>g. CASE Drain
  BY <1>0, <1>g, ConstantTypes DEF Drain, Goto, Steady
<1>h. CASE Work
  BY <1>0, <1>h DEF Work, Goto, Steady
<1>k. CASE Stop
  BY <1>0, <1>k DEF Stop, Steady, UnderWay, thread, clients
<1>l. CASE Tick
  <2>1. /\ spent < Patience /\ spent' = IF pc = "gone" THEN 0 ELSE spent + 1
        /\ UNCHANGED <<pc, current, queue, caller, calls, blocked>>
    BY <1>l DEF Tick
  <2>2. (pc = "poll" => spent < PollTicks) /\ (pc = "work" => spent < RequestTicks)
    BY <2>1 DEF Patience
  <2>3. (pc = "poll" => spent' <= PollTicks) /\ (pc = "work" => spent' <= RequestTicks)
    BY <1>0, <2>1, <2>2, ConstantTypes
  <2> QED BY <1>0, <2>1, <2>3 DEF Steady, UnderWay
<1>m. CASE UNCHANGED vars
  BY <1>0, <1>m DEF vars, Steady, UnderWay, thread, clients
<1> QED
  BY <1>a, <1>b, <1>d, <1>e, <1>g, <1>h, <1>k, <1>l, <1>m DEF Next, Thread, Relay

LEMMA NotForgottenStep == TypeOK /\ RelayInv /\ [Next]_vars => NotForgotten'
<1> SUFFICES ASSUME TypeOK, RelayInv, [Next]_vars PROVE NotForgotten' OBVIOUS
<1>0. NotForgotten /\ Steady /\ InOrder
  BY DEF RelayInv
<1>u. ASSUME UNCHANGED <<queue, calls, replied>>, current' = current, pc' = "gone" => pc = "gone",
             \A d \in Callers : caller'[d] # "idle" => caller[d] # "idle",
             pc = "gone" => pc' = "gone"
      PROVE  NotForgotten'
  BY <1>0, <1>u DEF NotForgotten, Pending, Entries
<1>a. ASSUME NEW c \in Callers, Send(c) PROVE NotForgotten'
  <2>1. CASE pc = "gone"
    BY <1>a, <2>1 DEF Send, NotForgotten, thread
  <2>2. CASE pc # "gone"
    <3>1. /\ queue'[Len(queue) + 1] = <<c, calls'[c]>>
          /\ \A i \in Entries : queue'[i] = queue[i]
          /\ UNCHANGED <<pc, current, replied>>
      BY <1>a, <2>2, SendChannel DEF Send, thread
    <3>2. \A d \in Callers : d # c => caller'[d] = caller[d] /\ calls'[d] = calls[d]
      BY <1>a, <2>2, SendChannel DEF TypeOK
    <3>3. Entries \subseteq Entries' /\ Len(queue) + 1 \in Entries'
      <4>1. Len(queue) \in Nat /\ Len(queue') = Len(queue) + 1
        BY <1>a, <2>2, SendChannel, EntriesAreCalls
      <4> QED BY <4>1 DEF Entries
    <3>4. ASSUME NEW d \in Callers, Pending(d)'
          PROVE  \/ \E i \in Entries' : queue'[i] = <<d, calls'[d]>>
                 \/ current' = <<d, calls'[d]>>
      <4>1. CASE d = c
        BY <3>1, <3>3, <4>1
      <4>2. CASE d # c
        <5>1. Pending(d)
          BY <3>1, <3>2, <3>4, <4>2 DEF Pending
        <5>2. \/ \E i \in Entries : queue[i] = <<d, calls[d]>>
              \/ current = <<d, calls[d]>>
          BY <1>0, <2>2, <5>1 DEF NotForgotten
        <5> QED BY <3>1, <3>2, <3>3, <4>2, <5>2
      <4> QED BY <4>1, <4>2
    <3> QED BY <3>4 DEF NotForgotten
  <2> QED BY <2>1, <2>2
<1>b. ASSUME NEW c \in Callers, Flag(c) \/ Receive(c) PROVE NotForgotten'
  <2>1. \A d \in Callers : caller'[d] # "idle" => caller[d] # "idle"
    BY <1>b DEF Flag, Receive, Return, TypeOK
  <2> QED BY <1>b, <1>u, <2>1 DEF Flag, Receive, thread
<1>d. CASE Top
  <2>1. CASE stopping
    BY <1>d, <2>1 DEF Top, Goto, NotForgotten
  <2>2. CASE ~stopping
    <3>1. pc' # "gone" /\ pc # "gone" /\ UNCHANGED <<queue, calls, replied, current, caller>>
      BY <1>d, <2>2, ConstantTypes DEF Top, Goto, clients
    <3> QED BY <1>u, <3>1
  <2> QED BY <2>1, <2>2
<1>e. CASE Poll \/ Clear \/ SleepOver \/ HeldOver
  BY <1>e, <1>u DEF Poll, Clear, SleepOver, HeldOver, Goto, clients
<1>g. CASE Drain
  <2>1. CASE queue = <<>>
    BY <1>g, <1>u, <2>1 DEF Drain, Goto, clients
  <2>2. CASE queue # <<>>
    <3>1. /\ current' = queue[1] /\ UNCHANGED <<caller, calls, replied>> /\ pc = "drain"
          /\ \A i \in Entries : i = 1 \/ (i - 1 \in Entries' /\ queue'[i - 1] = queue[i])
      BY <1>g, <2>2, DrainChannel DEF Drain, clients
    <3>2. current = <<>>
      BY <1>0, <3>1 DEF Steady
    <3>3. ASSUME NEW d \in Callers, Pending(d)'
          PROVE  \/ \E i \in Entries' : queue'[i] = <<d, calls'[d]>>
                 \/ current' = <<d, calls'[d]>>
      <4>1. Pending(d)
        BY <3>1, <3>3 DEF Pending
      <4>2. PICK i \in Entries : queue[i] = <<d, calls[d]>>
        BY <1>0, <3>1, <3>2, <4>1 DEF NotForgotten
      <4> QED BY <3>1, <4>2
    <3> QED BY <3>3 DEF NotForgotten
  <2> QED BY <2>1, <2>2
<1>h. CASE Work
  <2>1. /\ pc = "work" /\ UNCHANGED <<queue, caller, calls>>
        /\ replied' = [replied EXCEPT ![current[1]] = current[2]]
    BY <1>h DEF Work, Goto, clients
  <2>2. /\ current \in Callers \X Nat /\ replied \in [Callers -> Nat] /\ calls \in [Callers -> Nat]
        /\ current[1] \in Callers /\ current[2] \in Nat
    BY <2>1, EntriesAreCalls DEF TypeOK
  <2>3. Later(current)
    BY <1>0, <2>1 DEF InOrder
  <2>4. ASSUME NEW d \in Callers, Pending(d)'
        PROVE  \E i \in Entries' : queue'[i] = <<d, calls'[d]>>
    <3>1. caller[d] # "idle" /\ replied'[d] # calls[d]
      BY <2>1, <2>4 DEF Pending
    <3>2. replied[d] # calls[d]
      <4>1. CASE d = current[1]
        BY <2>2, <2>3, <4>1 DEF Later
      <4>2. CASE d # current[1]
        BY <2>1, <2>2, <3>1, <4>2
      <4> QED BY <4>1, <4>2
    <3>3. current # <<d, calls[d]>>
      BY <2>1, <2>2, <3>1
    <3>4. \E i \in Entries : queue[i] = <<d, calls[d]>>
      BY <1>0, <2>1, <3>1, <3>2, <3>3 DEF NotForgotten, Pending
    <3> QED BY <2>1, <3>4 DEF Entries
  <2> QED BY <2>4 DEF NotForgotten
<1>k. CASE Stop
  BY <1>k, <1>u DEF Stop, thread, clients
<1>l. CASE Tick
  BY <1>l, <1>u DEF Tick
<1>m. CASE UNCHANGED vars
  BY <1>m, <1>u DEF vars, thread, clients
<1> QED
  BY <1>a, <1>b, <1>d, <1>e, <1>g, <1>h, <1>k, <1>l, <1>m DEF Next, Thread, Relay

LEMMA RelayStep == TypeOK /\ RelayInv /\ [Next]_vars => RelayInv'
BY OrderStep, SteadyStep, NotForgottenStep DEF RelayInv

-----------------------------------------------------------------------------

\* Nothing is late as long as what is in the channel and in hand can be done in time.
LEMMA TimelyInit == ASSUME NEW n \in Nat PROVE Init => Timely(n)
<1> SUFFICES ASSUME Init PROVE Timely(n) OBVIOUS
<1>1. Entries = {} /\ pc = "top"
  BY DEF Init, Entries
<1> QED BY <1>1 DEF Timely

LEMMA HeldIsBlocked ==
    ASSUME TypeOK, Steady, pc = "held" PROVE \A i \in Entries : ~Present(queue[i])
<1> SUFFICES ASSUME NEW i \in Entries, Present(queue[i]) PROVE FALSE
  OBVIOUS
<1>1. /\ queue[i] \in Callers \X Nat /\ queue[i][1] \in Callers
      /\ caller[queue[i][1]] # "idle" /\ queue[i][2] = calls[queue[i][1]] /\ queue[i] \notin blocked
  BY EntriesAreCalls DEF Present
<1>2. queue[i] = <<queue[i][1], calls[queue[i][1]]>>
  BY <1>1
<1>3. queue[i] \in UnderWay
  BY <1>1, <1>2 DEF UnderWay
<1> QED BY <1>1, <1>3 DEF Steady

LEMMA TimelyStep ==
    ASSUME NEW n \in Nat, TypeOK, TypeOK', NoLostWakeup, RelayInv, Timely(n), [Next]_vars,
           pc # "gone" /\ (\E c \in Callers : Send(c)) => Room(n)
    PROVE  Timely(n)'
<1>0. Steady /\ pc \in ThreadSteps /\ spent \in Nat /\ spent' \in Nat /\ caller \in [Callers -> {"idle", "sent", "waiting"}]
  BY DEF RelayInv, TypeOK
<1>x. \A i \in Nat : Cost(i) \in Nat /\ Cost(i + 1) = Cost(i) + RequestTicks
  BY CostIsNat, CostOfNext
<1>y. /\ \A i \in Entries : /\ i \in Nat /\ queue[i] \in Callers \X Nat /\ queue[i][1] \in Callers
                            /\ age[queue[i][1]] \in Nat
      /\ pc = "work" => current \in Callers \X Nat /\ current[1] \in Callers /\ age[current[1]] \in Nat
  BY EntriesAreCalls, CallersAre
<1>z. PollTicks \in Nat /\ RequestTicks \in Nat /\ Allowance(n) \in Nat
  BY ConstantTypes, CostIsNat DEF Allowance
\* What leaves the channel and the ages alone, and brings the thread no further away.
<1>u. ASSUME UNCHANGED <<queue, calls, age>>, Ahead' <= Ahead, Ahead' \in Nat, Ahead \in Nat,
             \A d \in Callers : caller'[d] # "idle" => caller[d] # "idle",
             blocked \subseteq blocked',
             pc' = "work" => pc = "work" /\ current' = current
      PROVE  Timely(n)'
  <2>1. \A e \in Callers \X Nat : Present(e)' => Present(e)
    BY <1>u DEF Present
  <2>2. Entries' = Entries
    BY <1>u DEF Entries
  <2>3. \A i \in Entries : Present(queue[i])' => age'[queue'[i][1]] + Ahead' + Cost(i) <= Allowance(n)
    <3> SUFFICES ASSUME NEW i \in Entries, Present(queue[i])'
                 PROVE  age[queue[i][1]] + Ahead' + Cost(i) <= Allowance(n)
      BY <1>u
    <3>1. Present(queue[i])
      BY <1>u, <1>y, <2>1
    <3>2. age[queue[i][1]] + Ahead + Cost(i) <= Allowance(n)
      BY <3>1 DEF Timely
    <3> QED BY <1>u, <1>x, <1>y, <1>z, <3>2
  <2>4. pc' = "work" /\ Present(current)' => age'[current'[1]] + Ahead' <= Allowance(n)
    <3> SUFFICES ASSUME pc' = "work", Present(current)' PROVE age[current[1]] + Ahead' <= Allowance(n)
      BY <1>u
    <3>1. pc = "work" /\ Present(current)
      BY <1>u, <1>y, <2>1
    <3>2. age[current[1]] + Ahead <= Allowance(n)
      BY <3>1 DEF Timely
    <3> QED BY <1>u, <1>y, <1>z, <3>1, <3>2
  <2> QED BY <2>2, <2>3, <2>4 DEF Timely
<1>a. ASSUME NEW c \in Callers, Send(c) PROVE Timely(n)'
  <2>1. CASE pc = "gone"
    <3>1. queue' = <<>> /\ pc' # "work"
      BY <1>0, <1>a, <2>1 DEF Steady, Send, thread
    <3>2. Entries' = {}
      BY <3>1 DEF Entries
    <3> QED BY <3>1, <3>2 DEF Timely
  <2>2. CASE pc # "gone"
    <3>0. PICK l \in Nat : l = Len(queue) + 1
      BY EntriesAreCalls
    <3>1. /\ queue'[l] = <<c, calls[c] + 1>> /\ Len(queue') = l
          /\ \A i \in Entries : queue'[i] = queue[i]
          /\ \A i \in Entries' : i \in Entries \/ i = l
          /\ UNCHANGED <<pc, spent, current>> /\ caller[c] = "idle"
          /\ calls'[c] = calls[c] + 1 /\ calls[c] \in Nat
      BY <1>a, <2>2, <3>0, SendChannel, CallersAre DEF Send, thread
    <3>a. blocked \subseteq blocked'
      BY <1>a DEF Send
    <3>b. /\ age \in [Callers -> Nat] /\ calls \in [Callers -> Nat]
          /\ age' = [age EXCEPT ![c] = 0] /\ calls' = [calls EXCEPT ![c] = @ + 1]
          /\ caller' = [caller EXCEPT ![c] = "sent"]
      BY <1>a, <2>2, SendChannel DEF TypeOK
    <3>2. \A d \in Callers : d # c => caller'[d] = caller[d] /\ calls'[d] = calls[d] /\ age'[d] = age[d]
      BY <1>0, <3>b
    <3>3. age'[c] = 0 /\ calls'[c] = calls[c] + 1
      BY <3>1, <3>b
    <3>4. Ahead' = Ahead
      BY <3>1 DEF Ahead
    <3>5. \A e \in Callers \X Nat : Later(e) /\ Present(e)' => e[1] # c /\ Present(e)
      <4> SUFFICES ASSUME NEW e \in Callers \X Nat, Later(e), Present(e)' PROVE e[1] # c /\ Present(e)
        OBVIOUS
      <4>1. e[1] \in Callers /\ e[2] \in Nat
        OBVIOUS
      <4>2. e[1] # c
        BY <3>1, <3>3, <4>1 DEF Later, Present
      <4> QED BY <3>2, <3>a, <4>1, <4>2 DEF Present
    <3>6. /\ \A i \in Entries : Later(queue[i])
          /\ pc = "work" => Later(current)
      BY DEF RelayInv, InOrder
    <3>7. \A i \in Entries : Present(queue[i])' => age'[queue'[i][1]] + Ahead' + Cost(i) <= Allowance(n)
      <4> SUFFICES ASSUME NEW i \in Entries, Present(queue[i])'
                   PROVE  age'[queue'[i][1]] + Ahead + Cost(i) <= Allowance(n)
        BY <3>4
      <4>1. queue[i][1] # c /\ Present(queue[i]) /\ queue'[i] = queue[i]
        BY <1>y, <3>1, <3>5, <3>6
      <4> QED BY <1>y, <3>2, <4>1 DEF Timely
    <3>8. age'[queue'[l][1]] + Ahead' + Cost(l) <= Allowance(n)
      <4>1. age'[queue'[l][1]] = 0
        BY <3>1, <3>3
      <4>2. Ahead + Cost(l) <= Allowance(n)
        <5>1. CASE pc = "work"
          <6>1. l + 1 <= n
            BY <1>a, <2>2, <3>0, <5>1, EntriesAreCalls DEF Room, FirstPlace
          <6>2. Cost(l + 1) <= Cost(n) /\ Cost(l + 1) = Cost(l) + RequestTicks
            BY <3>1, <6>1, CostGrows, CostOfNext
          <6>3. Ahead <= RequestTicks /\ Ahead \in Int
            BY <1>0, <1>z, <5>1 DEF Ahead, Steady
          <6>4. Cost(l) \in Nat /\ Cost(n) \in Nat /\ PollTicks \in Nat /\ RequestTicks \in Nat
            BY <1>z, CostIsNat
          <6> QED BY <6>2, <6>3, <6>4 DEF Allowance
        <5>2. CASE pc # "work"
          <6>1. l <= n
            BY <1>a, <2>2, <3>0, <5>2, EntriesAreCalls DEF Room, FirstPlace
          <6>2. Cost(l) <= Cost(n)
            BY <3>1, <6>1, CostGrows
          <6>3. Ahead <= PollTicks /\ Ahead \in Int
            BY <1>0, <1>z, <5>2 DEF Ahead, Steady
          <6>4. Cost(l) \in Nat /\ Cost(n) \in Nat /\ PollTicks \in Nat /\ RequestTicks \in Nat
            BY <1>z, CostIsNat
          <6> QED BY <6>2, <6>3, <6>4 DEF Allowance
        <5> QED BY <5>1, <5>2
      <4>3. Ahead \in Int
        BY <1>0, <1>z DEF Ahead
      <4> QED BY <1>x, <3>1, <3>4, <4>1, <4>2, <4>3
    <3>9. pc' = "work" /\ Present(current)' => age'[current'[1]] + Ahead' <= Allowance(n)
      <4> SUFFICES ASSUME pc = "work", Present(current)' PROVE age'[current[1]] + Ahead <= Allowance(n)
        BY <3>1, <3>4
      <4>1. current[1] # c /\ Present(current)
        <5>1. current \in Callers \X Nat /\ current' = current
          BY <1>y, <3>1
        <5> QED BY <5>1, <3>5, <3>6 DEF Present
      <4> QED BY <1>y, <3>2, <4>1 DEF Timely
    <3> QED BY <3>1, <3>7, <3>8, <3>9 DEF Timely
  <2> QED BY <2>1, <2>2
<1>v. Ahead \in Nat
  BY <1>0, <1>z DEF Ahead, Steady
<1>b. ASSUME NEW c \in Callers, Flag(c) \/ Receive(c) PROVE Timely(n)'
  <2>1. \A d \in Callers : caller'[d] # "idle" => caller[d] # "idle"
    BY <1>0, <1>b DEF Flag, Receive, Return
  <2>2. UNCHANGED <<pc, spent, current, queue, calls, age, blocked>>
    BY <1>b DEF Flag, Receive, thread
  <2>3. Ahead' = Ahead
    BY <2>2 DEF Ahead
  <2> QED BY <1>u, <1>v, <2>1, <2>2, <2>3
<1>d. CASE Top
  <2>1. CASE stopping
    <3>1. queue' = <<>> /\ pc' = "gone"
      BY <1>d, <2>1 DEF Top, Goto
    <3>2. Entries' = {}
      BY <3>1 DEF Entries
    <3> QED BY <3>1, <3>2 DEF Timely
  <2>2. CASE ~stopping
    <3>1. /\ pc = "top" /\ pc' \in {"poll", "clear", "held"} /\ spent' = 0
          /\ UNCHANGED <<queue, caller, calls, age>> /\ blocked \subseteq blocked'
      BY <1>d, <2>2, ConstantTypes DEF Top, Goto, clients
    <3>2. Ahead' <= Ahead /\ Ahead' \in Nat
      BY <1>z, <3>1 DEF Ahead
    <3> QED BY <1>u, <1>v, <3>1, <3>2
  <2> QED BY <2>1, <2>2
<1>e. CASE Poll \/ Clear
  <2>1. /\ pc' \in {"clear", "drain"} /\ UNCHANGED <<queue, caller, calls, age, blocked>>
    BY <1>e DEF Poll, Clear, Goto, clients
  <2>2. Ahead' = 0
    BY <2>1 DEF Ahead
  <2> QED BY <1>u, <1>v, <2>1, <2>2
<1>f. CASE SleepOver
  <2>1. /\ pc = "sleep" /\ pc' = "top" /\ UNCHANGED <<queue, caller, calls, age, blocked>>
    BY <1>f DEF SleepOver, Goto, clients
  <2>2. Ahead' = Ahead
    BY <2>1 DEF Ahead
  <2> QED BY <1>u, <1>v, <2>1, <2>2
<1>i. CASE HeldOver
  <2>1. /\ pc = "held" /\ pc' = "top" /\ UNCHANGED <<queue, caller, calls, blocked>>
    BY <1>i DEF HeldOver, Goto, clients
  <2>3. \A i \in Entries : ~Present(queue[i])
    BY <1>0, <2>1, HeldIsBlocked
  <2>4. Entries' = Entries /\ \A i \in Entries : ~Present(queue[i])'
    BY <2>1, <2>3 DEF Entries, Present
  <2> QED BY <2>1, <2>4 DEF Timely
<1>g. CASE Drain
  <2>1. CASE queue = <<>>
    <3>1. Entries' = {} /\ pc' = "sleep"
      BY <1>g, <2>1 DEF Drain, Goto, Entries
    <3> QED BY <3>1 DEF Timely
  <2>2. CASE queue # <<>>
    <3>1. /\ 1 \in Entries /\ current' = queue[1] /\ pc' = "work" /\ spent' = 0 /\ pc = "drain"
          /\ \A i \in Entries' : i + 1 \in Entries /\ queue'[i] = queue[i + 1]
          /\ UNCHANGED <<caller, calls, age, blocked>>
      BY <1>g, <2>2, DrainChannel DEF Drain, clients
    <3>2. Ahead' = RequestTicks /\ Ahead = 0
      BY <1>z, <3>1 DEF Ahead
    <3>3. \A e : Present(e)' <=> Present(e)
      BY <3>1 DEF Present
    <3>4. ASSUME NEW i \in Entries', Present(queue[i])'
          PROVE  age'[queue'[i][1]] + Ahead' + Cost(i) <= Allowance(n)
      <4>1. i \in Nat
        BY EntriesAreCalls, <3>1 DEF Entries
      <4>2. i + 1 \in Entries /\ queue'[i] = queue[i + 1] /\ Present(queue[i + 1])
        BY <3>1, <3>3, <3>4
      <4>3. age[queue[i + 1][1]] + Ahead + Cost(i + 1) <= Allowance(n) /\ age[queue[i + 1][1]] \in Nat
        BY <1>y, <4>2 DEF Timely
      <4> QED BY <1>x, <1>z, <3>1, <3>2, <4>1, <4>2, <4>3
    <3>5. Present(current)' => age'[current'[1]] + Ahead' <= Allowance(n)
      <4> SUFFICES ASSUME Present(queue[1]) PROVE age[queue[1][1]] + RequestTicks <= Allowance(n)
        BY <3>1, <3>2, <3>3 DEF Present
      <4>1. age[queue[1][1]] + Ahead + Cost(1) <= Allowance(n) /\ age[queue[1][1]] \in Nat
        BY <1>y, <3>1 DEF Timely
      <4> QED BY <1>z, <3>2, <4>1, CostOfOne
    <3> QED BY <3>4, <3>5 DEF Timely
  <2> QED BY <2>1, <2>2
<1>h. CASE Work
  <2>1. /\ pc' = "drain" /\ UNCHANGED <<queue, caller, calls, age, blocked>>
    BY <1>h DEF Work, Goto, clients
  <2>2. Ahead' = 0
    BY <2>1 DEF Ahead
  <2> QED BY <1>u, <1>v, <2>1, <2>2
<1>k. CASE Stop
  <2>1. UNCHANGED <<pc, spent, current, queue, caller, calls, age, blocked>>
    BY <1>k DEF Stop, thread, clients
  <2>2. Ahead' = Ahead
    BY <2>1 DEF Ahead
  <2> QED BY <1>u, <1>v, <2>1, <2>2
<1>l. CASE Tick
  <2>1. /\ spent < Patience /\ UNCHANGED <<pc, current, queue, caller, calls, blocked>>
        /\ spent' = IF pc = "gone" THEN 0 ELSE spent + 1
        /\ age' = [c \in Callers |-> IF caller[c] = "idle" THEN 0 ELSE age[c] + 1]
        /\ \A c \in Callers : Prompt(c)
    BY <1>l DEF Tick
  <2>2. CASE pc \in {"poll", "work"}
    <3>1. Ahead' + 1 = Ahead /\ Ahead' \in Int
      <4>1. spent' = spent + 1 /\ pc' = pc
        BY <2>1, <2>2
      <4> QED BY <1>0, <1>z, <2>2, <4>1 DEF Ahead
    <3>2. \A d \in Callers : caller[d] # "idle" => age'[d] = age[d] + 1
      BY <2>1
    <3>3. \A e : Present(e)' <=> Present(e)
      BY <2>1 DEF Present
    <3>4. ASSUME NEW i \in Entries, Present(queue[i])
          PROVE  age'[queue[i][1]] + Ahead' + Cost(i) <= Allowance(n)
      <4>1. age[queue[i][1]] + Ahead + Cost(i) <= Allowance(n) /\ age[queue[i][1]] \in Nat /\ i \in Nat
        BY <1>y, <3>4 DEF Timely
      <4>2. age'[queue[i][1]] = age[queue[i][1]] + 1
        BY <1>y, <3>2, <3>4 DEF Present
      <4> QED BY <1>x, <1>z, <3>1, <4>1, <4>2
    <3>5. ASSUME pc = "work", Present(current)
          PROVE  age'[current[1]] + Ahead' <= Allowance(n)
      <4>1. age[current[1]] + Ahead <= Allowance(n) /\ age[current[1]] \in Nat
        BY <1>y, <3>5 DEF Timely
      <4>2. age'[current[1]] = age[current[1]] + 1
        BY <1>y, <3>2, <3>5 DEF Present
      <4> QED BY <1>z, <3>1, <4>1, <4>2
    <3>6. Entries' = Entries
      BY <2>1 DEF Entries
    <3> QED BY <2>1, <3>3, <3>4, <3>5, <3>6 DEF Timely
  <2>3. CASE pc = "sleep"
    <3>1. queue = <<>>
      <4>1. \A c \in Callers : caller[c] # "sent"
        BY <2>1 DEF Prompt
      <4>2. ~waiting
        BY <1>0, <2>1, <2>3 DEF Patience
      <4> QED BY <2>3, <4>1, <4>2 DEF NoLostWakeup
    <3>2. Entries' = {} /\ pc' # "work"
      BY <2>1, <2>3, <3>1 DEF Entries
    <3> QED BY <3>2 DEF Timely
  <2>4. CASE pc = "held"
    <3>2. \A i \in Entries : ~Present(queue[i])
      BY <1>0, <2>4, HeldIsBlocked
    <3>3. Entries' = Entries /\ pc' # "work" /\ \A i \in Entries : ~Present(queue[i])'
      BY <2>1, <2>4, <3>2 DEF Entries, Present
    <3> QED BY <3>3 DEF Timely
  <2>5. CASE pc = "gone"
    <3>1. Entries' = {} /\ pc' # "work"
      BY <1>0, <2>1, <2>5 DEF Entries, Steady
    <3> QED BY <3>1 DEF Timely
  <2>6. CASE pc \in {"top", "clear", "drain"}
    BY <1>0, <2>1, <2>6 DEF Patience
  <2> QED BY <1>0, <2>2, <2>3, <2>4, <2>5, <2>6 DEF ThreadSteps
<1>m. CASE UNCHANGED vars
  <2>1. UNCHANGED <<pc, spent, current, queue, caller, calls, age, blocked>>
    BY <1>m DEF vars, thread, clients
  <2>2. Ahead' = Ahead
    BY <2>1 DEF Ahead
  <2> QED BY <1>u, <1>v, <2>1, <2>2
<1> QED
  BY <1>a, <1>b, <1>d, <1>e, <1>f, <1>g, <1>h, <1>i, <1>k, <1>l, <1>m DEF Next, Thread, Relay

\* A caller that gives up on a call that was never blocked has waited longer
\* than the allowance.
LEMMA TimeIsEnough ==
    ASSUME NEW n \in Nat, Allowance(n) < AnswerTimeout, TypeOK, RelayInv, Timely(n),
           NEW c \in Callers, Receive(c), outcome'[c] = "timeout"
    PROVE  <<c, calls[c]>> \in blocked
<1> SUFFICES ASSUME <<c, calls[c]>> \notin blocked PROVE FALSE
  OBVIOUS
<1>1. /\ caller[c] = "waiting" /\ replied[c] # calls[c] /\ pc # "gone" /\ age[c] >= AnswerTimeout
  BY DEF Receive, Return, TypeOK
<1>2. Pending(c) /\ Present(<<c, calls[c]>>)
  BY <1>1 DEF Pending, Present
<1>a. Cost(n) \in Nat
  BY CostIsNat
<1>3. /\ age[c] \in Nat /\ AnswerTimeout \in Nat /\ PollTicks \in Nat /\ RequestTicks \in Nat
      /\ Allowance(n) \in Nat /\ spent \in Nat
  <2>1. AnswerTimeout \in Nat /\ PollTicks \in Nat /\ RequestTicks \in Nat
    BY ConstantTypes
  <2>2. Allowance(n) \in Nat
    BY <1>a, <2>1 DEF Allowance
  <2>3. age[c] \in Nat
    BY CallersAre
  <2>4. spent \in Nat
    BY DEF TypeOK
  <2> QED BY <2>1, <2>2, <2>3, <2>4
<1>4. Ahead \in Nat
  BY <1>3 DEF Ahead, RelayInv, Steady
<1>5. CASE \E i \in Entries : queue[i] = <<c, calls[c]>>
  <2>1. PICK i \in Entries : queue[i] = <<c, calls[c]>>
    BY <1>5
  <2>2. age[c] + Ahead + Cost(i) <= Allowance(n)
    BY <1>2, <2>1 DEF Timely
  <2>3. Cost(i) \in Nat
    BY CostIsNat, EntriesAreCalls
  <2> QED BY <1>1, <1>3, <1>4, <2>2, <2>3
<1>6. CASE current = <<c, calls[c]>>
  <2>1. pc = "work"
    BY <1>6 DEF RelayInv, Steady
  <2>2. age[c] + Ahead <= Allowance(n)
    BY <1>2, <1>6, <2>1 DEF Timely
  <2> QED BY <1>1, <1>3, <1>4, <2>2
<1> QED BY <1>1, <1>2, <1>5, <1>6 DEF RelayInv, NotForgotten

\* Nobody else changes what a call came to.
LEMMA OutcomeStep ==
    ASSUME TypeOK, [Next]_vars, NEW c \in Callers, outcome'[c] = "timeout"
    PROVE  \/ Receive(c)
           \/ caller'[c] = caller[c] /\ calls'[c] = calls[c] /\ outcome[c] = "timeout"
           \/ caller'[c] # "idle" /\ outcome[c] = "timeout"
<1>0. /\ caller \in [Callers -> {"idle", "sent", "waiting"}] /\ outcome \in [Callers -> Outcomes]
      /\ calls \in [Callers -> Nat]
  BY DEF TypeOK
<1>1. ASSUME NEW d \in Callers, Send(d) PROVE
         \/ caller'[c] = caller[c] /\ calls'[c] = calls[c] /\ outcome[c] = "timeout"
         \/ caller'[c] # "idle" /\ outcome[c] = "timeout"
  BY <1>0, <1>1 DEF Send, Return
<1>2. ASSUME NEW d \in Callers, Flag(d) PROVE
         \/ caller'[c] = caller[c] /\ calls'[c] = calls[c] /\ outcome[c] = "timeout"
         \/ caller'[c] # "idle" /\ outcome[c] = "timeout"
  BY <1>0, <1>2 DEF Flag
<1>3. ASSUME NEW d \in Callers, Receive(d), d # c PROVE
         caller'[c] = caller[c] /\ calls'[c] = calls[c] /\ outcome[c] = "timeout"
  BY <1>0, <1>3 DEF Receive, Return
<1>4. CASE UNCHANGED clients
  BY <1>4 DEF clients
<1>5. CASE Tick
  BY <1>5 DEF Tick
<1> QED
  BY <1>1, <1>2, <1>3, <1>4, <1>5 DEF Next, Thread, Relay, Top, Poll, Clear, Drain, Work, SleepOver,
     HeldOver, Stop, vars

LEMMA BlockedGrows == [Next]_vars => blocked \subseteq blocked'
BY DEF Next, Thread, Relay, Send, Flag, Receive, Top, Poll, Clear, Drain, Work, SleepOver, HeldOver,
       Stop, Tick, vars

LEMMA InTimeStep ==
    ASSUME NEW n \in Nat, Allowance(n) < AnswerTimeout, TypeOK, RelayInv, Timely(n),
           AnsweredInTime, [Next]_vars
    PROVE  AnsweredInTime'
<1> SUFFICES ASSUME NEW c \in Callers, caller'[c] = "idle", outcome'[c] = "timeout"
             PROVE  <<c, calls'[c]>> \in blocked'
  BY DEF AnsweredInTime
<1>1. CASE Receive(c)
  BY <1>1, TimeIsEnough DEF Receive
<1>2. CASE caller'[c] = caller[c] /\ calls'[c] = calls[c] /\ outcome[c] = "timeout"
  BY <1>2, BlockedGrows DEF AnsweredInTime
<1> QED BY <1>1, <1>2, OutcomeStep

-----------------------------------------------------------------------------
(* How many there are to be done.                                          *)

LEMMA RoomFor ==
    ASSUME TypeOK, NEW S, IsFiniteSet(S), NEW x \in S,
           NEW f \in [FirstPlace..Len(queue) -> S \ {x}],
           \A i, j \in FirstPlace..Len(queue) : i < j => f[i] # f[j]
    PROVE  Room(Cardinality(S))
<1> DEFINE D == FirstPlace..Len(queue)
<1>1. Len(queue) \in Nat /\ FirstPlace \in {0, 1}
  BY EntriesAreCalls DEF FirstPlace
<1>2. IsFiniteSet(D) /\ Cardinality(D) = Len(queue) - FirstPlace + 1
  <2>1. IsFiniteSet(D) /\ Cardinality(D) = IF FirstPlace > Len(queue) THEN 0 ELSE Len(queue) - FirstPlace + 1
    BY <1>1, FS_Interval
  <2> QED BY <1>1, <2>1
<1>3. /\ IsFiniteSet(S \ {x}) /\ Cardinality(S \ {x}) = Cardinality(S) - 1
      /\ Cardinality(S) \in Nat /\ Cardinality(S \ {x}) \in Nat
  BY FS_RemoveElement, FS_CardinalityType
<1>4. D \subseteq Int /\ f \in [D -> S \ {x}] /\ \A i, j \in D : i < j => f[i] # f[j]
  BY <1>1
<1> HIDE DEF D
<1>5. ~(Cardinality(S \ {x}) < Cardinality(D))
  <2> SUFFICES ASSUME Cardinality(S \ {x}) < Cardinality(D) PROVE FALSE
    OBVIOUS
  <2>0. \E i, j \in D : i # j /\ f[i] = f[j]
    <3> DEFINE T == S \ {x}
    <3>1. /\ IsFiniteSet(D) /\ IsFiniteSet(T) /\ Cardinality(T) < Cardinality(D)
          /\ f \in [D -> T]
      BY <1>2, <1>3, <1>4
    <3> HIDE DEF T
    <3> QED BY <3>1, FS_PigeonHole, Zenon
  <2>1. PICK i \in D, j \in D : i # j /\ f[i] = f[j]
    BY <2>0
  <2>2. i < j \/ j < i
    BY <1>4, <2>1
  <2> QED BY <1>4, <2>1, <2>2
<1> QED BY <1>1, <1>2, <1>3, <1>5 DEF Room

LEMMA Places ==
    ASSUME TypeOK, NEW i \in FirstPlace..Len(queue)
    PROVE  (i = 0 /\ pc = "work") \/ i \in Entries
BY EntriesAreCalls DEF FirstPlace, Entries

EntryAt(i) == IF i = 0 THEN current ELSE queue[i]

LEMMA EntriesApart ==
    ASSUME TypeOK, InOrder
    PROVE  /\ \A i \in FirstPlace..Len(queue) :
                /\ EntryAt(i) \in Callers \X Nat /\ Later(EntryAt(i))
                /\ (i = 0 /\ pc = "work" /\ EntryAt(i) = current) \/ (i \in Entries /\ EntryAt(i) = queue[i])
           /\ \A i, j \in FirstPlace..Len(queue) :
                i < j /\ EntryAt(i)[1] = EntryAt(j)[1] => EntryAt(i)[2] < EntryAt(j)[2]
<1>1. \A i \in Entries : i \in Nat /\ i > 0 /\ queue[i] \in Callers \X Nat
  BY EntriesAreCalls
<1>2. \A i \in FirstPlace..Len(queue) :
        (i = 0 /\ pc = "work" /\ EntryAt(i) = current) \/ (i \in Entries /\ EntryAt(i) = queue[i])
  BY <1>1, Places DEF EntryAt
<1>3. \A i \in FirstPlace..Len(queue) : EntryAt(i) \in Callers \X Nat /\ Later(EntryAt(i))
  BY <1>1, <1>2, EntriesAreCalls DEF InOrder
<1>4. ASSUME NEW i \in FirstPlace..Len(queue), NEW j \in FirstPlace..Len(queue), i < j,
             EntryAt(i)[1] = EntryAt(j)[1]
      PROVE  EntryAt(i)[2] < EntryAt(j)[2]
  <2>1. j \in Entries /\ EntryAt(j) = queue[j]
    BY <1>1, <1>2, <1>4
  <2>2. CASE i \in Entries /\ EntryAt(i) = queue[i]
    BY <1>4, <2>1, <2>2 DEF InOrder
  <2>3. CASE pc = "work" /\ EntryAt(i) = current
    BY <1>4, <2>1, <2>3 DEF InOrder
  <2> QED BY <1>2, <2>2, <2>3
<1> QED BY <1>2, <1>3, <1>4

LEMMA CallSet ==
    ASSUME IsFiniteSet(Callers), NEW f \in [Callers -> Nat]
    PROVE  /\ IsFiniteSet({<<d, f[d]>> : d \in Callers})
           /\ Cardinality({<<d, f[d]>> : d \in Callers}) <= Cardinality(Callers)
<1> DEFINE T == {<<d, f[d]>> : d \in Callers}
           g == [e \in T |-> e[1]]
<1>0. \A e \in T : e[1] \in Callers /\ e = <<e[1], f[e[1]]>>
  OBVIOUS
<1> HIDE DEF T
<1>1. g \in [T -> Callers] /\ \A a, b \in T : g[a] = g[b] => a = b
  BY <1>0
<1> HIDE DEF g
<1>2. g \in Injection(T, Callers)
  BY <1>1 DEF Injection, IsInjective
<1>3. IsFiniteSet(T) /\ Cardinality(T) <= Cardinality(Callers)
  BY <1>2, FS_Injection
<1> QED BY <1>3 DEF T

LEMMA UnderWayIsFinite ==
    ASSUME IsFiniteSet(Callers), TypeOK PROVE IsFiniteSet(UnderWay)
<1> DEFINE T == {<<d, calls[d]>> : d \in Callers}
<1>1. calls \in [Callers -> Nat]
  BY DEF TypeOK
<1>2. IsFiniteSet(T)
  BY <1>1, CallSet
<1>3. UnderWay \subseteq T
  BY DEF UnderWay
<1> HIDE DEF T
<1> QED BY <1>2, <1>3, FS_Subset

LEMMA BlockedIsFinite ==
    ASSUME IsFiniteSet(Callers), TypeOK, IsFiniteSet(blocked), [Next]_vars
    PROVE  IsFiniteSet(blocked')
<1>1. \/ blocked' = blocked \/ blocked' = blocked \cup UnderWay
      \/ \E e : blocked' = blocked \cup {e}
  BY DEF Next, Thread, Relay, Send, Flag, Receive, Top, Poll, Clear, Drain, Work, SleepOver, HeldOver,
         Stop, Tick, vars
<1>2. IsFiniteSet(UnderWay)
  BY UnderWayIsFinite
<1>3. CASE blocked' = blocked \cup UnderWay
  BY <1>2, <1>3, FS_Union
<1>4. CASE \E e : blocked' = blocked \cup {e}
  BY <1>4, FS_AddElement
<1> QED BY <1>1, <1>3, <1>4

\* Of the calls before the thread, one of each caller is waited for, and the
\* others met a held port.
LEMMA RoomByCallers ==
    ASSUME IsFiniteSet(Callers), IsFiniteSet(blocked), NEW k \in Nat, Cardinality(blocked) <= k,
           TypeOK, RelayInv, OnlyBlockedAreStale, NEW c \in Callers, Send(c)
    PROVE  Room(Cardinality(Callers) + k)
<1> DEFINE g == [d \in Callers |-> IF d = c THEN calls[c] + 1 ELSE calls[d]]
           T == {<<d, g[d]>> : d \in Callers}
           S == T \cup blocked
           x == <<c, calls[c] + 1>>
           f == [i \in FirstPlace..Len(queue) |-> EntryAt(i)]
<1>1. InOrder /\ caller[c] = "idle" /\ \A d \in Callers : calls[d] \in Nat
  BY CallersAre DEF RelayInv, Send
<1>2. IsFiniteSet(T) /\ Cardinality(T) <= Cardinality(Callers)
  <2>1. g \in [Callers -> Nat]
    BY <1>1
  <2> HIDE DEF g
  <2> QED BY <2>1, CallSet
<1>3. x \in T
  <2>1. g[c] = calls[c] + 1
    OBVIOUS
  <2> HIDE DEF g
  <2> QED BY <2>1
<1>4. \A e \in Callers \X Nat : Present(e) => e \in T
  <2> SUFFICES ASSUME NEW e \in Callers \X Nat, Present(e) PROVE e \in T
    OBVIOUS
  <2>1. e = <<e[1], e[2]>> /\ e[1] \in Callers /\ e[1] # c /\ e[2] = calls[e[1]]
    BY <1>1 DEF Present
  <2>2. e[2] = g[e[1]]
    BY <2>1
  <2> HIDE DEF g
  <2> QED BY <2>1, <2>2
<1>5. IsFiniteSet(S) /\ Cardinality(S) <= Cardinality(Callers) + k
      /\ Cardinality(S) \in Nat /\ Cardinality(Callers) \in Nat
  <2> HIDE DEF T
  <2>1. IsFiniteSet(S) /\ Cardinality(S) = Cardinality(T) + Cardinality(blocked) - Cardinality(T \cap blocked)
    BY <1>2, FS_Union
  <2>2. IsFiniteSet(T \cap blocked)
    BY <1>2, FS_Subset
  <2>3. /\ Cardinality(T) \in Nat /\ Cardinality(blocked) \in Nat /\ Cardinality(T \cap blocked) \in Nat
        /\ Cardinality(Callers) \in Nat /\ Cardinality(S) \in Nat
    BY <1>2, <2>1, <2>2, FS_CardinalityType
  <2> QED BY <1>2, <2>1, <2>3
<1>6. \A i \in FirstPlace..Len(queue) : EntryAt(i) \in S /\ EntryAt(i) # x
  <2> SUFFICES ASSUME NEW i \in FirstPlace..Len(queue) PROVE EntryAt(i) \in S /\ EntryAt(i) # x
    OBVIOUS
  <2>1. /\ EntryAt(i) \in Callers \X Nat /\ Later(EntryAt(i))
        /\ Present(EntryAt(i)) \/ EntryAt(i) \in blocked
    BY <1>1, EntriesApart DEF OnlyBlockedAreStale
  <2>2. EntryAt(i) # x
    BY <1>1, <2>1 DEF Later
  <2> HIDE DEF T, x
  <2> QED BY <1>4, <2>1, <2>2
<1>7. x \in S
  BY <1>3
<1> HIDE DEF S, x
<1>8. f \in [FirstPlace..Len(queue) -> S \ {x}]
  BY <1>6
<1>9. \A i, j \in FirstPlace..Len(queue) : i < j => f[i] # f[j]
  <2> SUFFICES ASSUME NEW i \in FirstPlace..Len(queue), NEW j \in FirstPlace..Len(queue), i < j,
                      EntryAt(i) = EntryAt(j)
               PROVE  FALSE
    OBVIOUS
  <2>1. EntryAt(i)[2] < EntryAt(j)[2] /\ EntryAt(i)[2] \in Nat
    BY <1>1, EntriesApart
  <2> QED BY <2>1
<1> HIDE DEF f
<1>10. Room(Cardinality(S))
  BY <1>5, <1>7, <1>8, <1>9, RoomFor
<1>11. Len(queue) \in Nat /\ FirstPlace \in {0, 1}
  BY EntriesAreCalls DEF FirstPlace
<1> QED BY <1>5, <1>10, <1>11 DEF Room

LEMMA StaleInit == Init => OnlyBlockedAreStale
<1> SUFFICES ASSUME Init PROVE OnlyBlockedAreStale OBVIOUS
<1>1. Entries = {}
  BY DEF Init, Entries
<1> QED BY <1>1 DEF Init, OnlyBlockedAreStale

LEMMA StaleStep ==
    ASSUME NEW n \in Nat, Allowance(n) < AnswerTimeout,
           TypeOK, RelayInv, Timely(n), OnlyBlockedAreStale, [Next]_vars
    PROVE  OnlyBlockedAreStale'
<1>0. /\ Steady /\ InOrder /\ calls \in [Callers -> Nat] /\ caller \in [Callers -> {"idle", "sent", "waiting"}]
  BY DEF RelayInv, TypeOK
<1>x. blocked \subseteq blocked'
  BY BlockedGrows
<1> DEFINE Known(e) == (caller[e[1]] # "idle" /\ e[2] = calls[e[1]]) \/ e \in blocked
<1>i. /\ OnlyBlockedAreStale <=> (\A i \in Entries : Known(queue[i])) /\ (pc = "work" => Known(current))
      /\ OnlyBlockedAreStale' <=> (\A i \in Entries' : Known(queue[i])') /\ (pc' = "work" => Known(current)')
  BY DEF OnlyBlockedAreStale, Present
<1>y. /\ \A i \in Entries : queue[i] \in Callers \X Nat /\ Known(queue[i])
      /\ pc = "work" => current \in Callers \X Nat /\ Known(current)
  BY <1>i, EntriesAreCalls
<1>u. ASSUME UNCHANGED queue, pc' = "work" => pc = "work" /\ current' = current,
             \A i \in Entries : Known(queue[i]) => Known(queue[i])',
             pc = "work" /\ Known(current) => Known(current)'
      PROVE  OnlyBlockedAreStale'
  <2>1. Entries' = Entries
    BY <1>u DEF Entries
  <2> QED BY <1>i, <1>u, <1>y, <2>1
<1>v. ASSUME UNCHANGED <<queue, caller, calls>>, pc' = "work" => pc = "work" /\ current' = current
      PROVE  OnlyBlockedAreStale'
  <2>1. Entries' = Entries
    BY <1>v DEF Entries
  <2> QED BY <1>i, <1>v, <1>x, <1>y, <2>1
<1>a. ASSUME NEW c \in Callers, Send(c) PROVE OnlyBlockedAreStale'
  <2>0. UNCHANGED <<pc, current>> /\ caller[c] = "idle"
    BY <1>a DEF Send, thread
  <2>1. CASE pc = "gone"
    <3>1. Entries' = {}
      BY <1>0, <1>a, <2>1 DEF Steady, Send, Entries
    <3> QED BY <2>0, <2>1, <3>1 DEF OnlyBlockedAreStale
  <2>2. CASE pc # "gone"
    <3>0. PICK l \in Nat : l = Len(queue) + 1
      BY EntriesAreCalls
    <3>1. /\ queue'[l] = <<c, calls[c] + 1>>
          /\ \A i \in Entries : queue'[i] = queue[i]
          /\ \A i \in Entries' : i \in Entries \/ i = l
          /\ caller' = [caller EXCEPT ![c] = "sent"]
          /\ calls' = [calls EXCEPT ![c] = @ + 1]
      BY <1>a, <2>2, <3>0, SendChannel
    <3>2. \A d \in Callers : d # c => caller'[d] = caller[d] /\ calls'[d] = calls[d]
      BY <1>0, <3>1
    <3>3. \A e \in Callers \X Nat : Known(e) =>
             (caller'[e[1]] # "idle" /\ e[2] = calls'[e[1]]) \/ e \in blocked'
      <4> SUFFICES ASSUME NEW e \in Callers \X Nat, Known(e), e \notin blocked
                   PROVE caller'[e[1]] # "idle" /\ e[2] = calls'[e[1]]
        BY <1>x
      <4>1. e[1] \in Callers /\ e[1] # c
        BY <2>0
      <4> QED BY <3>2, <4>1
    <3>4. /\ queue'[l][1] = c /\ queue'[l][2] = calls'[c] /\ caller'[c] # "idle"
      BY <1>0, <3>1
    <3>5. \A i \in Entries' : (caller'[queue'[i][1]] # "idle" /\ queue'[i][2] = calls'[queue'[i][1]])
                              \/ queue'[i] \in blocked'
      BY <1>y, <3>1, <3>3, <3>4
    <3>6. pc = "work" => (caller'[current[1]] # "idle" /\ current[2] = calls'[current[1]])
                         \/ current \in blocked'
      BY <1>y, <3>3
    <3> QED BY <1>i, <2>0, <3>5, <3>6
  <2> QED BY <2>1, <2>2
<1>b. ASSUME NEW c \in Callers, Flag(c) PROVE OnlyBlockedAreStale'
  <2>1. /\ \A d \in Callers : caller[d] # "idle" => caller'[d] # "idle"
        /\ UNCHANGED <<pc, current, queue, calls, blocked>>
    BY <1>0, <1>b DEF Flag, thread
  <2>2. Entries' = Entries
    BY <2>1 DEF Entries
  <2> QED BY <1>i, <1>y, <2>1, <2>2
<1>c. ASSUME NEW c \in Callers, Receive(c) PROVE OnlyBlockedAreStale'
  <2>1. UNCHANGED <<pc, current, queue, calls, blocked>>
    BY <1>c DEF Receive, thread
  <2>2. \A d \in Callers : d # c => caller'[d] = caller[d]
    BY <1>0, <1>c DEF Receive, Return
  <2>3. outcome'[c] = "timeout" => <<c, calls[c]>> \in blocked
    BY <1>c, TimeIsEnough
  <2>4. replied[c] = calls[c] \/ pc = "gone" \/ <<c, calls[c]>> \in blocked
    BY <1>c, <2>3 DEF Receive, Return, TypeOK
  <2>5. CASE pc = "gone"
    <3>1. Entries' = {}
      BY <1>0, <2>1, <2>5 DEF Steady, Entries
    <3> QED BY <2>1, <2>5, <3>1 DEF OnlyBlockedAreStale
  <2>6. CASE replied[c] = calls[c] \/ <<c, calls[c]>> \in blocked
    <3>1. \A e \in Callers \X Nat : Later(e) /\ Known(e) =>
             (caller'[e[1]] # "idle" /\ e[2] = calls[e[1]]) \/ e \in blocked
      <4> SUFFICES ASSUME NEW e \in Callers \X Nat, Later(e), Known(e), e \notin blocked
                   PROVE  caller'[e[1]] # "idle" /\ e[2] = calls[e[1]]
        OBVIOUS
      <4>1. e = <<e[1], e[2]>> /\ e[1] \in Callers /\ e[2] = calls[e[1]] /\ caller[e[1]] # "idle"
        OBVIOUS
      <4>2. e[1] # c
        BY <2>6, <4>1, CallersAre DEF Later
      <4> QED BY <2>2, <4>1, <4>2
    <3>2. /\ \A i \in Entries : Later(queue[i])
          /\ pc = "work" => Later(current)
      BY <1>0 DEF InOrder
    <3>3. Entries' = Entries
      BY <2>1 DEF Entries
    <3> QED BY <1>i, <1>y, <2>1, <3>1, <3>2, <3>3
  <2> QED BY <2>4, <2>5, <2>6
<1>d. CASE Top
  <2>1. /\ pc' # "work" /\ queue' \in {queue, <<>>} /\ UNCHANGED <<caller, calls>>
    BY <1>d, ConstantTypes DEF Top, Goto, clients
  <2>2. CASE queue' = <<>>
    <3>1. Entries' = {}
      BY <2>2 DEF Entries
    <3> QED BY <2>1, <3>1 DEF OnlyBlockedAreStale
  <2> QED BY <1>v, <2>1, <2>2
<1>e. CASE Poll \/ Clear \/ SleepOver \/ HeldOver
  BY <1>e, <1>v DEF Poll, Clear, SleepOver, HeldOver, Goto, clients
<1>g. CASE Drain
  <2>1. CASE queue = <<>>
    BY <1>g, <1>v, <2>1 DEF Drain, Goto, clients
  <2>2. CASE queue # <<>>
    <3>1. /\ 1 \in Entries /\ current' = queue[1]
          /\ \A i \in Entries' : i + 1 \in Entries /\ queue'[i] = queue[i + 1]
          /\ UNCHANGED <<caller, calls, blocked>>
      BY <1>g, <2>2, DrainChannel DEF Drain, clients
    <3> QED BY <1>i, <1>y, <3>1
  <2> QED BY <2>1, <2>2
<1>h. CASE Work
  BY <1>h, <1>v DEF Work, Goto, clients
<1>k. CASE Stop
  BY <1>k, <1>v DEF Stop, thread, clients
<1>l. CASE Tick
  BY <1>l, <1>v DEF Tick
<1>m. CASE UNCHANGED vars
  BY <1>m, <1>v DEF vars, thread, clients
<1> QED
  BY <1>a, <1>b, <1>c, <1>d, <1>e, <1>g, <1>h, <1>k, <1>l, <1>m DEF Next, Thread, Relay

-----------------------------------------------------------------------------
(* Theorems. *)

\* The thread, the channel and the callers keep their types.
THEOREM TypeCorrect == Spec => []TypeOK
  <1> QED
    BY TypeInit, TypeStep, PTL DEF Spec

\* A request in the channel of a sleeping thread has raised the flag, or is
\* about to, for any number of callers and however their steps interleave with
\* the thread's (serve_requests, relay).
THEOREM NoLostWakeupAlways == Spec => []NoLostWakeup
  <1> QED
    BY TypeCorrect, WakeupInit, WakeupStep, PTL DEF Spec

LEMMA RelayInvariant == Spec => []RelayInv
<1>1. Spec => []TypeOK
  BY TypeCorrect
<1> QED BY <1>1, RelayInit, RelayStep, PTL DEF Spec

\* What holds as long as the calls that met a held port are k at most.
AnswerInv(k) ==
    /\ IsFiniteSet(blocked)
    /\ Cardinality(blocked) <= k =>
         Timely(Cardinality(Callers) + k) /\ OnlyBlockedAreStale /\ AnsweredInTime

LEMMA AnswerInit ==
    ASSUME NEW k \in Nat, IsFiniteSet(Callers) PROVE Init => AnswerInv(k)
<1>1. Cardinality(Callers) + k \in Nat
  BY FS_CardinalityType
<1> QED BY <1>1, TimelyInit, StaleInit, FS_EmptySet DEF Init, AnsweredInTime, AnswerInv

LEMMA AnswerStep ==
    ASSUME NEW k \in Nat, IsFiniteSet(Callers),
           PollTicks + RequestTicks * (Cardinality(Callers) + k) < AnswerTimeout
    PROVE  TypeOK /\ TypeOK' /\ NoLostWakeup /\ RelayInv /\ AnswerInv(k) /\ [Next]_vars => AnswerInv(k)'
<1> DEFINE n == Cardinality(Callers) + k
           Few == Cardinality(blocked) <= k
<1> SUFFICES ASSUME TypeOK, TypeOK', NoLostWakeup, RelayInv, AnswerInv(k), [Next]_vars
             PROVE  AnswerInv(k)'
  OBVIOUS
<1>1. n \in Nat /\ Allowance(n) < AnswerTimeout
  BY FS_CardinalityType DEF Allowance, Cost
<1>2. IsFiniteSet(blocked') /\ blocked \subseteq blocked'
  BY BlockedIsFinite, BlockedGrows DEF AnswerInv
<1>3. ASSUME Few' PROVE Timely(n)' /\ OnlyBlockedAreStale' /\ AnsweredInTime'
  <2>1. /\ Cardinality(blocked) <= Cardinality(blocked')
        /\ Cardinality(blocked) \in Nat /\ Cardinality(blocked') \in Nat
    BY <1>2, FS_Subset, FS_CardinalityType DEF AnswerInv
  <2>2. Few
    BY <1>3, <2>1
  <2>3. Timely(n) /\ OnlyBlockedAreStale /\ AnsweredInTime
    BY <2>2 DEF AnswerInv
  <2>4. (\E c \in Callers : Send(c)) => Room(n)
    BY <2>2, <2>3, RoomByCallers DEF AnswerInv
  <2> HIDE DEF n
  <2>5. Timely(n)'
    BY <1>1, <2>3, <2>4, TimelyStep
  <2>6. OnlyBlockedAreStale'
    BY <1>1, <2>3, StaleStep
  <2>7. AnsweredInTime'
    BY <1>1, <2>3, InTimeStep
  <2> QED BY <2>5, <2>6, <2>7
<1> QED BY <1>2, <1>3 DEF AnswerInv

\* As long as the calls that met a held port are k at most, every other answer
\* comes within ANSWER_TIMEOUT, if a poll, one request of each caller and those
\* k fit into it: for any poll interval, any number of calls, and however they,
\* the polls and the stop fall (relay, serve_requests; the comment on
\* ANSWER_TIMEOUT: "this covers one poll interval plus the device exchanges a
\* request makes").
THEOREM AnsweredInTimeAlways ==
    ASSUME NEW k \in Nat, IsFiniteSet(Callers),
           PollTicks + RequestTicks * (Cardinality(Callers) + k) < AnswerTimeout
    PROVE  Spec => [](Cardinality(blocked) <= k => AnsweredInTime)
<1>1. Init => AnswerInv(k)
  BY AnswerInit
<1>2. TypeOK /\ TypeOK' /\ NoLostWakeup /\ RelayInv /\ AnswerInv(k) /\ [Next]_vars => AnswerInv(k)'
  BY AnswerStep
<1>3. AnswerInv(k) => (Cardinality(blocked) <= k => AnsweredInTime)
  BY DEF AnswerInv
<1> QED BY <1>1, <1>2, <1>3, TypeCorrect, NoLostWakeupAlways, RelayInvariant, PTL DEF Spec

NeverTimesOut == \A c \in Callers : ~(caller[c] = "idle" /\ outcome[c] = "timeout")

\* With nobody else to hold the port, no call that has come back has timed out,
\* however many there were, if a poll and one request of each caller fit into
\* ANSWER_TIMEOUT.
THEOREM OwnPortNeverTimesOut ==
    ASSUME IsFiniteSet(Callers), "held" \notin Ports,
           PollTicks + RequestTicks * Cardinality(Callers) < AnswerTimeout
    PROVE  Spec => []NeverTimesOut
<1> DEFINE Free == blocked = {} /\ pc # "held"
<1>1. Init => Free
  BY DEF Init
<1>2. Free /\ [Next]_vars => Free'
  <2> SUFFICES ASSUME Free, [Next]_vars PROVE Free'
    OBVIOUS
  <2>1. CASE Top
    BY <2>1, ConstantTypes DEF Top, Goto
  <2>2. CASE \E c \in Callers : Relay(c)
    BY <2>2 DEF Relay, Send, Flag, Receive, thread
  <2>3. CASE Poll \/ Clear \/ Drain \/ Work \/ SleepOver \/ HeldOver
    BY <2>3 DEF Poll, Clear, Drain, Work, SleepOver, HeldOver, Goto
  <2>4. CASE Stop \/ Tick \/ UNCHANGED vars
    BY <2>4 DEF Stop, Tick, vars, thread
  <2> QED BY <2>1, <2>2, <2>3, <2>4 DEF Next, Thread
<1>3. Init => AnswerInv(0)
  BY AnswerInit
<1>4. TypeOK /\ TypeOK' /\ NoLostWakeup /\ RelayInv /\ AnswerInv(0) /\ [Next]_vars => AnswerInv(0)'
  <2>1. Cardinality(Callers) + 0 = Cardinality(Callers)
    BY FS_CardinalityType
  <2>2. 0 \in Nat /\ PollTicks + RequestTicks * (Cardinality(Callers) + 0) < AnswerTimeout
    BY <2>1
  <2> QED BY <2>2, AnswerStep
<1>5. Free /\ AnswerInv(0) => NeverTimesOut
  <2> SUFFICES ASSUME blocked = {}, AnswerInv(0) PROVE NeverTimesOut
    OBVIOUS
  <2>1. Cardinality(blocked) = 0
    BY FS_EmptySet
  <2>2. AnsweredInTime
    BY <2>1 DEF AnswerInv
  <2> QED BY <2>2 DEF AnsweredInTime, NeverTimesOut
<1> QED BY <1>1, <1>2, <1>3, <1>4, <1>5, TypeCorrect, NoLostWakeupAlways, RelayInvariant, PTL DEF Spec

=============================================================================
