-------------------------- MODULE UpsThreadProofs --------------------------
(***************************************************************************)
(* First what the shutdown coordinator promises, for every delay and       *)
(* tolerance, whatever others do to logind, whichever calls fail and       *)
(* however often the daemon restarts, as long as the subprocesses of one   *)
(* decision take no longer than the tolerance (PromptAssumption).  Its     *)
(* invariant follows the deadline through a call: the local `due` is what  *)
(* logind held when it was read, or what was intended, and it ages with    *)
(* logind's own.                                                           *)
(*                                                                         *)
(* Then that the UPS thread implements the coordinator's specification, so *)
(* that all of this holds of it, and what it promises beyond that, for all *)
(* thresholds and confirmations.  Its invariant ties the policy's counters *)
(* to the history of the readings of the present link, and the call in     *)
(* progress to the decision of this round.                                 *)
(***************************************************************************)
EXTENDS UpsThread, TLAPS

\* Which calls work with a record, and which without one.
CallState ==
    /\ call \in {"wall", "schedule", "readback"} => ours = None
    /\ call \in {"recovered", "cancel"} => ours # None
    /\ call \in {"advised", "wall", "schedule", "readback"} => told = "shutdown"
    /\ call \in {"recovered", "cancel"} => told # "shutdown"
    /\ told = "recovered" => call \in {"idle", "recovered", "cancel"}
    /\ DryRun => call = "idle" /\ ours = None

\* Nobody has touched logind since the poweroff of this life was scheduled.
MineIsUntouched ==
    /\ pending # None => pending.life <= restarts
    /\ Mine(pending) => ~meddled
    /\ Mine(pending) => call = "readback" \/ ours # None

\* What the local variables of a call say of logind.
LocalState ==
    /\ call = "wall" =>
         /\ due \in Int
         /\ ~meddled => pending # None /\ due = pending.at
    /\ call = "schedule" =>
         /\ due \in Int /\ Delay - callAge <= due
         /\ due <= Delay
         /\ seen # "Unknown" /\ ~raced => pending = None
    /\ call = "readback" =>
         /\ due \in Int /\ Delay - callAge <= due
         /\ ~meddled =>
              /\ Mine(pending)
              /\ due <= pending.at /\ pending.at <= due + callAge
    /\ call = "cancel" /\ ~raced /\ seen # "Unknown" /\ pending # None =>
         SameShutdown(ours, pending.at)

\* An undone poweroff is still on record, or we stand down.
OverrideState ==
    overridden =>
        \/ ours # None /\ call \in {"idle", "advised"}
        \/ call = "readback"
        \/ stood_down /\ call = "idle"

IInv ==
    /\ FlagsOK
    /\ NamesOK
    /\ NumbersOK
    /\ PendingOK
    /\ CallState
    /\ MineIsUntouched
    /\ LocalState
    /\ PublishedIsReal
    /\ OverrideState
    /\ RecoveryWithdraws

-----------------------------------------------------------------------------
LEMMA ConstantTypes ==
    /\ Delay \in Nat \ {0} /\ Tolerance \in Nat /\ CallTicks \in Nat
    /\ CallTicks <= Tolerance
    /\ None \notin Int /\ None \notin Shutdown
    /\ OtherDelays \subseteq Nat
    /\ MaxOthers \in Nat /\ MaxRestarts \in Nat
  BY CoordinatorAssumption, PromptAssumption, NoneAssumption

LEMMA InitIInv == Init => IInv
<1> SUFFICES ASSUME Init PROVE IInv
  OBVIOUS
<1> USE DEF Init
<1>1. FlagsOK
  BY ConstantTypes DEF FlagsOK
<1>2. NamesOK
  BY ConstantTypes DEF NamesOK, Calls, Advices
<1>3. NumbersOK
  BY ConstantTypes DEF NumbersOK
<1>4. PendingOK
  BY ConstantTypes DEF PendingOK
<1>5. CallState
  BY ConstantTypes DEF CallState
<1>6. MineIsUntouched
  BY ConstantTypes DEF MineIsUntouched, Mine
<1>7. LocalState
  BY ConstantTypes DEF LocalState, Mine, SameShutdown
<1>8. PublishedIsReal
  BY ConstantTypes DEF PublishedIsReal, SameShutdown
<1>9. OverrideState
  BY ConstantTypes DEF OverrideState, Mine
<1>10. RecoveryWithdraws
  BY ConstantTypes DEF RecoveryWithdraws, Mine
<1> QED
  BY <1>1, <1>2, <1>3, <1>4, <1>5, <1>6, <1>7, <1>8, <1>9, <1>10 DEF IInv

LEMMA OnShutdownKeeps == IInv /\ OnShutdown => IInv'
<1> SUFFICES ASSUME IInv, OnShutdown PROVE IInv'
  OBVIOUS
<1> USE DEF OnShutdown, Enter, local
<1>1. FlagsOK'
  BY DEF IInv, FlagsOK
<1>2. NamesOK'
  BY DEF IInv, NamesOK, Calls, Advices
<1>3. NumbersOK'
  <2>1. UNCHANGED <<due, ours, restarts, others>> /\ callAge' \in {0, callAge}
    BY DEF Enter, local
  <2> QED
    BY <2>1, ConstantTypes DEF IInv, NumbersOK
<1>4. PendingOK'
  BY DEF IInv, PendingOK
<1>5. CallState'
  BY DEF IInv, CallState
<1>6. MineIsUntouched'
  BY DEF IInv, MineIsUntouched, Mine
<1>7. LocalState'
  BY DEF LocalState
<1>8. PublishedIsReal'
  BY DEF IInv, PublishedIsReal
<1>9. OverrideState'
  BY DEF IInv, OverrideState
<1>10. RecoveryWithdraws'
  BY DEF RecoveryWithdraws
<1> QED
  BY <1>1, <1>2, <1>3, <1>4, <1>5, <1>6, <1>7, <1>8, <1>9, <1>10 DEF IInv

LEMMA OnRecoveredKeeps == IInv /\ OnRecovered => IInv'
<1> SUFFICES ASSUME IInv, OnRecovered PROVE IInv'
  OBVIOUS
<1> USE DEF OnRecovered, Enter, local
<1>1. FlagsOK'
  BY DEF IInv, FlagsOK
<1>2. NamesOK'
  BY DEF IInv, NamesOK, Calls, Advices
<1>3. NumbersOK'
  <2>1. UNCHANGED <<due, ours, restarts, others>> /\ callAge' \in {0, callAge}
    BY DEF Enter, local
  <2> QED
    BY <2>1, ConstantTypes DEF IInv, NumbersOK
<1>4. PendingOK'
  BY DEF IInv, PendingOK
<1>5. CallState'
  BY DEF IInv, CallState
<1>6. MineIsUntouched'
  BY DEF IInv, MineIsUntouched, Mine
<1>7. LocalState'
  BY DEF LocalState
<1>8. PublishedIsReal'
  BY DEF IInv, PublishedIsReal
<1>9. OverrideState'
  BY DEF OverrideState
<1>10. RecoveryWithdraws'
  BY ConstantTypes DEF IInv, NumbersOK, CallState, RecoveryWithdraws
<1> QED
  BY <1>1, <1>2, <1>3, <1>4, <1>5, <1>6, <1>7, <1>8, <1>9, <1>10 DEF IInv

LEMMA CheckOursKeeps == IInv /\ CheckOurs => IInv'
<1> SUFFICES ASSUME IInv, CheckOurs PROVE IInv'
  OBVIOUS
<1> USE DEF CheckOurs, Return, ghosts, PendingStates, Unreadable
<1>1. FlagsOK'
  BY DEF IInv, FlagsOK
<1>2. NamesOK'
  BY DEF IInv, NamesOK, Calls, Advices
<1>3. NumbersOK'
  BY ConstantTypes DEF IInv, NumbersOK
<1>4. PendingOK'
  BY DEF IInv, PendingOK
<1>5. CallState'
  BY DEF IInv, CallState
<1>6. MineIsUntouched'
  BY DEF IInv, MineIsUntouched, PublishedIsReal, Mine
<1>7. LocalState'
  BY DEF LocalState
<1>8. PublishedIsReal'
  BY DEF IInv, PublishedIsReal
<1>9. OverrideState'
  BY DEF OverrideState
<1>10. RecoveryWithdraws'
  BY DEF IInv, CallState, RecoveryWithdraws
<1> QED
  BY <1>1, <1>2, <1>3, <1>4, <1>5, <1>6, <1>7, <1>8, <1>9, <1>10 DEF IInv

LEMMA LookForAnyKeeps == IInv /\ LookForAny => IInv'
<1> SUFFICES ASSUME IInv, LookForAny PROVE IInv'
  OBVIOUS
<1> USE DEF LookForAny, ghosts, record, PendingStates, Unreadable
<1>1. FlagsOK'
  BY DEF IInv, FlagsOK
<1>2. NamesOK'
  BY DEF IInv, NamesOK, Calls, Advices
<1>3. NumbersOK'
  BY ConstantTypes DEF IInv, NumbersOK, PublishedIsReal
<1>4. PendingOK'
  BY ConstantTypes DEF IInv, NumbersOK
<1>5. CallState'
  BY ConstantTypes DEF IInv, NumbersOK
<1>6. MineIsUntouched'
  BY DEF IInv, MineIsUntouched, Mine
<1>7. LocalState'
  BY ConstantTypes DEF IInv, NumbersOK
<1>8. PublishedIsReal'
  BY DEF PublishedIsReal
<1>9. OverrideState'
  BY DEF IInv, OverrideState
<1>10. RecoveryWithdraws'
  BY ConstantTypes DEF IInv, NumbersOK
<1> QED
  BY <1>1, <1>2, <1>3, <1>4, <1>5, <1>6, <1>7, <1>8, <1>9, <1>10 DEF IInv

LEMMA AdoptKeeps == IInv /\ Adopt => IInv'
<1> SUFFICES ASSUME IInv, Adopt PROVE IInv'
  OBVIOUS
<1> USE DEF Adopt, Return, ghosts
<1>1. FlagsOK'
  BY DEF IInv, FlagsOK
<1>2. NamesOK'
  BY DEF IInv, NamesOK, Calls, Advices
<1>3. NumbersOK'
  BY ConstantTypes DEF IInv, NumbersOK
<1>4. PendingOK'
  BY DEF IInv, PendingOK
<1>5. CallState'
  BY DEF IInv, CallState
<1>6. MineIsUntouched'
  BY ConstantTypes DEF IInv, NumbersOK, CallState
<1>7. LocalState'
  BY ConstantTypes DEF IInv, NumbersOK, CallState
<1>8. PublishedIsReal'
  BY ConstantTypes DEF IInv, NumbersOK, CallState, PublishedIsReal
<1>9. OverrideState'
  BY ConstantTypes DEF IInv, NumbersOK, CallState, RecoveryWithdraws
<1>10. RecoveryWithdraws'
  BY ConstantTypes DEF IInv, NumbersOK, CallState
<1> QED
  BY <1>1, <1>2, <1>3, <1>4, <1>5, <1>6, <1>7, <1>8, <1>9, <1>10 DEF IInv

LEMMA ScheduleKeeps == IInv /\ Schedule => IInv'
<1> SUFFICES ASSUME IInv, Schedule PROVE IInv'
  OBVIOUS
<1> USE DEF Schedule, Poweroff, record
<1>1. FlagsOK'
  BY DEF IInv, FlagsOK
<1>2. NamesOK'
  BY DEF IInv, NamesOK, Calls, Advices
<1>3. NumbersOK'
  BY DEF IInv, NumbersOK
<1>4. PendingOK'
  BY ConstantTypes DEF IInv, NumbersOK, PendingOK, Shutdown
<1>5. CallState'
  BY DEF IInv, CallState
<1>6. MineIsUntouched'
  BY ConstantTypes DEF IInv, NumbersOK, CallState, LocalState
<1>7. LocalState'
  BY ConstantTypes DEF IInv, NumbersOK, CallState
<1>8. PublishedIsReal'
  BY ConstantTypes DEF IInv, NumbersOK, CallState, MineIsUntouched
<1>9. OverrideState'
  BY ConstantTypes DEF IInv, NumbersOK, CallState
<1>10. RecoveryWithdraws'
  BY ConstantTypes DEF IInv, NumbersOK, CallState
<1> QED
  BY <1>1, <1>2, <1>3, <1>4, <1>5, <1>6, <1>7, <1>8, <1>9, <1>10 DEF IInv

LEMMA ScheduleFailsKeeps == IInv /\ ScheduleFails => IInv'
<1> SUFFICES ASSUME IInv, ScheduleFails PROVE IInv'
  OBVIOUS
<1> USE DEF ScheduleFails, Return, ghosts, record
<1>1. FlagsOK'
  BY DEF IInv, FlagsOK
<1>2. NamesOK'
  BY DEF IInv, NamesOK, Calls, Advices
<1>3. NumbersOK'
  BY ConstantTypes DEF IInv, NumbersOK
<1>4. PendingOK'
  BY DEF IInv, PendingOK
<1>5. CallState'
  BY DEF IInv, CallState
<1>6. MineIsUntouched'
  BY ConstantTypes DEF IInv, NumbersOK, CallState, LocalState
<1>7. LocalState'
  BY ConstantTypes DEF IInv, NumbersOK, CallState
<1>8. PublishedIsReal'
  BY DEF IInv, PublishedIsReal
<1>9. OverrideState'
  BY ConstantTypes DEF IInv, NumbersOK, CallState, MineIsUntouched, Mine
<1>10. RecoveryWithdraws'
  BY ConstantTypes DEF IInv, NamesOK, NumbersOK, CallState
<1> QED
  BY <1>1, <1>2, <1>3, <1>4, <1>5, <1>6, <1>7, <1>8, <1>9, <1>10 DEF IInv

LEMMA ReadBackKeeps == IInv /\ ReadBack => IInv'
<1> SUFFICES ASSUME IInv, ReadBack PROVE IInv'
  OBVIOUS
<1> USE DEF ReadBack, Return, ghosts, PendingStates, Unreadable
<1>1. FlagsOK'
  BY DEF IInv, FlagsOK
<1>2. NamesOK'
  BY DEF IInv, NamesOK, Calls, Advices
<1>3. NumbersOK'
  BY ConstantTypes DEF IInv, NumbersOK, CallState
<1>4. PendingOK'
  BY DEF IInv, PendingOK
<1>5. CallState'
  BY DEF IInv, CallState
<1>6. MineIsUntouched'
  BY ConstantTypes DEF IInv, NumbersOK, CallState
<1>7. LocalState'
  BY ConstantTypes DEF IInv, NumbersOK, CallState
<1>8. PublishedIsReal'
  <2> SUFFICES ASSUME ~meddled
               PROVE  pending # None /\ SameShutdown(ours', pending.at)
    BY DEF PublishedIsReal, SameShutdown
  <2>1. /\ pending \in Shutdown /\ pending # None
        /\ due \in Int /\ due <= pending.at /\ pending.at <= due + callAge
    BY DEF IInv, LocalState, Mine, PendingOK
  <2>2. pending.at \in Int /\ callAge \in Nat /\ callAge <= Tolerance
    BY <2>1, ConstantTypes DEF IInv, NumbersOK, Shutdown
  <2>3. ours' \in {pending.at, due}
    OBVIOUS
  <2> QED
    BY <2>1, <2>2, <2>3, ConstantTypes DEF SameShutdown
<1>9. OverrideState'
  BY ConstantTypes DEF IInv, NumbersOK, CallState, MineIsUntouched, PublishedIsReal, OverrideState, RecoveryWithdraws
<1>10. RecoveryWithdraws'
  BY DEF IInv, CallState, RecoveryWithdraws
<1> QED
  BY <1>1, <1>2, <1>3, <1>4, <1>5, <1>6, <1>7, <1>8, <1>9, <1>10 DEF IInv

LEMMA RecoverKeeps == IInv /\ Recover => IInv'
<1> SUFFICES ASSUME IInv, Recover PROVE IInv'
  OBVIOUS
<1> USE DEF Recover, Return, ghosts, PendingStates, Unreadable
<1>1. FlagsOK'
  BY DEF IInv, FlagsOK
<1>2. NamesOK'
  BY DEF IInv, NamesOK, Calls, Advices
<1>3. NumbersOK'
  BY ConstantTypes DEF IInv, NumbersOK
<1>4. PendingOK'
  BY DEF IInv, PendingOK
<1>5. CallState'
  BY DEF IInv, CallState
<1>6. MineIsUntouched'
  BY DEF IInv, MineIsUntouched, PublishedIsReal, Mine
<1>7. LocalState'
  BY DEF LocalState
<1>8. PublishedIsReal'
  BY DEF IInv, PublishedIsReal
<1>9. OverrideState'
  BY DEF IInv, OverrideState
<1>10. RecoveryWithdraws'
  BY DEF IInv, MineIsUntouched, PublishedIsReal, RecoveryWithdraws, Mine
<1> QED
  BY <1>1, <1>2, <1>3, <1>4, <1>5, <1>6, <1>7, <1>8, <1>9, <1>10 DEF IInv

LEMMA CancelKeeps == IInv /\ Cancel => IInv'
<1> SUFFICES ASSUME IInv, Cancel PROVE IInv'
  OBVIOUS
<1> USE DEF Cancel, Return, ghosts
<1>1. FlagsOK'
  BY DEF IInv, FlagsOK
<1>2. NamesOK'
  BY DEF IInv, NamesOK, Calls, Advices
<1>3. NumbersOK'
  BY ConstantTypes DEF IInv, NumbersOK
<1>4. PendingOK'
  BY DEF PendingOK
<1>5. CallState'
  BY DEF CallState
<1>6. MineIsUntouched'
  BY DEF MineIsUntouched, Mine
<1>7. LocalState'
  BY DEF LocalState
<1>8. PublishedIsReal'
  BY DEF PublishedIsReal
<1>9. OverrideState'
  BY DEF IInv, OverrideState
<1>10. RecoveryWithdraws'
  BY DEF RecoveryWithdraws, Mine
<1> QED
  BY <1>1, <1>2, <1>3, <1>4, <1>5, <1>6, <1>7, <1>8, <1>9, <1>10 DEF IInv

LEMMA CancelFailsKeeps == IInv /\ CancelFails => IInv'
<1> SUFFICES ASSUME IInv, CancelFails PROVE IInv'
  OBVIOUS
<1> USE DEF CancelFails, Return, record
<1>1. FlagsOK'
  BY DEF IInv, FlagsOK
<1>2. NamesOK'
  BY DEF IInv, NamesOK, Calls, Advices
<1>3. NumbersOK'
  BY ConstantTypes DEF IInv, NumbersOK
<1>4. PendingOK'
  BY DEF IInv, PendingOK
<1>5. CallState'
  BY DEF IInv, CallState
<1>6. MineIsUntouched'
  BY DEF IInv, MineIsUntouched, Mine
<1>7. LocalState'
  BY DEF LocalState
<1>8. PublishedIsReal'
  BY DEF IInv, PublishedIsReal
<1>9. OverrideState'
  BY DEF IInv, OverrideState
<1>10. RecoveryWithdraws'
  BY DEF RecoveryWithdraws
<1> QED
  BY <1>1, <1>2, <1>3, <1>4, <1>5, <1>6, <1>7, <1>8, <1>9, <1>10 DEF IInv

LEMMA AdviceChangesKeeps == IInv /\ AdviceChanges => IInv'
<1> SUFFICES ASSUME IInv, AdviceChanges PROVE IInv'
  OBVIOUS
<1> USE DEF AdviceChanges, ghosts, record, local
<1>1. FlagsOK'
  BY DEF IInv, FlagsOK
<1>2. NamesOK'
  BY DEF IInv, NamesOK, Calls, Advices
<1>3. NumbersOK'
  BY DEF IInv, NumbersOK
<1>4. PendingOK'
  BY DEF IInv, PendingOK
<1>5. CallState'
  BY DEF IInv, CallState
<1>6. MineIsUntouched'
  BY DEF IInv, MineIsUntouched, Mine
<1>7. LocalState'
  BY DEF IInv, LocalState, Mine
<1>8. PublishedIsReal'
  BY DEF IInv, PublishedIsReal
<1>9. OverrideState'
  BY DEF IInv, OverrideState
<1>10. RecoveryWithdraws'
  BY DEF IInv, RecoveryWithdraws, Mine
<1> QED
  BY <1>1, <1>2, <1>3, <1>4, <1>5, <1>6, <1>7, <1>8, <1>9, <1>10 DEF IInv

LEMMA OthersActKeeps ==
    ASSUME IInv, NEW next, OthersAct(next), next = None \/ next \in Shutdown,
           next # None => next.at >= 0 /\ next.mark = "other" /\ next.life = 0
    PROVE  IInv'
<1> USE DEF OthersAct, record, local
<1>1. FlagsOK'
  BY DEF IInv, FlagsOK
<1>2. NamesOK'
  BY DEF IInv, NamesOK, Calls, Advices
<1>3. NumbersOK'
  BY ConstantTypes DEF IInv, NumbersOK
<1>4. PendingOK'
  BY DEF PendingOK
<1>5. CallState'
  BY DEF IInv, CallState
<1>6. MineIsUntouched'
  BY DEF IInv, NumbersOK, MineIsUntouched, Mine
<1>7. LocalState'
  BY DEF IInv, LocalState
<1>8. PublishedIsReal'
  BY DEF PublishedIsReal
<1>9. OverrideState'
  <2>1. CASE overridden
    BY <2>1 DEF IInv, OverrideState
  <2>2. CASE Mine(pending) /\ call \notin {"recovered", "cancel"}
    BY <2>2 DEF IInv, MineIsUntouched, CallState, OverrideState, NamesOK, Calls
  <2> QED
    BY <2>1, <2>2 DEF OverrideState
<1>10. RecoveryWithdraws'
  BY DEF RecoveryWithdraws, Mine
<1> QED
  BY <1>1, <1>2, <1>3, <1>4, <1>5, <1>6, <1>7, <1>8, <1>9, <1>10 DEF IInv

LEMMA RestartKeeps == IInv /\ Restart => IInv'
<1> SUFFICES ASSUME IInv, Restart PROVE IInv'
  OBVIOUS
<1> USE DEF Restart, Return
<1>1. FlagsOK'
  BY DEF FlagsOK
<1>2. NamesOK'
  BY DEF IInv, NamesOK, Calls, Advices
<1>3. NumbersOK'
  BY ConstantTypes DEF IInv, NumbersOK
<1>4. PendingOK'
  BY DEF IInv, PendingOK
<1>5. CallState'
  BY DEF CallState
<1>6. MineIsUntouched'
  <2>1. pending # None => pending.life \in Nat /\ pending.life <= restarts
    BY DEF IInv, PendingOK, Shutdown, MineIsUntouched
  <2> QED
    BY <2>1 DEF IInv, NumbersOK, MineIsUntouched, Mine
<1>7. LocalState'
  BY DEF LocalState
<1>8. PublishedIsReal'
  BY DEF PublishedIsReal
<1>9. OverrideState'
  BY DEF OverrideState
<1>10. RecoveryWithdraws'
  BY DEF RecoveryWithdraws
<1> QED
  BY <1>1, <1>2, <1>3, <1>4, <1>5, <1>6, <1>7, <1>8, <1>9, <1>10 DEF IInv

LEMMA TickKeeps == IInv /\ Tick => IInv'
<1> SUFFICES ASSUME IInv, Tick PROVE IInv'
  OBVIOUS
<1> USE DEF Tick, Age, Floor, ghosts
<1>0. /\ pending = None => pending' = None
      /\ pending # None =>
           /\ pending' \in Shutdown /\ pending' # None
           /\ pending.at \in Int /\ pending.at > 0 /\ pending'.at = pending.at - 1
           /\ pending'.mark = pending.mark /\ pending'.life = pending.life
  BY ConstantTypes DEF IInv, PendingOK, Shutdown
<1>a. /\ ours \in Int /\ ours # Floor => ours' = ours - 1
      /\ due \in Int /\ due # Floor => due' = due - 1
  BY ConstantTypes 
<1>1. FlagsOK'
  BY DEF IInv, FlagsOK
<1>2. NamesOK'
  BY DEF IInv, NamesOK, Calls, Advices
<1>3. NumbersOK'
  BY ConstantTypes DEF IInv, NumbersOK
<1>4. PendingOK'
  BY <1>0 DEF IInv, PendingOK
<1>5. CallState'
  BY ConstantTypes DEF IInv, NumbersOK, CallState
<1>6. MineIsUntouched'
  BY ConstantTypes DEF IInv, NumbersOK, MineIsUntouched, Mine
<1>7. LocalState'
  <2>0. callAge \in Nat /\ (call # "idle" => callAge < CallTicks)
    BY ConstantTypes DEF IInv, NumbersOK
  <2>1. CASE call = "wall"
    <3>1. due \in Int /\ (~meddled => pending # None /\ due = pending.at)
      BY <2>1 DEF IInv, LocalState
    <3> QED
      BY <1>0, <1>a, <2>1, <3>1, ConstantTypes DEF LocalState
  <2>2. CASE call = "schedule"
    <3>1. /\ due \in Int /\ Delay - callAge <= due /\ due <= Delay
          /\ seen # "Unknown" /\ ~raced => pending = None
      BY <2>2 DEF IInv, LocalState
    <3>2. due' = due - 1 /\ callAge' = callAge + 1
      BY <1>a, <2>0, <2>2, <3>1, ConstantTypes
    <3> QED
      BY <1>0, <2>0, <2>2, <3>1, <3>2, ConstantTypes DEF LocalState
  <2>3. CASE call = "readback"
    <3>1. /\ due \in Int /\ Delay - callAge <= due
          /\ ~meddled =>
               /\ Mine(pending)
               /\ due <= pending.at /\ pending.at <= due + callAge
      BY <2>3 DEF IInv, LocalState
    <3>2. due' = due - 1 /\ callAge' = callAge + 1
      BY <1>a, <2>0, <2>3, <3>1, ConstantTypes
    <3>3. Mine(pending)' <=> Mine(pending)
      BY <1>0 DEF Mine
    <3> QED
      BY <1>0, <2>0, <2>3, <3>1, <3>2, <3>3, ConstantTypes DEF LocalState, Mine
  <2>4. CASE call = "cancel"
    <3> SUFFICES ASSUME ~raced, seen # "Unknown", pending # None
                 PROVE  SameShutdown(ours', pending'.at)
      BY <1>0, <2>4 DEF LocalState, SameShutdown
    <3>1. ours \in Int /\ SameShutdown(ours, pending.at)
      BY <2>4 DEF IInv, CallState, NumbersOK, LocalState
    <3>2. ours # Floor
      BY <1>0, <3>1, ConstantTypes DEF SameShutdown
    <3>3. ours' = ours - 1
      BY <1>a, <3>1, <3>2
    <3>4. pending.at \in Int /\ pending'.at = pending.at - 1
      BY <1>0
    <3> QED
      BY <3>1, <3>3, <3>4, ConstantTypes DEF SameShutdown
  <2>5. CASE call \notin {"wall", "schedule", "readback", "cancel"}
    BY <2>5 DEF LocalState
  <2> QED
    BY <2>1, <2>2, <2>3, <2>4, <2>5
<1>8. PublishedIsReal'
  <2> SUFFICES ASSUME ours' # None, ~meddled
               PROVE  pending' # None /\ SameShutdown(ours', pending'.at)
    BY DEF PublishedIsReal, SameShutdown
  <2>1. ours \in Int /\ pending # None /\ SameShutdown(ours, pending.at)
    BY DEF IInv, NumbersOK, PublishedIsReal
  <2>2. ours # Floor
    BY <1>0, <2>1, ConstantTypes DEF SameShutdown
  <2> QED
    BY <1>0, <1>a, <2>1, <2>2 DEF SameShutdown
<1>9. OverrideState'
  BY ConstantTypes DEF IInv, NumbersOK, OverrideState
<1>10. RecoveryWithdraws'
  BY DEF IInv, RecoveryWithdraws, Mine
<1> QED
  BY <1>1, <1>2, <1>3, <1>4, <1>5, <1>6, <1>7, <1>8, <1>9, <1>10 DEF IInv

LEMMA FireKeeps == IInv /\ Fire => IInv'
<1> SUFFICES ASSUME IInv, Fire PROVE IInv'
  OBVIOUS
<1> USE DEF Fire, ghosts, record, local
<1>1. FlagsOK'
  BY DEF IInv, FlagsOK
<1>2. NamesOK'
  BY DEF IInv, NamesOK, Calls, Advices
<1>3. NumbersOK'
  BY DEF IInv, NumbersOK
<1>4. PendingOK'
  BY DEF IInv, PendingOK
<1>5. CallState'
  BY DEF IInv, CallState
<1>6. MineIsUntouched'
  BY DEF IInv, MineIsUntouched, Mine
<1>7. LocalState'
  BY DEF IInv, LocalState, Mine
<1>8. PublishedIsReal'
  BY DEF IInv, PublishedIsReal
<1>9. OverrideState'
  BY DEF IInv, OverrideState
<1>10. RecoveryWithdraws'
  BY DEF IInv, RecoveryWithdraws, Mine
<1> QED
  BY <1>1, <1>2, <1>3, <1>4, <1>5, <1>6, <1>7, <1>8, <1>9, <1>10 DEF IInv

-----------------------------------------------------------------------------
(* The invariant holds. *)

LEMMA OthersScheduleKeeps == IInv /\ OthersSchedule => IInv'
<1> SUFFICES ASSUME IInv, NEW d \in OtherDelays,
                    OthersAct([at |-> d, mark |-> "other", life |-> 0])
             PROVE  IInv'
  BY DEF OthersSchedule
<1> DEFINE next == [at |-> d, mark |-> "other", life |-> 0]
<1>1. next \in Shutdown /\ next.at >= 0 /\ next.mark = "other" /\ next.life = 0
  BY ConstantTypes DEF Shutdown
<1> QED
  BY <1>1, OthersActKeeps

LEMMA OthersCancelKeeps == IInv /\ OthersCancel => IInv'
  BY OthersActKeeps DEF OthersCancel

LEMMA NextKeeps == IInv /\ [Next]_vars => IInv'
<1> SUFFICES ASSUME IInv, [Next]_vars PROVE IInv'
  OBVIOUS
<1>1. CASE Coordinator
  BY <1>1, OnShutdownKeeps, OnRecoveredKeeps, CheckOursKeeps, LookForAnyKeeps,
     AdoptKeeps, ScheduleKeeps, ScheduleFailsKeeps, ReadBackKeeps, RecoverKeeps,
     CancelKeeps, CancelFailsKeeps
  DEF Coordinator
<1>2. CASE Environment
  BY <1>2, AdviceChangesKeeps, OthersScheduleKeeps, OthersCancelKeeps,
     RestartKeeps, TickKeeps, FireKeeps
  DEF Environment
<1>3. CASE UNCHANGED vars
  BY <1>3
  DEF vars, record, local, ghosts, IInv, FlagsOK, NamesOK, NumbersOK, PendingOK,
      CallState, MineIsUntouched, LocalState, PublishedIsReal, OverrideState,
      RecoveryWithdraws, Mine, SameShutdown
<1> QED
  BY <1>1, <1>2, <1>3 DEF Next

THEOREM InvHolds == Spec => []IInv
  BY InitIInv, NextKeeps, PTL DEF Spec

\* Every variable keeps its type.
THEOREM TypeCorrect == Spec => []TypeOK
<1>1. IInv => TypeOK
  BY DEF IInv, TypeOK
<1> QED
  BY <1>1, InvHolds, PTL

\* Whatever fails, races or restarts: a poweroff this life of the daemon
\* scheduled is on its record, or about to be.
THEOREM NoOrphanAlways == Spec => []NoOrphan
<1>1. IInv => NoOrphan
  BY DEF IInv, MineIsUntouched, PublishedIsReal, NoOrphan
<1> QED
  BY <1>1, InvHolds, PTL

\* The deadline on record is the one logind holds until somebody else acts.
THEOREM PublishedIsRealAlways == Spec => []PublishedIsReal
<1>1. IInv => PublishedIsReal
  BY DEF IInv
<1> QED
  BY <1>1, InvHolds, PTL

\* A recovery that was acted on leaves no poweroff of this life pending.
THEOREM RecoveryWithdrawsAlways == Spec => []RecoveryWithdraws
<1>1. IInv => RecoveryWithdraws
  BY DEF IInv
<1> QED
  BY <1>1, InvHolds, PTL

\* Scheduling never pushes back a poweroff of the same life, nor replaces
\* another one that could be seen.
THEOREM NeverPushedBackAlways == Spec => NeverPushedBack
<1>1. IInv /\ Schedule /\ pending # None =>
        ~Mine(pending) /\ (seen = "Unknown" \/ raced)
  BY DEF IInv, CallState, MineIsUntouched, LocalState, Schedule
<1> QED
  BY <1>1, InvHolds, PTL DEF NeverPushedBack

\* No poweroff is scheduled over an override before a confirmed recovery.
THEOREM OverrideIsRespectedAlways == Spec => OverrideIsRespected
<1>1. IInv /\ Schedule => ~overridden
  BY DEF IInv, CallState, OverrideState, Schedule
<1> QED
  BY <1>1, InvHolds, PTL DEF OverrideIsRespected

\* A cancellation reaches another user's shutdown only unread, raced or
\* within the tolerance.
THEOREM CancelsOnlyOursAlways == Spec => CancelsOnlyOurs
<1>1. IInv /\ Cancel /\ pending # None /\ pending.mark = "other" =>
        seen = "Unknown" \/ raced \/ SameShutdown(ours, pending.at)
  BY DEF IInv, LocalState, Cancel
<1> QED
  BY <1>1, InvHolds, PTL DEF CancelsOnlyOurs

-----------------------------------------------------------------------------
(* When "only our own shutdowns are cancelled" holds as it is written. *)

\* Others schedule far beyond our deadline and the tolerance, logind can
\* always be read, and no two users of logind act at once.
Quiet ==
    /\ \A d \in OtherDelays : d > Delay + Tolerance
    /\ "read" \notin Faults
    /\ ~Races

QInv ==
    /\ ~raced /\ seen # "Unknown"
    /\ ours # None => ours <= Delay
    /\ pending # None /\ pending.mark = "battery" => pending.at <= Delay
    /\ pending # None /\ pending.mark = "other" /\ ours # None =>
          pending.at - ours > Tolerance
    /\ call = "wall" => pending # None /\ due = pending.at
    /\ call = "readback" => Mine(pending)

LEMMA QuietInit == Init => QInv
  BY ConstantTypes DEF Init, QInv, Mine

LEMMA QuietCoordinator ==
    ASSUME Quiet, IInv, QInv, Coordinator
    PROVE  QInv'
<1> USE ConstantTypes DEF IInv, QInv, NumbersOK, PendingOK, Mine
<1>0. PendingStates = {IF pending = None THEN "Nothing" ELSE "At"} /\ Unreadable = {}
  BY DEF Quiet, PendingStates, Unreadable
<1>1. CASE OnShutdown
  BY <1>1 DEF OnShutdown, Enter, local
<1>2. CASE OnRecovered
  BY <1>2 DEF OnRecovered, Enter, local
<1>3. CASE CheckOurs
  BY <1>3 DEF CheckOurs, Return, ghosts
<1>4. CASE LookForAny
  BY <1>0, <1>4 DEF LookForAny, record, ghosts
<1>5. CASE Adopt
  BY <1>0, <1>5 DEF Adopt, WallAnswers, Return, ghosts, CallState
<1>6. CASE Schedule
  BY <1>6 DEF Schedule, Poweroff, record, CallState
<1>7. CASE ScheduleFails
  BY <1>7 DEF ScheduleFails, Return, record, ghosts
<1>8. CASE ReadBack
  BY <1>0, <1>8 DEF ReadBack, Return, ghosts
<1>9. CASE Recover
  BY <1>0, <1>9 DEF Recover, Return, ghosts
<1>10. CASE Cancel
  BY <1>10 DEF Cancel, Return, ghosts
<1>11. CASE CancelFails
  BY <1>11 DEF CancelFails, Return, record
<1> QED
  BY <1>1, <1>2, <1>3, <1>4, <1>5, <1>6, <1>7, <1>8, <1>9, <1>10, <1>11 DEF Coordinator

LEMMA QuietEnvironment ==
    ASSUME Quiet, IInv, QInv, Environment
    PROVE  QInv'
<1>1. CASE AdviceChanges
  BY <1>1 DEF AdviceChanges, QInv, record, local, ghosts, Mine
<1>2. CASE OthersSchedule
  <2>1. PICK d \in OtherDelays : OthersAct([at |-> d, mark |-> "other", life |-> 0])
    BY <1>2 DEF OthersSchedule
  <2>2. d \in Nat /\ d > Delay + Tolerance /\ call = "idle"
    BY <2>1, ConstantTypes DEF Quiet, OthersAct
  <2>3. ~raced'
    BY <2>1, <2>2 DEF OthersAct
  <2>4. pending'.at = d /\ pending'.mark = "other" /\ UNCHANGED <<ours, call, seen>>
    BY <2>1 DEF OthersAct, record, local
  <2>5. ours # None => d - ours > Tolerance
    BY <2>2, ConstantTypes DEF QInv, IInv, NumbersOK
  <2> QED
    BY <2>2, <2>3, <2>4, <2>5 DEF QInv
<1>3. CASE OthersCancel
  BY <1>3 DEF OthersCancel, OthersAct, Quiet, QInv, record, local, Mine
<1>4. CASE Restart
  BY <1>4 DEF Restart, Return, QInv, Mine
<1>5. CASE Tick
  <2>1. /\ pending = None => pending' = None
        /\ pending # None =>
             /\ pending' # None
             /\ pending.at \in Int /\ pending.at > 0 /\ pending'.at = pending.at - 1
             /\ pending'.mark = pending.mark /\ pending'.life = pending.life
    BY <1>5, ConstantTypes DEF Tick, IInv, PendingOK, Shutdown
  <2>2. /\ ours = None => ours' = None
        /\ ours # None =>
             /\ ours \in Int
             /\ ours' = ours - 1 \/ (ours' = ours /\ ours = -(Tolerance + 1))
    BY <1>5 DEF Tick, Age, Floor, IInv, NumbersOK
  <2>3. call = "wall" => pending'.at = due'
    BY <1>5, <2>1, ConstantTypes DEF Tick, Age, Floor, QInv
  <2>4. UNCHANGED <<call, seen, raced, restarts>>
    BY <1>5 DEF Tick, ghosts
  <2>5. Mine(pending)' <=> Mine(pending)
    BY <2>1, <2>4 DEF Mine
  <2>6. pending # None /\ pending.mark = "other" /\ ours # None =>
          pending'.at - ours' > Tolerance
    BY <2>1, <2>2, ConstantTypes DEF QInv
  <2> QED
    BY <2>1, <2>2, <2>3, <2>4, <2>5, <2>6, ConstantTypes DEF QInv
<1>6. CASE Fire
  BY <1>6 DEF Fire, QInv, record, local, ghosts, Mine
<1> QED
  BY <1>1, <1>2, <1>3, <1>4, <1>5, <1>6 DEF Environment

\* In a quiet world, what the module documentation says is so: a shutdown the
\* coordinator cancels is one the battery coordinator placed.
THEOREM OnlyOursCancelledWhenQuiet ==
    ASSUME Quiet
    PROVE  Spec => OnlyOursCancelled
<1>1. IInv /\ QInv /\ [Next]_vars => QInv'
  <2> SUFFICES ASSUME IInv, QInv, [Next]_vars PROVE QInv'
    OBVIOUS
  <2>1. CASE UNCHANGED vars
    BY <2>1 DEF vars, record, local, ghosts, QInv, Mine
  <2> QED
    BY <2>1, QuietCoordinator, QuietEnvironment DEF Next
<1>2. IInv /\ QInv /\ Cancel => pending = None \/ pending.mark = "battery"
  <2> SUFFICES ASSUME IInv, QInv, Cancel, pending # None, pending.mark = "other"
               PROVE  FALSE
    BY DEF IInv, PendingOK, Shutdown
  <2>1. SameShutdown(ours, pending.at) /\ pending.at - ours > Tolerance
    BY DEF Cancel, IInv, QInv, LocalState, CallState
  <2> QED
    BY <2>1, ConstantTypes DEF SameShutdown, IInv, NumbersOK, PendingOK, CallState, Cancel, Shutdown
<1> QED
  BY <1>1, <1>2, QuietInit, InvHolds, PTL DEF Spec, OnlyOursCancelled

\* A dry run leaves logind alone and puts nothing on record, whatever else
\* happens (dry_run).
THEOREM DryRunTouchesNothingAlways == Spec => DryRunTouchesNothing
<1>1. IInv /\ [Next]_vars =>
        [DryRun /\ Coordinator => pending' = pending /\ ours' = None]_vars
  <2> SUFFICES ASSUME IInv, DryRun, Coordinator
               PROVE  pending' = pending /\ ours' = None
    OBVIOUS
  <2>1. call = "idle" /\ ours = None
    BY DEF IInv, CallState
  <2>2. OnShutdown \/ OnRecovered
    BY <2>1 DEF Coordinator, CheckOurs, LookForAny, Adopt, Schedule, ScheduleFails,
           ReadBack, Recover, Cancel, CancelFails
  <2> QED
    BY <2>1, <2>2 DEF OnShutdown, OnRecovered
<1> QED
  BY <1>1, InvHolds, PTL DEF Spec, DryRunTouchesNothing

-----------------------------------------------------------------------------
(* The UPS thread. *)

PolicyType == [known : P!Level, critical_streak : 0..MaxStreak,
               mains_streak : 0..MaxStreak, reported : P!Level]

FileType == [level : P!Level \cup {"none", "absent", "outdated"}, shutdown_at : Int \cup {None}]

LoopFlags == {settled, monitor} \subseteq BOOLEAN

LoopTypes ==
    /\ phase \in Phases
    /\ supply \in Readings
    /\ policy \in PolicyType
    /\ failures \in 0..ReopenAfter
    /\ latest \in FileType /\ file \in FileType
    /\ critRun \in 0..Confirmations /\ mainsRun \in 0..Confirmations

\* A port is open in a round, and not over too many failures.
PortState ==
    /\ phase # "rest" => monitor
    /\ phase \in {"rest", "poll"} /\ monitor => failures < ReopenAfter
    /\ ~monitor \/ failures > 0 => mainsRun = 0 /\ critRun = 0

\* The policy's counters, in terms of the readings.
StreakState ==
    /\ policy.mains_streak < Confirmations => mainsRun = policy.mains_streak
    /\ policy.mains_streak >= Confirmations => mainsRun = Confirmations
    /\ critRun < Confirmations =>
          policy.critical_streak <= critRun /\ policy.known # "Critical"

\* The decision of the round, and the call made for it.
AdviceState ==
    /\ phase \in {"decide", "act"} =>
         /\ advice = "shutdown" => critRun = Confirmations
         /\ advice = "recovered" => mainsRun = Confirmations
         /\ phase = "decide" /\ mainsRun = Confirmations => advice = "recovered"
    /\ call # "idle" => phase = "act"
    /\ call \in {"advised", "wall", "schedule", "readback"} => critRun = Confirmations
    /\ call \in {"recovered", "cancel"} => mainsRun = Confirmations
    /\ phase \in {"act", "rest"} /\ mainsRun = Confirmations => told \in {"recovered", "failed"}

\* What was published last, and the file as far as it could be written.
FileState ==
    /\ phase # "act" /\ latest.level # "absent" /\ Mine(pending) => latest.shutdown_at = ours
    /\ phase = "rest" /\ monitor => latest.shutdown_at = ours
    /\ file \in {latest, Outdated}

TInv == LoopFlags /\ LoopTypes /\ PortState /\ StreakState /\ AdviceState /\ FileState

-----------------------------------------------------------------------------
(* The refinement. *)

LEMMA AdviceOfType == \A d : AdviceOf(d) \in Advices
  BY DEF AdviceOf, Advices

LEMMA PollAdvises ==
    ASSUME advice' \in Advices, on,
           UNCHANGED <<on, pending, record, local, restarts, others, ghosts>>
    PROVE  [Next]_vars
  BY DEF Next, Environment, AdviceChanges, vars

LEMMA ThreadStepIsStep == [ThreadNext]_threadVars => [Next]_vars
<1> SUFFICES ASSUME [ThreadNext]_threadVars PROVE [Next]_vars
  OBVIOUS
<1>1. CASE UNCHANGED threadVars
  BY <1>1 DEF threadVars
<1>2. CASE Open \/ Publish \/ SupplyChanges \/ Settle
  BY <1>2 DEF Open, Publish, SupplyChanges, Settle
<1>3. CASE Answered
  BY <1>3, AdviceOfType, PollAdvises DEF Answered
<1>4. CASE Unanswered
  BY <1>4, AdviceOfType, PollAdvises DEF Unanswered
<1>5. CASE Decide
  BY <1>5 DEF Decide, Next, Coordinator
<1>6. CASE Act
  BY <1>6 DEF Act, Questions, Commands, Next, Coordinator
<1>7. CASE OthersMeddle
  BY <1>7 DEF OthersMeddle, Next, Environment
<1>8. CASE ThreadRestart
  BY <1>8 DEF ThreadRestart, Next, Environment
<1>9. CASE ThreadTick
  BY <1>9 DEF ThreadTick, Next, Environment
<1>10. CASE ThreadFire
  BY <1>10 DEF ThreadFire, Next, Environment
<1> QED
  BY <1>1, <1>2, <1>3, <1>4, <1>5, <1>6, <1>7, <1>8, <1>9, <1>10
  DEF ThreadNext, Thread, World

\* The UPS thread, whatever becomes of its port and its polls, behaves towards
\* logind as the coordinator's specification says.
THEOREM DrivesCoordinatorAlways == ThreadSpec => DrivesCoordinator
<1>1. ThreadInit => Init
  BY DEF ThreadInit
<1> QED
  BY <1>1, ThreadStepIsStep, PTL DEF ThreadSpec, DrivesCoordinator, Spec

LEMMA CoordinatorHolds == ThreadSpec => []IInv
  BY DrivesCoordinatorAlways, InvHolds, PTL DEF DrivesCoordinator

-----------------------------------------------------------------------------
(* The policy, one observation at a time. *)

LEMMA LinkConstants ==
    /\ Confirmations \in Nat \ {0} /\ MaxStreak \in Nat /\ Confirmations <= MaxStreak
    /\ ReopenAfter \in Nat \ {0}
    /\ Readings \subseteq P!Reading
  BY ThreadAssumption DEF P!PolicyAssumption

LEMMA NewPolicyType == P!NewPolicy \in PolicyType
  BY LinkConstants DEF P!NewPolicy, PolicyType, P!Level

LEMMA BumpFacts ==
    ASSUME NEW s \in 0..MaxStreak
    PROVE  /\ P!Bump(s) \in 0..MaxStreak
           /\ P!Bump(s) <= s + 1
           /\ s < MaxStreak => P!Bump(s) = s + 1
           /\ s >= MaxStreak => P!Bump(s) = MaxStreak
  BY LinkConstants DEF P!Bump

LEMMA ObservedFacts ==
    ASSUME NEW p \in PolicyType, NEW o
    PROVE  P!Observed(p, o) \in PolicyType
<1>1. P!MainsStreak(p, o) \in 0..MaxStreak
  BY BumpFacts, LinkConstants DEF P!MainsStreak, PolicyType
<1>2. P!CriticalStreak(p, o) \in 0..MaxStreak
  BY BumpFacts, LinkConstants DEF P!CriticalStreak, PolicyType
<1>3. P!ReportedLevel(p, o) \in P!Level
  BY DEF P!ReportedLevel, P!BatteryLevel, P!Level
<1>4. P!KnownLevel(p, o) \in P!Level
  BY <1>3 DEF P!KnownLevel, P!Level, PolicyType
<1> QED
  BY <1>1, <1>2, <1>3, <1>4 DEF P!Observed, PolicyType

\* A gap confirms nothing.
LEMMA GapFacts ==
    ASSUME NEW p \in PolicyType
    PROVE  LET q == P!Observed(p, P!Gap)
           IN  /\ q.mains_streak = 0 /\ q.critical_streak = 0
               /\ q.known # "Critical" /\ q.reported = "Unknown"
  BY DEF P!Observed, P!Gap, P!IsMains, P!IsBattery, P!IsCritical, P!MainsStreak,
         P!CriticalStreak, P!KnownLevel, P!ReportedLevel

\* Each kind of reading, and what it does to the policy.
LEMMA ReadingKinds ==
    ASSUME NEW o \in Readings
    PROVE  /\ o # P!Gap
           /\ P!IsMains(o) <=> ~P!IsBattery(o)
           /\ P!IsCritical(o) => P!IsBattery(o)
  BY LinkConstants DEF P!Reading, P!Gap, P!IsMains, P!IsBattery, P!IsCritical

LEMMA MainsReading ==
    ASSUME NEW p \in PolicyType, NEW o \in Readings, P!IsMains(o)
    PROVE  LET q == P!Observed(p, o)
           IN  /\ q.mains_streak = P!Bump(p.mains_streak)
               /\ q.known = "OnMains" /\ q.reported = "OnMains"
               /\ q.critical_streak = IF q.mains_streak < Confirmations
                                      THEN p.critical_streak ELSE 0
  BY ReadingKinds DEF P!Observed, P!MainsStreak, P!CriticalStreak, P!KnownLevel, P!ReportedLevel

LEMMA BatteryReading ==
    ASSUME NEW p \in PolicyType, NEW o \in Readings, ~P!IsMains(o)
    PROVE  LET q == P!Observed(p, o)
           IN  /\ q.mains_streak = 0
               /\ q.critical_streak = IF P!IsCritical(o) THEN P!Bump(p.critical_streak) ELSE 0
               /\ q.known = q.reported
               /\ q.known = "Critical" <=>
                     \/ p.known = "Critical" /\ ~P!Clears(o, CriticalPercent)
                     \/ P!IsCritical(o) /\ q.critical_streak >= Confirmations
  BY ReadingKinds DEF P!Observed, P!MainsStreak, P!CriticalStreak, P!KnownLevel,
     P!ReportedLevel, P!BatteryLevel, P!StaysOrTurnsCritical

LEMMA AdviceMeans ==
    ASSUME NEW q, NEW up
    PROVE  LET a == AdviceOf(P!DecisionOn(q, up))
           IN  /\ a = "shutdown" => q.reported = "Critical"
               /\ a = "recovered" <=>
                     q.reported = "OnMains" /\ q.mains_streak >= Confirmations
  BY DEF AdviceOf, P!DecisionOn

-----------------------------------------------------------------------------
(* The invariant. *)

LEMMA TInvInit == ThreadInit => TInv
<1> SUFFICES ASSUME ThreadInit PROVE TInv
  OBVIOUS
<1> USE DEF ThreadInit, Init
<1>1. LoopFlags
  BY DEF LoopFlags
<1>2. LoopTypes
  BY LinkConstants, NewPolicyType DEF LoopTypes, Phases, FileType, NoFile
<1>3. PortState /\ StreakState
  BY LinkConstants DEF PortState, StreakState, P!NewPolicy
<1>4. AdviceState /\ FileState
  BY LinkConstants DEF AdviceState, FileState, Mine
<1> QED
  BY <1>1, <1>2, <1>3, <1>4 DEF TInv

LEMMA OpenKeeps == IInv /\ TInv /\ Open => TInv'
<1> SUFFICES ASSUME IInv, TInv, Open PROVE TInv'
  OBVIOUS
<1> USE DEF TInv
<1>0. UNCHANGED <<on, pending, advice, call, told, ours, restarts, supply, settled,
                  critRun, mainsRun>>
  BY DEF Open, vars, runs, record, local, ghosts
<1>1. PICK port \in (IF monitor THEN {"kept"} ELSE Ports) :
        /\ monitor' = (port \in {"kept", "opened"})
        /\ phase' = IF port \in {"kept", "opened"} THEN "poll" ELSE "rest"
        /\ IF port = "absent" THEN Published(Absence) ELSE UNCHANGED published
        /\ IF port = "opened"
           THEN policy' = P!NewPolicy /\ failures' = 0
           ELSE UNCHANGED <<policy, failures>>
  BY DEF Open
<1>2. phase = "rest" /\ (monitor <=> port = "kept")
  BY ThreadAssumption, <1>1 DEF Open
<1>a. /\ port = "absent" => latest' = Absence /\ file' \in {latest', Outdated}
      /\ port # "absent" => latest' = latest /\ file' = file
  BY <1>1 DEF Published, published
<1>3. LoopFlags'
  BY <1>0, <1>1 DEF LoopFlags
<1>b. Absence \in FileType /\ Outdated \in FileType
  BY DEF FileType, Absence, Outdated
<1>4. LoopTypes'
  BY <1>0, <1>1, <1>a, <1>b, LinkConstants, NewPolicyType DEF LoopTypes, Phases
<1>5. PortState'
  <2>1. CASE port = "kept"
    BY <1>0, <1>1, <1>2, <2>1 DEF PortState
  <2>2. CASE port = "opened"
    <3>1. failures' = 0 /\ monitor' /\ phase' = "poll" /\ ~monitor
      BY <1>1, <1>2, <2>2
    <3>2. mainsRun' = 0 /\ critRun' = 0
      BY <1>0, <3>1 DEF PortState
    <3> QED
      BY <3>1, <3>2, LinkConstants DEF PortState
  <2>3. CASE port \notin {"kept", "opened"}
    BY <1>0, <1>1, <1>2, <2>3 DEF PortState
  <2> QED
    BY <2>1, <2>2, <2>3
<1>6. StreakState'
  BY <1>0, <1>1, <1>2, LinkConstants DEF StreakState, PortState, P!NewPolicy
<1>7. AdviceState'
  BY <1>0, <1>1, <1>2 DEF AdviceState
<1>8. FileState'
  <2>0. phase' \in {"poll", "rest"} /\ Mine(pending)' = Mine(pending) /\ Outdated' = Outdated
    BY <1>0, <1>1 DEF Mine, Outdated
  <2>1. CASE port = "absent"
    <3>1. latest' = Absence
      BY <1>a, <2>1
    <3>2. latest'.level = "absent"
      BY <3>1 DEF Absence
    <3>3. monitor' = (port \in {"kept", "opened"})
      BY <1>1
    <3>4. ~monitor'
      BY <3>3, <2>1
    <3> QED
      BY <1>a, <2>0, <2>1, <3>2, <3>4 DEF FileState
  <2>2. CASE port # "absent"
    <3>1. latest' = latest /\ file' = file /\ ours' = ours /\ phase = "rest"
      BY <1>0, <1>2, <1>a, <2>2
    <3>2. monitor' /\ phase' = "rest" => monitor
      BY <1>1
    <3> QED
      BY <2>0, <3>1, <3>2 DEF FileState
  <2> QED
    BY <2>1, <2>2
<1> QED
  BY <1>3, <1>4, <1>5, <1>6, <1>7, <1>8

LEMMA AnsweredKeeps == IInv /\ TInv /\ Answered => TInv'
<1> SUFFICES ASSUME IInv, TInv, Answered PROVE TInv'
  OBVIOUS
<1> USE DEF TInv
<1>0. /\ UNCHANGED <<on, pending, call, told, ours, restarts, supply, settled, monitor, latest, file>>
      /\ phase = "poll" /\ phase' = "decide" /\ failures' = 0
      /\ policy' = P!Observed(policy, supply)
      /\ Counted
  BY DEF Answered, record, local, ghosts, published
<1>1. PICK up \in UptimesRead : advice' = AdviceOf(P!DecisionOn(policy', up))
  BY DEF Answered
<1>2. /\ policy \in PolicyType /\ supply \in Readings
      /\ critRun \in 0..Confirmations /\ mainsRun \in 0..Confirmations
      /\ policy.critical_streak \in 0..MaxStreak /\ policy.mains_streak \in 0..MaxStreak
  BY DEF LoopTypes, PolicyType
<1>3. policy' \in PolicyType
  BY <1>0, <1>2, ObservedFacts
<1>4. /\ critRun' \in 0..Confirmations
      /\ mainsRun' \in 0..Confirmations
  BY <1>0, <1>2, LinkConstants DEF Counted, Capped
<1>5. StreakState' /\ (policy'.reported = "Critical" => critRun' = Confirmations)
                   /\ (mainsRun' = Confirmations => policy'.reported = "OnMains")
  <2>1. CASE P!IsMains(supply)
    <3>1. /\ policy'.mains_streak = P!Bump(policy.mains_streak)
          /\ policy'.known = "OnMains" /\ policy'.reported = "OnMains"
          /\ policy'.critical_streak = IF policy'.mains_streak < Confirmations
                                       THEN policy.critical_streak ELSE 0
      BY <1>0, <1>2, <2>1, MainsReading
    <3>2. mainsRun' = Capped(mainsRun)
      BY <1>0, <2>1 DEF Counted
    <3>3. critRun' = IF mainsRun' < Confirmations THEN critRun ELSE 0
      BY <1>0, <1>2, <2>1, ReadingKinds DEF Counted
    <3>4. /\ policy'.mains_streak < Confirmations => mainsRun' = policy'.mains_streak
          /\ policy'.mains_streak >= Confirmations => mainsRun' = Confirmations
      BY <1>2, <3>1, <3>2, BumpFacts, LinkConstants DEF StreakState, Capped
    <3> QED
      BY <1>2, <3>1, <3>2, <3>3, <3>4, LinkConstants DEF StreakState
  <2>2. CASE ~P!IsMains(supply)
    <3>1. /\ policy'.mains_streak = 0
          /\ policy'.critical_streak = IF P!IsCritical(supply)
                                       THEN P!Bump(policy.critical_streak) ELSE 0
          /\ policy'.known = policy'.reported
          /\ policy'.known = "Critical" <=>
                \/ policy.known = "Critical" /\ ~P!Clears(supply, CriticalPercent)
                \/ P!IsCritical(supply) /\ policy'.critical_streak >= Confirmations
      BY <1>0, <1>2, <2>2, BatteryReading
    <3>2. mainsRun' = 0
      BY <1>0, <2>2 DEF Counted
    <3>3. CASE P!IsCritical(supply)
      <4>1. critRun' = Capped(critRun)
        BY <1>0, <3>3 DEF Counted
      <4>2. critRun' < Confirmations =>
              policy'.critical_streak <= critRun' /\ policy'.known # "Critical"
        BY <1>2, <3>1, <3>3, <4>1, BumpFacts, LinkConstants DEF StreakState, Capped
      <4> QED
        BY <1>4, <3>1, <3>2, <4>2, LinkConstants DEF StreakState
    <3>4. CASE ~P!IsCritical(supply)
      <4>1. critRun' = IF critRun = Confirmations /\ ~P!Clears(supply, CriticalPercent)
                       THEN critRun ELSE 0
        BY <1>0, <1>2, <2>2, <3>4, ReadingKinds DEF Counted
      <4>2. critRun' < Confirmations =>
              policy'.critical_streak <= critRun' /\ policy'.known # "Critical"
        BY <1>2, <3>1, <3>4, <4>1, LinkConstants DEF StreakState
      <4> QED
        BY <1>4, <3>1, <3>2, <4>2, LinkConstants DEF StreakState
    <3> QED
      BY <3>3, <3>4
  <2> QED
    BY <2>1, <2>2
<1>6. AdviceState'
  <2>1. /\ advice' = "shutdown" => policy'.reported = "Critical"
        /\ advice' = "recovered" <=>
              policy'.reported = "OnMains" /\ policy'.mains_streak >= Confirmations
    BY <1>1, AdviceMeans
  <2>2. /\ mainsRun' = Confirmations => policy'.mains_streak >= Confirmations
        /\ policy'.mains_streak >= Confirmations => mainsRun' = Confirmations
    BY <1>3, <1>4, <1>5, LinkConstants DEF StreakState, PolicyType
  <2>3. call = "idle"
    BY <1>0 DEF AdviceState
  <2> QED
    BY <1>0, <1>5, <2>1, <2>2, <2>3 DEF AdviceState
<1>7. LoopFlags' /\ PortState' /\ FileState'
  BY <1>0, LinkConstants DEF LoopFlags, PortState, FileState, Mine
<1>8. LoopTypes'
  BY <1>0, <1>3, <1>4, LinkConstants DEF LoopTypes, Phases
<1> QED
  BY <1>5, <1>6, <1>7, <1>8

LEMMA UnansweredKeeps == IInv /\ TInv /\ Unanswered => TInv'
<1> SUFFICES ASSUME IInv, TInv, Unanswered PROVE TInv'
  OBVIOUS
<1> USE DEF TInv
<1>0. /\ UNCHANGED <<on, pending, call, told, ours, restarts, supply, settled, monitor, latest, file>>
      /\ phase = "poll" /\ phase' = "decide" /\ failures' = failures + 1
      /\ policy' = P!Observed(policy, P!Gap)
      /\ mainsRun' = 0 /\ critRun' = 0
  BY DEF Unanswered, record, local, ghosts, published
<1>1. PICK up \in UptimesRead : advice' = AdviceOf(P!DecisionOn(policy', up))
  BY DEF Unanswered
<1>2. policy' \in PolicyType
  BY <1>0, ObservedFacts DEF LoopTypes
<1>3. /\ policy'.mains_streak = 0 /\ policy'.critical_streak = 0
      /\ policy'.known # "Critical" /\ policy'.reported = "Unknown"
  BY <1>0, GapFacts DEF LoopTypes
<1>4. advice' \notin {"shutdown", "recovered"}
  BY <1>1, <1>3, AdviceMeans
<1>5. StreakState' /\ AdviceState'
  BY <1>0, <1>3, <1>4, LinkConstants DEF StreakState, AdviceState
<1>6. LoopFlags' /\ FileState'
  BY <1>0 DEF LoopFlags, FileState, Mine
<1>7. LoopTypes' /\ PortState'
  BY <1>0, <1>2, LinkConstants DEF LoopTypes, Phases, PortState
<1> QED
  BY <1>5, <1>6, <1>7

LEMMA DecideKeeps == IInv /\ TInv /\ Decide => TInv'
<1> SUFFICES ASSUME IInv, TInv, Decide PROVE TInv'
  OBVIOUS
<1> USE DEF TInv
<1>0. /\ UNCHANGED <<supply, settled, monitor, policy, failures, latest, file, critRun, mainsRun>>
      /\ phase = "decide" /\ phase' = "act"
  BY DEF Decide, link, published, runs
<1>1. LoopFlags' /\ LoopTypes' /\ PortState' /\ StreakState' /\ FileState'
  BY <1>0 DEF LoopFlags, LoopTypes, Phases, PortState, StreakState, FileState
<1>2. AdviceState'
  <2>1. CASE OnShutdown
    <3>1. /\ advice = "shutdown" /\ advice' = advice /\ told' = "shutdown"
          /\ call' \in {"idle", "advised"}
      BY <2>1 DEF OnShutdown, Enter, local
    <3> QED
      BY <1>0, <3>1, LinkConstants DEF AdviceState
  <2>2. CASE OnRecovered
    <3>1. /\ advice = "recovered" /\ advice' = advice /\ told' = "recovered"
          /\ call' \in {"idle", "recovered"}
      BY <2>2 DEF OnRecovered, Enter, local
    <3> QED
      BY <1>0, <3>1, LinkConstants DEF AdviceState
  <2>3. CASE (advice = "hold" \/ (advice = "shutdown" /\ stood_down)) /\ UNCHANGED vars
    <3>1. advice # "recovered" /\ UNCHANGED <<advice, call, told>>
      BY <2>3 DEF vars, local, ghosts
    <3> QED
      BY <1>0, <3>1 DEF AdviceState
  <2> QED
    BY <2>1, <2>2, <2>3 DEF Decide
<1> QED
  BY <1>1, <1>2

LEMMA ActKeeps == IInv /\ TInv /\ Act => TInv'
<1> SUFFICES ASSUME IInv, TInv, Act PROVE TInv'
  OBVIOUS
<1> USE DEF TInv
<1>0. /\ UNCHANGED <<supply, settled, monitor, policy, failures, latest, file, critRun, mainsRun, phase>>
      /\ phase = "act"
  BY DEF Act, loop, link, published, runs
<1>1. LoopFlags' /\ LoopTypes' /\ PortState' /\ StreakState' /\ FileState'
  BY <1>0 DEF LoopFlags, LoopTypes, PortState, StreakState, FileState
<1>2. advice' = advice /\ (told' = told \/ told' = "failed")
  BY DEF Act, Questions, Commands, CheckOurs, LookForAny, Adopt, ReadBack, Recover,
         Schedule, ScheduleFails, Cancel, CancelFails, ghosts
<1>3. \/ call' = "idle"
      \/ /\ call \in {"advised", "wall", "schedule", "readback"}
         /\ call' \in {"advised", "wall", "schedule", "readback"}
      \/ /\ call \in {"recovered", "cancel"}
         /\ call' \in {"recovered", "cancel"}
  <2>1. CASE Questions
    BY <2>1 DEF Questions, CheckOurs, LookForAny, Adopt, ReadBack, Recover, Return
  <2>2. CASE Commands
    BY <2>2 DEF Commands, Schedule, ScheduleFails, Cancel, CancelFails, Return
  <2> QED
    BY <2>1, <2>2 DEF Act
<1>4. AdviceState'
  BY <1>0, <1>2, <1>3 DEF AdviceState
<1> QED
  BY <1>1, <1>4

LEMMA PublishKeeps == IInv /\ TInv /\ Publish => TInv'
<1> SUFFICES ASSUME IInv, TInv, Publish PROVE TInv'
  OBVIOUS
<1> USE DEF TInv
<1>0. /\ UNCHANGED <<on, pending, advice, call, told, ours, restarts, supply, settled,
                     policy, failures, critRun, mainsRun>>
      /\ phase = "act" /\ phase' = "rest" /\ call = "idle"
      /\ monitor' = (failures < ReopenAfter)
      /\ latest' = [level |-> policy.reported, shutdown_at |-> ours]
      /\ file' \in {latest', Outdated}
  BY DEF Publish, Published, vars, record, local, ghosts, runs
<1>1. ours \in Int \cup {None} /\ policy.reported \in P!Level
  BY DEF IInv, NumbersOK, LoopTypes, PolicyType
<1>2. LoopFlags'
  BY <1>0 DEF LoopFlags
<1>3. LoopTypes'
  <2>1. latest' \in FileType /\ Outdated \in FileType
    BY <1>0, <1>1 DEF FileType, Outdated
  <2> QED
    BY <1>0, <2>1 DEF LoopTypes, Phases
<1>4. PortState'
  <2>1. failures \in Nat /\ monitor
    BY <1>0 DEF LoopTypes, PortState
  <2>2. CASE failures < ReopenAfter
    BY <1>0, <2>1, <2>2 DEF PortState
  <2>3. CASE ~(failures < ReopenAfter)
    <3>0. ~monitor'
      BY <1>0, <2>3
    <3>1. failures > 0
      BY <2>1, <2>3, LinkConstants
    <3>2. mainsRun = 0 /\ critRun = 0
      BY <3>1 DEF PortState
    <3> QED
      BY <1>0, <3>0, <3>2 DEF PortState
  <2> QED
    BY <2>2, <2>3
<1>5. StreakState' /\ AdviceState'
  BY <1>0 DEF StreakState, AdviceState
<1>6. FileState'
  BY <1>0 DEF FileState
<1> QED
  BY <1>2, <1>3, <1>4, <1>5, <1>6

LEMMA OthersMeddleKeeps == IInv /\ TInv /\ OthersMeddle => TInv'
<1> SUFFICES ASSUME IInv, TInv, OthersMeddle PROVE TInv'
  OBVIOUS
<1> USE DEF TInv
<1>0. UNCHANGED <<supply, settled, monitor, policy, failures, latest, file, critRun, mainsRun, phase>>
  BY DEF OthersMeddle, loop, link, published, runs
<1>1. UNCHANGED <<advice, call, told, ours, restarts>> /\ ~Mine(pending)'
  <2>1. CASE OthersSchedule
    <3>1. PICK d \in OtherDelays : OthersAct([at |-> d, mark |-> "other", life |-> 0])
      BY <2>1 DEF OthersSchedule
    <3> QED
      BY <3>1 DEF OthersAct, Mine, record, local
  <2>2. CASE OthersCancel
    BY <2>2 DEF OthersCancel, OthersAct, Mine, record, local
  <2> QED
    BY <2>1, <2>2 DEF OthersMeddle
<1> QED
  BY <1>0, <1>1
  DEF LoopFlags, LoopTypes, PortState, StreakState, AdviceState, FileState

LEMMA RestartThreadKeeps == IInv /\ TInv /\ ThreadRestart => TInv'
<1> SUFFICES ASSUME IInv, TInv, ThreadRestart PROVE TInv'
  OBVIOUS
<1> USE DEF TInv
<1>0. /\ UNCHANGED <<pending, advice, supply, settled>>
      /\ latest' = NoFile /\ file' = Outdated
      /\ phase' = "rest" /\ monitor' = FALSE /\ policy' = P!NewPolicy /\ failures' = 0
      /\ critRun' = 0 /\ mainsRun' = 0
      /\ call' = "idle" /\ told' = "nothing" /\ restarts' = restarts + 1
  BY DEF ThreadRestart, Restart, Return
<1>1. ~Mine(pending)'
  BY <1>0, ConstantTypes DEF IInv, MineIsUntouched, NumbersOK, PendingOK, Shutdown, Mine
<1>2. LoopFlags' /\ PortState' /\ AdviceState'
  BY <1>0, LinkConstants DEF LoopFlags, PortState, AdviceState
<1>3. LoopTypes'
  <2>1. NoFile \in FileType /\ Outdated \in FileType
    BY DEF FileType, NoFile, Outdated
  <2> QED
    BY <1>0, <2>1, LinkConstants, NewPolicyType DEF LoopTypes, Phases
<1>4. StreakState'
  BY <1>0, LinkConstants DEF StreakState, P!NewPolicy
<1>5. FileState'
  BY <1>0, <1>1 DEF FileState
<1> QED
  BY <1>2, <1>3, <1>4, <1>5

LEMMA TickThreadKeeps == IInv /\ TInv /\ ThreadTick => TInv'
<1> SUFFICES ASSUME IInv, TInv, ThreadTick PROVE TInv'
  OBVIOUS
<1> USE DEF TInv
<1>0. /\ UNCHANGED <<advice, call, told, restarts, supply, settled, monitor, policy,
                     failures, critRun, mainsRun, phase>>
      /\ pending' = IF pending = None THEN None ELSE [pending EXCEPT !.at = @ - 1]
      /\ ours' = Age(ours)
      /\ latest' = [latest EXCEPT !.shutdown_at = Age(@)]
      /\ file' = [file EXCEPT !.shutdown_at = Age(@)]
  BY DEF ThreadTick, Tick, link, runs, ghosts
<1>1. Mine(pending)' => Mine(pending)
  BY <1>0, ConstantTypes DEF Mine, IInv, PendingOK, Shutdown
<1>2. ASSUME NEW f \in FileType
      PROVE  LET g == [f EXCEPT !.shutdown_at = Age(@)] IN
               g \in FileType /\ g.level = f.level /\ g.shutdown_at = Age(f.shutdown_at)
  <2>1. f.shutdown_at \in Int \cup {None}
    BY DEF FileType
  <2>2. Age(f.shutdown_at) \in Int \cup {None}
    BY <2>1, ConstantTypes DEF Age, Floor
  <2> QED
    BY <2>2 DEF FileType
<1>3. [Outdated EXCEPT !.shutdown_at = Age(@)] = Outdated
  BY DEF Outdated, Age
<1>4. /\ latest' \in FileType /\ file' \in FileType
      /\ latest'.level = latest.level
      /\ latest'.shutdown_at = Age(latest.shutdown_at)
      /\ file' \in {latest', Outdated}
  BY <1>0, <1>2, <1>3 DEF LoopTypes, FileState
<1>5. LoopFlags' /\ LoopTypes' /\ PortState' /\ StreakState' /\ AdviceState'
  BY <1>0, <1>4 DEF LoopFlags, LoopTypes, PortState, StreakState, AdviceState
<1>6. FileState'
  BY <1>0, <1>1, <1>4 DEF FileState
<1> QED
  BY <1>5, <1>6

LEMMA RestKeeps ==
    TInv /\ (SupplyChanges \/ Settle \/ ThreadFire \/ UNCHANGED threadVars) => TInv'
<1> SUFFICES ASSUME TInv,
                    SupplyChanges \/ Settle \/ ThreadFire \/ UNCHANGED threadVars
             PROVE  TInv'
  OBVIOUS
<1> USE DEF TInv
<1>1. /\ UNCHANGED <<pending, advice, call, told, ours, restarts, phase, monitor, policy,
                     failures, latest, file, critRun, mainsRun>>
      /\ supply' \in Readings
      /\ settled' \in {settled, TRUE}
  BY DEF SupplyChanges, Settle, ThreadFire, Fire, threadVars, vars, loop, link, published, runs,
         record, local, ghosts, LoopTypes
<1>2. LoopFlags'
  BY <1>1 DEF LoopFlags
<1> QED
  BY <1>1, <1>2
  DEF LoopTypes, PortState, StreakState, AdviceState, FileState, Mine

LEMMA TInvStep == IInv /\ TInv /\ [ThreadNext]_threadVars => TInv'
  BY OpenKeeps, AnsweredKeeps, UnansweredKeeps, DecideKeeps, ActKeeps, PublishKeeps,
     OthersMeddleKeeps, RestartThreadKeeps, TickThreadKeeps, RestKeeps
  DEF ThreadNext, Thread, World

THEOREM TInvHolds == ThreadSpec => []TInv
  BY TInvInit, TInvStep, CoordinatorHolds, PTL DEF ThreadSpec

-----------------------------------------------------------------------------
(* What it shows. *)

\* The thread, its policy and the file keep their types, and a port is given up
\* after REOPEN_AFTER failures.
THEOREM ThreadTypeCorrect == ThreadSpec => []ThreadTypeOK
<1>1. TInv => ThreadTypeOK
  BY DEF TInv, LoopFlags, LoopTypes, PortState, ThreadTypeOK, PolicyType, FileType
<1> QED
  BY <1>1, TInvHolds, PTL

\* Logind is only ever used on readings of the present link that confirm each
\* other: losing the link neither places nor takes back a poweroff.
THEOREM ActsOnConfirmedReadingsAlways == ThreadSpec => ActsOnConfirmedReadings
<1>1. TInv /\ Schedule => critRun = Confirmations
  BY DEF TInv, AdviceState, Schedule
<1>2. TInv /\ Cancel => mainsRun = Confirmations
  BY DEF TInv, AdviceState, Cancel
<1> QED
  BY <1>1, <1>2, TInvHolds, PTL DEF ActsOnConfirmedReadings

\* Mains read often enough leaves no poweroff of this life, unless the command
\* to cancel it failed.
THEOREM MainsWithdrawsAlways == ThreadSpec => []MainsWithdraws
<1>1. IInv /\ TInv => MainsWithdraws
  BY DEF IInv, RecoveryWithdraws, TInv, AdviceState, MainsWithdraws
<1> QED
  BY <1>1, CoordinatorHolds, TInvHolds, PTL

\* Between rounds what is published tells of our poweroff as logind holds it:
\* over D-Bus in any case, in the file as far as it could be written.
THEOREM FileHonestAlways == ThreadSpec => []FileHonest
<1>1. IInv /\ TInv => FileHonest
  <2> SUFFICES ASSUME IInv, TInv, phase = "rest"
               PROVE  Honest(latest) /\ (file = Outdated \/ Honest(file))
    BY DEF FileHonest
  <2>1. call = "idle"
    BY DEF TInv, AdviceState
  <2>2. Mine(pending) => ours # None /\ SameShutdown(ours, pending.at)
    BY <2>1 DEF IInv, MineIsUntouched, PublishedIsReal
  <2>3. Honest(latest)
    BY <2>2 DEF IInv, PublishedIsReal, TInv, FileState, Honest
  <2>4. file \in {latest, Outdated}
    BY DEF TInv, FileState
  <2> QED
    BY <2>3, <2>4
<1> QED
  BY <1>1, CoordinatorHolds, TInvHolds, PTL

=============================================================================
