------------------------ MODULE Stm32FirmwareProofs -------------------------
(***************************************************************************)
(* Proofs about the STM32 control program, for every timeout, clock width, *)
(* loop delay below the clock's range, set of wheels and set of frames.    *)
(***************************************************************************)
EXTENDS Stm32Firmware, MotionLifecycleProofs

\* The inductive invariant: the coordinator's own, the motor safety
\* properties, and the auxiliary ones.
MotorInv ==
  /\ GuardTypeOK
  /\ PowerAuthorised
  /\ CommandFresh
  /\ WatchdogMeaning

StopInv ==
  /\ StopTypeOK
  /\ OperationInStep
  /\ ConfirmedUnpowered
  /\ ConfirmationBounded
  /\ StillnessReal

ManagerInv ==
  /\ pc \in Phases
  /\ pending_stop_operation_id \in OperationIds
  /\ stop_confirmation_started \in BOOLEAN
  /\ unsent \in BOOLEAN
  /\ AnswersOut

FirmwareInv ==
  /\ LifecycleInv
  /\ ManagerInv
  /\ MotorInv
  /\ StopInv
  /\ LinkTypeOK /\ LinkFresh
  /\ NoLinkNoSession
  /\ RestBeforeOk

\* Ages advance without wrapping while they are below the clock's range.
LEMMA LaterAge ==
  ASSUME NEW a \in Ages, NEW d \in 0 .. MaxStall
  PROVE  /\ Later(a, d) \in Ages
         /\ a + d < ClockMod => Later(a, d) = a + d
<1>1. a # None
  BY NoneIsNoNumber, ClockAssumption DEF Ages
<1>2. a \in Nat /\ d \in Nat /\ a + d \in Nat
  BY ClockAssumption DEF Ages
<1>3. (a + d) % ClockMod \in 0 .. ClockMod - 1
  BY <1>2, ClockAssumption
<1>4. a + d < ClockMod => (a + d) % ClockMod = a + d
  BY <1>2, ClockAssumption
<1> QED
  BY <1>1, <1>3, <1>4 DEF Later, Ages

\* The age of an invalid instant stays invalid, that of a valid one valid.
LEMMA LaterOptional ==
  ASSUME NEW a \in Ages \cup {None}, NEW d \in 0 .. MaxStall
  PROVE  Later(a, d) \in Ages \cup {None} /\ (Later(a, d) = None <=> a = None)
<1>1. CASE a = None
  BY <1>1 DEF Later
<1>2. CASE a \in Ages
  <2>1. a # None /\ Later(a, d) \in Ages
    BY <1>2, LaterAge, NoneIsNoNumber, ClockAssumption DEF Ages
  <2>2. Later(a, d) # None
    BY <2>1, NoneIsNoNumber, ClockAssumption DEF Ages
  <2> QED
    BY <2>1, <2>2
<1> QED
  BY <1>1, <1>2

\* What a step without a lifecycle call leaves alone.
LEMMA NoCallPreserves ==
  ASSUME LifecycleInv, NoCall
  PROVE  /\ LifecycleInv'
         /\ action'.response = None
         /\ UNCHANGED <<state, latest_sequence, active_operation_id, unsent>>
<1>1. action' = NoAction /\ UNCHANGED <<coordinator, unsent>>
  BY DEF NoCall
<1>2. LifecycleInv'
  BY <1>1, NoActionType, QuietPreserves
<1> QED
  BY <1>1, <1>2, ActionFields DEF NoAction, coordinator

\* A stop attempt leaves the motors off or a stop owed.
LEMMA TryStopEffect ==
  ASSUME GuardTypeOK, WatchdogMeaning, NEW stopped \in BOOLEAN, try_stop(stopped)
  PROVE  /\ GuardTypeOK' /\ WatchdogMeaning'
         /\ driven' = {} \/ stop_pending'
         /\ stopped => driven' = {} /\ ~stop_pending' /\ watchdog' = None
BY DEF GuardTypeOK, WatchdogMeaning, try_stop

\* With the motors off or a stop owed, the motor invariant needs nothing else.
LEMMA StoppedIsSafe ==
  ASSUME GuardTypeOK, WatchdogMeaning, driven = {} \/ stop_pending
  PROVE  MotorInv
BY DEF MotorInv, PowerAuthorised, CommandFresh

\* After a successful guard update the motors are off or the command is fresh.
LEMMA GuardUpdateEffect ==
  ASSUME MotorInv, guard_update(TRUE)
  PROVE  /\ GuardTypeOK' /\ WatchdogMeaning' /\ ~stop_pending'
         /\ \/ driven' = {}
            \/ /\ UNCHANGED <<driven, stop_pending, watchdog>>
               /\ watchdog # None /\ watchdog < MotionTimeout
         /\ driven = {} /\ ~stop_pending => driven' = {}
<1>1. CASE guard_update_due /\ try_stop(TRUE)
  BY <1>1, TryStopEffect DEF MotorInv
<1>2. CASE ~guard_update_due /\ UNCHANGED guard
  <2>1. driven # {} => watchdog # None
    BY <1>2 DEF guard_update_due, MotorInv, PowerAuthorised
  <2>2. watchdog # None => watchdog < MotionTimeout
    BY <1>2, MotionTimeoutAssumption, ClockAssumption
       DEF guard_update_due, watchdog_expired, MotorInv, GuardTypeOK, Ages
  <2> QED
    BY <1>2, <2>1, <2>2 DEF guard, MotorInv, GuardTypeOK, WatchdogMeaning, guard_update_due
<1> QED
  BY <1>1, <1>2 DEF guard_update

\* A manager reset leaves no session and no stop operation.
LEMMA ManagerResetEffect ==
  ASSUME LifecycleInv, StopTypeOK, manager_reset
  PROVE  /\ LifecycleInv' /\ StopInv' /\ NoLinkNoSession'
         /\ action'.response = None
         /\ pending_stop_operation_id' = 0 /\ stop_confirmation_started' = FALSE
         /\ unsent' = FALSE /\ 0 \in OperationIds
<1>1. Reset /\ motion_stop' = None /\ UNCHANGED <<encoder_moved, rest>>
  BY DEF manager_reset, motion_stop_cancel
<1>2. LifecycleInv' /\ action'.response = None
  BY <1>1, ResetPreserves, ActionFields DEF Reset, NoAction
<1>3. /\ state' = "NO_SESSION" /\ latest_sequence' = None /\ active_operation_id' = 0
      /\ pending_stop_operation_id' = 0 /\ stop_confirmation_started' = FALSE
      /\ unsent' = FALSE
  BY <1>1 DEF Reset, reset, receiver_reset, manager_reset
<1>4. StopInv'
  BY <1>1, <1>3 DEF StopInv, StopTypeOK, OperationInStep, ConfirmedUnpowered,
     ConfirmationBounded, StillnessReal
<1> QED
  BY <1>2, <1>3, <1>4, OperationAssumption DEF NoLinkNoSession, OperationIds

\* The state of the stop operation does not change.
LEMMA StopUntouched ==
  ASSUME StopInv, UNCHANGED <<stopVars, manager, active_operation_id>>,
         motion_stop # None => driven' = {} /\ ~stop_pending',
         pc # "update" \/ motion_stop = None
  PROVE  StopInv'
BY DEF StopInv, stopVars, manager, StopTypeOK, OperationInStep, ConfirmedUnpowered,
       ConfirmationBounded, StillnessReal

\* The wheels' real rest time as the clock advances.
LEMMA RestLater ==
  ASSUME StopTypeOK, NEW d \in 0 .. MaxStall, stop_later(d)
  PROVE  /\ encoder_moved' \in BOOLEAN /\ rest' \in 0 .. StopSettle
         /\ ~encoder_moved' => ~encoder_moved /\ rest' = Rested(d)
<1> USE StopAssumption, ClockAssumption
<1>1. rest \in 0 .. StopSettle /\ encoder_moved \in BOOLEAN /\ d \in Nat
  BY DEF StopTypeOK
<1>2. Rested(d) \in 0 .. StopSettle
  BY <1>1 DEF Rested
<1>3. CASE rest' = Rested(d) /\ UNCHANGED encoder_moved
  BY <1>1, <1>2, <1>3
<1>4. CASE \E ago \in 0 .. d : rest' = (IF ago < StopSettle THEN ago ELSE StopSettle)
                               /\ encoder_moved' = TRUE
  <2>1. PICK ago \in 0 .. d : rest' = (IF ago < StopSettle THEN ago ELSE StopSettle)
    BY <1>4
  <2>2. rest' \in 0 .. StopSettle
    BY <1>1, <2>1
  <2> QED
    BY <1>4, <2>2
<1> QED
  BY <1>3, <1>4 DEF stop_later

\* Reading the clock preserves the invariant: no age wraps, because the phases
\* before bounded it.
LEMMA SamplePreserves ==
  ASSUME FirmwareInv, NEW d \in 0 .. MaxStall, Sample(d)
  PROVE  FirmwareInv'
<1> USE DEF FirmwareInv
<1>1. pc = "sample" /\ pc' = "update" /\ UNCHANGED <<driven, stop_pending, manager>>
  BY DEF Sample, From, guard_later
<1>2. LifecycleInv' /\ action'.response = None
      /\ UNCHANGED <<state, latest_sequence, active_operation_id, unsent>>
  BY NoCallPreserves DEF Sample
<1>3. ManagerInv'
  BY <1>1, <1>2 DEF ManagerInv, AnswersOut, Phases, manager
<1>4. link' = Later(link, d) /\ LinkTypeOK' /\ (link' = None <=> link = None)
  BY LaterOptional DEF Sample, LinkTypeOK
<1>5. MotorInv'
  <2>1. watchdog' = Later(watchdog, d)
    BY DEF Sample, guard_later
  <2>2. GuardTypeOK' /\ WatchdogMeaning' /\ (watchdog' = None <=> watchdog = None)
    BY <1>1, <2>1, LaterOptional DEF MotorInv, GuardTypeOK, WatchdogMeaning
  <2>3. PowerAuthorised'
    BY <1>1, <1>2, <1>4, <2>2 DEF MotorInv, PowerAuthorised, synchronized
  <2>4. ASSUME driven # {}, ~stop_pending
        PROVE  watchdog' # None /\ watchdog' < MotionTimeout + MaxStall
    <3>1. watchdog \in Ages /\ watchdog < MotionTimeout /\ watchdog # None
      BY <1>1, <2>4 DEF MotorInv, CommandFresh, GuardTypeOK
    <3>2. watchdog + d < ClockMod
      BY <3>1, MotionTimeoutAssumption, ClockAssumption DEF Ages
    <3>3. watchdog' = watchdog + d
      BY <2>1, <3>1, <3>2, LaterAge
    <3> QED
      BY <2>2, <3>1, <3>3, MotionTimeoutAssumption, ClockAssumption DEF Ages
  <2>5. CommandFresh'
    BY <1>1, <2>4 DEF CommandFresh
  <2> QED
    BY <2>2, <2>3, <2>5 DEF MotorInv
<1>6. StopInv'
  <2>1. CASE motion_stop = None
    <3>1. motion_stop' = None /\ encoder_moved' \in BOOLEAN /\ rest' \in 0 .. StopSettle
      <4>1. motion_stop' = None
        BY <2>1 DEF Sample, stop_later, StopAged
      <4> QED
        BY <4>1, RestLater DEF Sample, StopInv
    <3> QED
      BY <1>1, <1>2, <2>1, <3>1 DEF StopInv, StopTypeOK, OperationInStep,
         ConfirmedUnpowered, ConfirmationBounded, StillnessReal, manager
  <2>2. CASE motion_stop # None
    <3> DEFINE e == motion_stop.elapsed
               s == motion_stop.still
               id == motion_stop.operation_id
    <3>1. e \in Ages /\ s \in Ages /\ id \in Nat /\ s <= e /\ e < StopTimeout
      BY <1>1, <2>2 DEF StopInv, StopTypeOK, MotionStops, ConfirmationBounded
    <3>2. e + d < ClockMod /\ s + d < ClockMod
      BY <3>1, StopAssumption, ClockAssumption DEF Ages
    <3>3. motion_stop' = MakeStop(id, e + d, s + d) /\ e + d \in Ages /\ s + d \in Ages
      BY <2>2, <3>1, <3>2, LaterAge DEF Sample, stop_later, StopAged
    <3>4. /\ motion_stop' \in MotionStops /\ motion_stop' # None
          /\ motion_stop'.operation_id = id
          /\ motion_stop'.elapsed = e + d /\ motion_stop'.still = s + d
      BY <3>1, <3>3, NoneIsNoStop DEF MakeStop, MotionStops
    <3>5. e + d < StopTimeout + MaxStall /\ s + d <= e + d
      BY <3>1, StopAssumption, ClockAssumption DEF Ages
    <3>6. /\ encoder_moved' \in BOOLEAN /\ rest' \in 0 .. StopSettle
          /\ ~encoder_moved' => ~encoder_moved /\ rest' = Rested(d)
      BY RestLater DEF Sample, StopInv
    <3>7. StillnessReal'
      <4> SUFFICES ASSUME ~encoder_moved'
                   PROVE  s + d <= rest' \/ rest' = StopSettle
        BY <3>4 DEF StillnessReal
      <4>1. s <= rest \/ rest = StopSettle
        BY <2>2, <3>6 DEF StopInv, StillnessReal
      <4> QED
        BY <3>1, <3>6, <4>1, StopAssumption, ClockAssumption
           DEF Rested, StopInv, StopTypeOK, Ages
    <3>8. StopTypeOK' /\ ConfirmationBounded'
      BY <1>1, <3>4, <3>5, <3>6 DEF StopTypeOK, ConfirmationBounded
    <3>9. OperationInStep' /\ ConfirmedUnpowered'
      BY <1>1, <1>2, <2>2, <3>4 DEF StopInv, OperationInStep, ConfirmedUnpowered, manager
    <3> QED
      BY <3>7, <3>8, <3>9 DEF StopInv
  <2> QED
    BY <2>1, <2>2
<1>7. LinkFresh' /\ NoLinkNoSession' /\ RestBeforeOk'
  BY <1>1, <1>2, <1>4 DEF LinkFresh, NoLinkNoSession, RestBeforeOk, synchronized
<1> QED
  BY <1>2, <1>3, <1>4, <1>5, <1>6, <1>7

\* The motor invariant across a successful guard update.
LEMMA GuardUpdateIsSafe ==
  ASSUME MotorInv, guard_update(TRUE), UNCHANGED link,
         driven # {} /\ ~stop_pending => UNCHANGED state
  PROVE  MotorInv'
<1>1. CASE driven' = {}
  BY <1>1, GuardUpdateEffect DEF MotorInv, PowerAuthorised, CommandFresh
<1>2. CASE /\ UNCHANGED <<driven, stop_pending, watchdog>>
           /\ watchdog # None /\ watchdog < MotionTimeout
  <2>1. GuardTypeOK' /\ WatchdogMeaning' /\ ~stop_pending'
    BY GuardUpdateEffect
  <2>2. PowerAuthorised'
    BY <1>2, <2>1 DEF MotorInv, PowerAuthorised, synchronized
  <2>3. watchdog < MotionTimeout + MaxStall
    BY <1>2, MotionTimeoutAssumption, ClockAssumption DEF MotorInv, GuardTypeOK, Ages
  <2> QED
    BY <1>2, <2>1, <2>2, <2>3 DEF MotorInv, CommandFresh
<1> QED
  BY <1>1, <1>2, GuardUpdateEffect

\* A failed stop in the guard update leaves the stop owed.
LEMMA UpdateStopFailedPreserves ==
  ASSUME FirmwareInv, UpdateStopFailed
  PROVE  FirmwareInv'
<1> USE DEF FirmwareInv
<1>1. pc = "update" /\ pc' = "recover_update" /\ UNCHANGED <<stopVars, link, manager>>
  BY DEF UpdateStopFailed, From
<1>2. LifecycleInv' /\ action'.response = None
      /\ UNCHANGED <<state, latest_sequence, active_operation_id, unsent>>
  BY NoCallPreserves DEF UpdateStopFailed
<1>3. guard_update_due /\ try_stop(FALSE)
  BY DEF UpdateStopFailed, guard_update
<1>4. MotorInv'
  <2>1. GuardTypeOK' /\ WatchdogMeaning' /\ (driven' = {} \/ stop_pending')
    BY <1>3, TryStopEffect DEF MotorInv
  <2> QED
    BY <2>1 DEF MotorInv, PowerAuthorised, CommandFresh
<1>5. motion_stop = None
  BY <1>3 DEF StopInv, ConfirmedUnpowered, MotorInv, WatchdogMeaning, guard_update_due,
     watchdog_expired
<1>6. StopInv'
  BY <1>1, <1>2, <1>5, StopUntouched
<1>7. /\ ManagerInv' /\ LinkTypeOK' /\ LinkFresh' /\ NoLinkNoSession' /\ RestBeforeOk'
  BY <1>1, <1>2 DEF ManagerInv, AnswersOut, manager, Phases, LinkTypeOK, LinkFresh,
     NoLinkNoSession, RestBeforeOk, synchronized
<1> QED
  BY <1>2, <1>4, <1>6, <1>7

\* A guard update without a stop operation.
LEMMA UpdateIdlePreserves ==
  ASSUME FirmwareInv, UpdateIdle
  PROVE  FirmwareInv'
<1> USE DEF FirmwareInv
<1>1. pc = "update" /\ pc' = "receive" /\ UNCHANGED <<stopVars, link, manager>>
  BY DEF UpdateIdle, From
<1>2. LifecycleInv' /\ action'.response = None
      /\ UNCHANGED <<state, latest_sequence, active_operation_id, unsent>>
  BY NoCallPreserves DEF UpdateIdle
<1>3. MotorInv'
  BY <1>1, <1>2, GuardUpdateIsSafe DEF UpdateIdle
<1>4. motion_stop = None
  BY DEF UpdateIdle, StopInv, OperationInStep
<1>5. StopInv'
  BY <1>1, <1>2, <1>4, StopUntouched
<1>6. /\ ManagerInv' /\ LinkTypeOK' /\ LinkFresh' /\ NoLinkNoSession' /\ RestBeforeOk'
  BY <1>1, <1>2 DEF ManagerInv, AnswersOut, manager, Phases, LinkTypeOK, LinkFresh,
     NoLinkNoSession, RestBeforeOk, synchronized
<1> QED
  BY <1>2, <1>3, <1>5, <1>6

\* Confirmation begins only with the motors off.
LEMMA UpdateBeginPreserves ==
  ASSUME FirmwareInv, UpdateBegin
  PROVE  FirmwareInv'
<1> USE DEF FirmwareInv
<1> DEFINE id == pending_stop_operation_id
<1>1. /\ pc = "update" /\ pc' = "receive" /\ UNCHANGED <<link, pending_stop_operation_id>>
      /\ stop_confirmation_started' = TRUE /\ id # 0 /\ id = active_operation_id
  BY DEF UpdateBegin, From, StopInv, OperationInStep
<1>2. LifecycleInv' /\ action'.response = None
      /\ UNCHANGED <<state, latest_sequence, active_operation_id, unsent>>
  BY NoCallPreserves DEF UpdateBegin
<1>3. MotorInv'
  BY <1>1, <1>2, GuardUpdateIsSafe DEF UpdateBegin
<1>4. StopInv'
  <2>1. /\ motion_stop' = MakeStop(id, 0, 0) /\ encoder_moved' = FALSE /\ rest' = rest
    BY DEF UpdateBegin, motion_stop_begin
  <2>2. id \in Nat /\ 0 \in Ages
    BY OperationAssumption, ClockAssumption DEF ManagerInv, OperationIds, Ages
  <2>3. /\ motion_stop' \in MotionStops /\ motion_stop' # None
        /\ motion_stop'.operation_id = id
        /\ motion_stop'.elapsed = 0 /\ motion_stop'.still = 0
    BY <2>1, <2>2, NoneIsNoStop DEF MakeStop, MotionStops
  <2>4. driven' = {} /\ ~stop_pending'
    <3>1. state \in {"STARTING", "ENDING"}
      BY <1>1 DEF LifecycleInv, OperationOwnership
    <3>2. driven # {} => stop_pending
      BY <3>1 DEF MotorInv, PowerAuthorised
    <3> QED
      BY <3>2, GuardUpdateEffect DEF UpdateBegin
  <2>5. StopTypeOK' /\ OperationInStep' /\ ConfirmedUnpowered'
    BY <1>1, <1>2, <2>1, <2>3, <2>4
       DEF StopInv, StopTypeOK, OperationInStep, ConfirmedUnpowered
  <2>6. ConfirmationBounded' /\ StillnessReal'
    BY <1>1, <2>1, <2>3, StopAssumption, ClockAssumption
       DEF StopInv, StopTypeOK, ConfirmationBounded, StillnessReal
  <2> QED
    BY <2>5, <2>6 DEF StopInv
<1>5. /\ ManagerInv' /\ LinkTypeOK' /\ LinkFresh' /\ NoLinkNoSession' /\ RestBeforeOk'
  BY <1>1, <1>2 DEF ManagerInv, AnswersOut, manager, Phases, LinkTypeOK, LinkFresh,
     NoLinkNoSession, RestBeforeOk, synchronized
<1> QED
  BY <1>2, <1>3, <1>4, <1>5

\* What motion_stop_update finds, from the invariant.
LEMMA StopUpdateFacts ==
  ASSUME FirmwareInv, stop_confirmation_started
  PROVE  /\ motion_stop \in MotionStops /\ motion_stop # None
         /\ motion_stop.operation_id = active_operation_id
         /\ active_operation_id # 0
         /\ driven = {} /\ ~stop_pending
         /\ StillNow \in Ages /\ StillNow <= motion_stop.elapsed
         /\ ~encoder_moved => StillNow <= rest \/ rest = StopSettle
         /\ encoder_moved => StillNow = 0
<1> USE DEF FirmwareInv, StopInv
<1>1. motion_stop \in MotionStops /\ motion_stop # None
  BY DEF StopTypeOK, OperationInStep
<1>2. /\ motion_stop.still \in Ages /\ motion_stop.elapsed \in Ages
      /\ motion_stop.still <= motion_stop.elapsed
  BY <1>1 DEF MotionStops, ConfirmationBounded
<1>3. StillNow \in Ages /\ StillNow <= motion_stop.elapsed
  BY <1>2, ClockAssumption DEF StillNow, Ages
<1> QED
  BY <1>1, <1>3 DEF OperationInStep, ConfirmedUnpowered, StillnessReal, StillNow

\* A confirmation that goes on stays within its deadline.
LEMMA UpdateWaitPreserves ==
  ASSUME FirmwareInv, UpdateWait
  PROVE  FirmwareInv'
<1> USE DEF FirmwareInv
<1>1. pc = "update" /\ pc' = "receive" /\ UNCHANGED <<link, manager>> /\ stop_confirmation_started
  BY DEF UpdateWait, From
<1>2. LifecycleInv' /\ action'.response = None
      /\ UNCHANGED <<state, latest_sequence, active_operation_id, unsent>>
  BY NoCallPreserves DEF UpdateWait
<1>3. MotorInv'
  BY <1>1, <1>2, GuardUpdateIsSafe DEF UpdateWait
<1>4. StopInv'
  <2> DEFINE id == motion_stop.operation_id
             e == motion_stop.elapsed
  <2>1. /\ motion_stop' = MakeStop(id, e, StillNow) /\ encoder_moved' = FALSE /\ rest' = rest
    BY DEF UpdateWait, motion_stop_update
  <2>2. id \in Nat /\ e \in Ages /\ StillNow \in Ages /\ StillNow <= e
    BY <1>1, StopUpdateFacts DEF MotionStops
  <2>3. /\ motion_stop' \in MotionStops /\ motion_stop' # None
        /\ motion_stop'.operation_id = id
        /\ motion_stop'.elapsed = e /\ motion_stop'.still = StillNow
    BY <2>1, <2>2, NoneIsNoStop DEF MakeStop, MotionStops
  <2>4. driven' = {} /\ ~stop_pending'
    BY <1>1, StopUpdateFacts, GuardUpdateEffect DEF UpdateWait
  <2>5. e < StopTimeout
    BY <2>2, StopAssumption DEF UpdateWait, motion_stop_result, Ages
  <2>6. StopTypeOK' /\ OperationInStep' /\ ConfirmedUnpowered'
    BY <1>1, <1>2, <2>1, <2>3, <2>4
       DEF StopInv, StopTypeOK, OperationInStep, ConfirmedUnpowered, manager
  <2>7. ConfirmationBounded'
    BY <1>1, <2>2, <2>3, <2>5, StopAssumption, ClockAssumption DEF ConfirmationBounded, Ages
  <2>8. StillnessReal'
    <3>1. StillNow <= rest \/ rest = StopSettle
      BY <1>1, StopUpdateFacts, StopAssumption DEF StopInv, StopTypeOK
    <3> QED
      BY <2>1, <2>3, <3>1 DEF StillnessReal
  <2> QED
    BY <2>6, <2>7, <2>8 DEF StopInv
<1>5. /\ ManagerInv' /\ LinkTypeOK' /\ LinkFresh' /\ NoLinkNoSession' /\ RestBeforeOk'
  BY <1>1, <1>2 DEF ManagerInv, AnswersOut, manager, Phases, LinkTypeOK, LinkFresh,
     NoLinkNoSession, RestBeforeOk, synchronized
<1> QED
  BY <1>2, <1>3, <1>4, <1>5

\* The confirmed stop is the one the coordinator awaits, so completing it
\* changes the session and leaves no operation; an OK answer means real rest.
LEMMA UpdateCompletePreserves ==
  ASSUME FirmwareInv, NEW sent \in BOOLEAN, UpdateComplete(sent)
  PROVE  FirmwareInv'
<1> USE DEF FirmwareInv
<1> DEFINE id == motion_stop.operation_id
           result == motion_stop_result
<1>1. /\ pc = "update" /\ pc' \in {"receive", "recover_update"}
      /\ UNCHANGED link /\ stop_confirmation_started
      /\ pending_stop_operation_id' = 0 /\ stop_confirmation_started' = FALSE
  BY DEF UpdateComplete
<1>2. /\ motion_stop \in MotionStops /\ id = active_operation_id /\ id # 0
      /\ driven = {} /\ ~stop_pending /\ StillNow \in Ages
      /\ ~encoder_moved => StillNow <= rest \/ rest = StopSettle
      /\ encoder_moved => StillNow = 0
  BY <1>1, StopUpdateFacts
<1>3. result \in {"SUCCESS", "FAILED"}
  BY DEF UpdateComplete, motion_stop_result
<1>4. /\ motion_stop' = None /\ encoder_moved' = FALSE /\ rest' = rest
  BY DEF UpdateComplete, motion_stop_update
<1>5. LifecycleInv'
  <2>1. id \in OperationIds
    BY <1>2 DEF LifecycleInv, TypeOK
  <2> QED
    BY <1>3, <2>1, CompletePreserves DEF UpdateComplete, OperationResults
<1>6. CompleteAwaited(id, result)
  BY <1>2 DEF UpdateComplete, complete_operation, CompleteIgnored, CompletionAwaited,
     LifecycleInv, OperationOwnership
<1>7. active_operation_id' = 0 /\ action' = MakeAction(None, Terminal(pending, CompletionResult(result)), 0)
  BY <1>6 DEF CompleteAwaited
<1>8. driven' = {} /\ ~stop_pending' /\ MotorInv'
  BY <1>1, <1>2, GuardUpdateEffect, GuardUpdateIsSafe DEF UpdateComplete
<1>9. StopInv'
  BY <1>1, <1>4, <1>7 DEF StopInv, StopTypeOK, OperationInStep, ConfirmedUnpowered,
     ConfirmationBounded, StillnessReal
<1>10. NoLinkNoSession'
  BY <1>1, <1>2 DEF NoLinkNoSession, synchronized
<1>11. RestBeforeOk'
  <2> SUFFICES ASSUME action'.response.result = "OK"
               PROVE  rest = StopSettle
    BY <1>4, <1>8 DEF RestBeforeOk
  <2>1. action'.response.result = CompletionResult(result)
    BY <1>7, ActionFields DEF Terminal
  <2>2. result = "SUCCESS"
    BY <1>3, <2>1 DEF CompletionResult
  <2>3. StillNow >= StopSettle
    BY <2>2 DEF motion_stop_result
  <2> QED
    BY <1>2, <2>3, StopAssumption, ClockAssumption DEF StopInv, StopTypeOK, Ages
<1>12. unsent' \in BOOLEAN /\ AnswersOut'
  <2>1. ~unsent
    BY <1>1 DEF ManagerInv, AnswersOut
  <2> QED
    BY <2>1 DEF UpdateComplete, ObserveTransmission, AnswersOut
<1>13. ManagerInv'
  <2>1. 0 \in OperationIds
    BY OperationAssumption DEF OperationIds
  <2> QED
    BY <1>1, <1>12, <2>1 DEF ManagerInv, Phases
<1>14. LinkTypeOK' /\ LinkFresh'
  BY <1>1 DEF LinkTypeOK, LinkFresh, synchronized
<1> QED
  BY <1>5, <1>8, <1>9, <1>10, <1>11, <1>13, <1>14

\* A received frame that makes no lifecycle call, whatever it does to the motors.
LEMMA ReceiveQuietPreserves ==
  ASSUME FirmwareInv, NoCall, UNCHANGED <<stopVars, link, manager>>,
         pc = "receive", pc' \in {"link", "recover_receive"}, MotorInv',
         motion_stop # None => driven' = {} /\ ~stop_pending'
  PROVE  FirmwareInv'
<1> USE DEF FirmwareInv
<1>1. LifecycleInv' /\ action'.response = None
      /\ UNCHANGED <<state, latest_sequence, active_operation_id, unsent>>
  BY NoCallPreserves
<1>2. StopInv'
  BY <1>1, StopUntouched
<1>3. /\ ManagerInv' /\ LinkTypeOK' /\ LinkFresh' /\ NoLinkNoSession' /\ RestBeforeOk'
  BY <1>1 DEF ManagerInv, AnswersOut, manager, Phases, LinkTypeOK, LinkFresh,
     NoLinkNoSession, RestBeforeOk, synchronized
<1> QED
  BY <1>1, <1>2, <1>3

\* A dropped frame and an overflow report change nothing but the phase.
LEMMA ReceiveNothingPreserves ==
  ASSUME FirmwareInv, ReceiveDropped \/ ReceiveOverflow
  PROVE  FirmwareInv'
<1>1. /\ pc = "receive" /\ pc' \in {"link", "recover_receive"}
      /\ NoCall /\ UNCHANGED <<guard, stopVars, link, manager>>
  BY DEF ReceiveDropped, ReceiveOverflow, From
<1>2. UNCHANGED <<driven, stop_pending, watchdog, link>>
  BY <1>1 DEF guard
<1>3. UNCHANGED state
  BY <1>1 DEF NoCall, coordinator
<1>4. MotorInv'
  BY <1>1, <1>2, <1>3 DEF FirmwareInv, MotorInv, GuardTypeOK, PowerAuthorised,
     CommandFresh, WatchdogMeaning, synchronized
<1>5. motion_stop # None => driven' = {} /\ ~stop_pending'
  BY <1>2 DEF FirmwareInv, StopInv, ConfirmedUnpowered
<1> QED
  BY <1>1, <1>4, <1>5, ReceiveQuietPreserves

\* A velocity command of the active session powers wheels only together with a
\* freshly armed watchdog, or leaves a stop owed.
LEMMA ReceiveVelocityPreserves ==
  ASSUME FirmwareInv, NEW session \in MotionSessionIds, NEW command \in SUBSET Wheels,
         ReceiveVelocity(session, command)
  PROVE  FirmwareInv'
<1> USE DEF FirmwareInv
<1>1. /\ pc = "receive" /\ pc' \in {"link", "recover_receive"} /\ state = "ACTIVE"
      /\ link # None /\ NoCall /\ UNCHANGED <<stopVars, link, manager>>
  BY DEF ReceiveVelocity, synchronized
<1>2. UNCHANGED state
  BY <1>1 DEF NoCall, coordinator
<1>3. motion_stop = None
  BY <1>1 DEF LifecycleInv, OperationOwnership, StopInv, OperationInStep
<1>4. GuardTypeOK /\ WatchdogMeaning
  BY DEF MotorInv
<1>5. CASE ApplyAccepted(command)
  <2>1. 0 \in Ages /\ 0 # None /\ 0 < MotionTimeout /\ 0 < MotionTimeout + MaxStall
    BY ClockAssumption, MotionTimeoutAssumption, NoneIsNoNumber DEF Ages
  <2>2. GuardTypeOK' /\ WatchdogMeaning'
    BY <1>4, <1>5, <2>1 DEF ApplyAccepted, GuardTypeOK, WatchdogMeaning
  <2>3. driven' # {} => watchdog' = 0
    BY <1>5 DEF ApplyAccepted
  <2>4. PowerAuthorised' /\ CommandFresh'
    BY <1>1, <1>2, <2>1, <2>3 DEF PowerAuthorised, CommandFresh, synchronized
  <2>5. MotorInv'
    BY <2>2, <2>4 DEF MotorInv
  <2> QED
    BY <1>1, <1>3, <2>5, ReceiveQuietPreserves
<1>6. CASE \E stopped \in BOOLEAN : ApplyRefused(command, stopped)
  <2>1. PICK stopped \in BOOLEAN : ApplyRefused(command, stopped)
    BY <1>6
  <2>2. /\ GuardTypeOK' /\ WatchdogMeaning' /\ (driven' = {} \/ stop_pending')
    BY <1>4, <2>1 DEF ApplyRefused, GuardTypeOK, WatchdogMeaning
  <2>3. MotorInv'
    BY <2>2 DEF MotorInv, PowerAuthorised, CommandFresh
  <2> QED
    BY <1>1, <1>3, <2>3, ReceiveQuietPreserves
<1>7. CASE ApplyBlocked
  <2>1. stop_pending /\ UNCHANGED <<driven, stop_pending, watchdog>>
    BY <1>7 DEF ApplyBlocked, guard
  <2>2. MotorInv'
    BY <1>4, <2>1 DEF MotorInv, GuardTypeOK, WatchdogMeaning, PowerAuthorised, CommandFresh
  <2> QED
    BY <1>1, <1>3, <2>2, ReceiveQuietPreserves
<1> QED
  BY <1>5, <1>6, <1>7 DEF ReceiveVelocity

\* A manager reset with the motors off or a stop owed, on a link that is down
\* or freshly synchronized.
LEMMA ResetStepPreserves ==
  ASSUME FirmwareInv, manager_reset, GuardTypeOK', WatchdogMeaning',
         driven' = {} \/ stop_pending', link' \in {None, 0}, pc' \in Phases,
         pc' = "sample" => link' = None
  PROVE  FirmwareInv'
<1> USE DEF FirmwareInv
<1>1. /\ LifecycleInv' /\ StopInv' /\ NoLinkNoSession'
      /\ action'.response = None
      /\ pending_stop_operation_id' = 0 /\ stop_confirmation_started' = FALSE
      /\ unsent' = FALSE /\ 0 \in OperationIds
  BY ManagerResetEffect DEF StopInv
<1>2. MotorInv'
  BY DEF MotorInv, PowerAuthorised, CommandFresh
<1>3. LinkTypeOK' /\ LinkFresh'
  BY ClockAssumption DEF LinkTypeOK, LinkFresh, Ages, synchronized
<1>4. ManagerInv' /\ RestBeforeOk'
  BY <1>1 DEF ManagerInv, AnswersOut, RestBeforeOk
<1> QED
  BY <1>1, <1>2, <1>3, <1>4

\* LINK_SYNC starts a new epoch.
LEMMA ReceiveLinkSyncPreserves ==
  ASSUME FirmwareInv, NEW valid \in BOOLEAN, NEW stopped \in BOOLEAN,
         NEW sent \in BOOLEAN, ReceiveLinkSync(valid, stopped, sent)
  PROVE  FirmwareInv'
<1>1. /\ pc' = "link" /\ manager_reset /\ try_stop(stopped) /\ link' \in {None, 0}
  BY DEF ReceiveLinkSync, From, handle_link_sync, guard_stop
<1>2. GuardTypeOK' /\ WatchdogMeaning' /\ (driven' = {} \/ stop_pending')
  BY <1>1, TryStopEffect DEF FirmwareInv, MotorInv
<1> QED
  BY <1>1, <1>2, ResetStepPreserves DEF Phases

\* A heartbeat refreshes the link, or the link and the session go with the
\* motors stopped.
LEMMA ReceiveHeartbeatPreserves ==
  ASSUME FirmwareInv, NEW peer, NEW stopped \in BOOLEAN,
         NEW sent \in BOOLEAN, ReceiveHeartbeat(peer, stopped, sent)
  PROVE  FirmwareInv'
<1> USE DEF FirmwareInv
<1>1. /\ pc = "receive" /\ pc' = "link" /\ ResetUnlessKept(link' # None)
      /\ handle_heartbeat(peer, stopped, sent)
  BY DEF ReceiveHeartbeat, From
<1>2. 0 # None
  BY NoneIsNoNumber
<1>3. CASE stop_and_clear(stopped)
  <2>1. link' = None /\ try_stop(stopped)
    BY <1>3 DEF stop_and_clear, guard_stop
  <2>2. manager_reset
    BY <1>1, <2>1 DEF ResetUnlessKept
  <2>3. GuardTypeOK' /\ WatchdogMeaning' /\ (driven' = {} \/ stop_pending')
    BY <2>1, TryStopEffect DEF MotorInv
  <2> QED
    BY <1>1, <2>1, <2>2, <2>3, ResetStepPreserves DEF Phases
<1>4. CASE ~synchronized /\ UNCHANGED <<guard, link>>
  <2>1. link' = None /\ UNCHANGED <<driven, stop_pending, watchdog>>
    BY <1>4 DEF synchronized, guard
  <2>2. manager_reset
    BY <1>1, <2>1 DEF ResetUnlessKept
  <2>3. GuardTypeOK' /\ WatchdogMeaning' /\ (driven' = {} \/ stop_pending')
    BY <1>4, <2>1 DEF MotorInv, GuardTypeOK, WatchdogMeaning, PowerAuthorised
  <2> QED
    BY <1>1, <2>1, <2>2, <2>3, ResetStepPreserves DEF Phases
<1>5. CASE synchronized /\ link' = 0 /\ UNCHANGED guard
  <2>1. link # None /\ UNCHANGED <<driven, stop_pending, watchdog>>
    BY <1>5 DEF synchronized, guard
  <2>2. NoCall /\ UNCHANGED <<stopVars, manager>>
    BY <1>1, <1>2, <1>5 DEF ResetUnlessKept
  <2>3. LifecycleInv' /\ action'.response = None
        /\ UNCHANGED <<state, latest_sequence, active_operation_id, unsent>>
    BY <2>2, NoCallPreserves
  <2>4. MotorInv'
    BY <1>1, <1>2, <1>5, <2>1, <2>3 DEF MotorInv, GuardTypeOK, PowerAuthorised,
       CommandFresh, WatchdogMeaning, synchronized
  <2>5. StopInv'
    <3>1. motion_stop # None => driven' = {} /\ ~stop_pending'
      BY <2>1 DEF StopInv, ConfirmedUnpowered
    <3> QED
      BY <1>1, <2>2, <2>3, <3>1, StopUntouched
  <2>6. LinkTypeOK' /\ LinkFresh' /\ NoLinkNoSession' /\ RestBeforeOk'
    BY <1>1, <1>2, <1>5, <2>3, ClockAssumption
       DEF LinkTypeOK, LinkFresh, NoLinkNoSession, RestBeforeOk, synchronized, Ages
  <2>7. ManagerInv'
    BY <1>1, <2>2, <2>3 DEF ManagerInv, AnswersOut, manager, Phases
  <2> QED
    BY <2>3, <2>4, <2>5, <2>6, <2>7
<1> QED
  BY <1>1, <1>3, <1>4, <1>5 DEF handle_heartbeat

\* Recovery ends the epoch and stops the motors, or owes the stop.
LEMMA RecoverPreserves ==
  ASSUME FirmwareInv, NEW stopped \in BOOLEAN, reset_link_and_stop_motion(stopped)
  PROVE  FirmwareInv'
<1>1. /\ pc' \in {"receive", "link"} /\ manager_reset /\ try_stop(stopped) /\ link' = None
  BY DEF reset_link_and_stop_motion, From, guard_stop
<1>2. GuardTypeOK' /\ WatchdogMeaning' /\ (driven' = {} \/ stop_pending')
  BY <1>1, TryStopEffect DEF FirmwareInv, MotorInv
<1> QED
  BY <1>1, <1>2, ResetStepPreserves DEF Phases

\* The link update ends an epoch whose heartbeat is overdue.
LEMMA LinkUpdatePreserves ==
  ASSUME FirmwareInv, NEW stopped \in BOOLEAN, LinkUpdate(stopped)
  PROVE  FirmwareInv'
<1> USE DEF FirmwareInv
<1>1. pc = "link" /\ pc' = "sample"
  BY DEF LinkUpdate, From
<1>2. CASE HeartbeatOverdue
  <2>1. manager_reset /\ try_stop(stopped) /\ link' = None
    BY <1>2 DEF LinkUpdate, stop_and_clear, guard_stop
  <2>2. GuardTypeOK' /\ WatchdogMeaning' /\ (driven' = {} \/ stop_pending')
    BY <2>1, TryStopEffect DEF MotorInv
  <2> QED
    BY <1>1, <2>1, <2>2, ResetStepPreserves DEF Phases
<1>3. CASE ~HeartbeatOverdue
  <2>1. NoCall /\ UNCHANGED <<driven, stop_pending, watchdog, link, stopVars, manager>>
    BY <1>3 DEF LinkUpdate, guard
  <2>2. LifecycleInv' /\ action'.response = None
        /\ UNCHANGED <<state, latest_sequence, active_operation_id, unsent>>
    BY <2>1, NoCallPreserves
  <2>3. MotorInv'
    BY <1>1, <2>1, <2>2 DEF MotorInv, GuardTypeOK, PowerAuthorised,
       CommandFresh, WatchdogMeaning, synchronized
  <2>4. StopInv'
    <3>1. motion_stop # None => driven' = {} /\ ~stop_pending'
      BY <2>1 DEF StopInv, ConfirmedUnpowered
    <3> QED
      BY <1>1, <2>1, <2>2, <3>1, StopUntouched
  <2>5. LinkTypeOK' /\ NoLinkNoSession' /\ RestBeforeOk'
    BY <1>1, <2>1, <2>2 DEF LinkTypeOK, NoLinkNoSession, RestBeforeOk, synchronized
  <2>6. LinkFresh'
    BY <1>3, <2>1, HeartbeatAssumption, ClockAssumption
       DEF HeartbeatOverdue, LinkFresh, synchronized, LinkTypeOK, Ages
  <2>7. ManagerInv'
    BY <1>1, <2>1, <2>2 DEF ManagerInv, AnswersOut, manager, Phases
  <2> QED
    BY <2>2, <2>3, <2>4, <2>5, <2>6, <2>7
<1> QED
  BY <1>2, <1>3

\* A transaction hands out an operation only when none is in progress, and
\* takes the session out of ACTIVE only by handing one out.
LEMMA HandleKinds ==
  ASSUME LifecycleInv, NEW t \in Transactions, handle_transaction(t)
  PROVE  \/ /\ action'.operation_id # 0
            /\ action'.operation_id = active_operation_id'
            /\ active_operation_id = 0
         \/ /\ action'.operation_id = 0
            /\ UNCHANGED active_operation_id
            /\ state = "ACTIVE" => state' = "ACTIVE"
<1>1. CASE HandleNew(t)
  <2>1. CASE BeginEnsureStopped(t) /\ pending = None
    <3>1. FreshOperationId # 0
      BY FreshOperationIdType DEF LifecycleInv, TypeOK
    <3>2. active_operation_id = 0
      BY <2>1 DEF LifecycleInv, OperationOwnership
    <3> QED
      BY <2>1, <3>1, <3>2, ActionFields DEF BeginEnsureStopped
  <2>2. CASE \E r \in Results : AnswerNow(t, r)
    BY <2>2, ActionFields DEF AnswerNow
  <2>3. CASE Supersede(t) /\ pending \in Transactions
    <3>1. state # "ACTIVE"
      BY <2>3, NoneAssumption DEF LifecycleInv, OperationOwnership
    <3> QED
      BY <2>3, <3>1, ActionFields DEF Supersede
  <2> QED
    BY <1>1, <2>1, <2>2, <2>3, NewKinds
<1>2. CASE HandlePendingRetry(t) \/ HandleCompletedRetry(t) \/ HandleIgnored(t)
  BY <1>2, ActionFields DEF HandlePendingRetry, HandleCompletedRetry, HandleIgnored,
     NoAction, coordinator
<1> QED
  BY <1>1, <1>2 DEF handle_transaction

\* A session command that takes motion away stops the motors in the same step.
LEMMA ReceiveCommandPreserves ==
  ASSUME FirmwareInv, NEW t \in Transactions, NEW sent \in BOOLEAN,
         NEW stopped \in BOOLEAN, ReceiveCommand(t, sent, stopped)
  PROVE  FirmwareInv'
<1> USE DEF FirmwareInv
<1>1. /\ pc = "receive" /\ pc' \in {"link", "recover_receive"} /\ link # None
      /\ UNCHANGED <<stopVars, link>> /\ handle_transaction(t) /\ process_action(stopped)
  BY DEF ReceiveCommand, synchronized
<1>2. LifecycleInv'
  BY <1>1, HandlePreserves
<1>3. LinkTypeOK' /\ LinkFresh' /\ NoLinkNoSession' /\ RestBeforeOk'
  BY <1>1 DEF LinkTypeOK, LinkFresh, NoLinkNoSession, RestBeforeOk, synchronized
<1>4. unsent' \in BOOLEAN /\ AnswersOut'
  <2>1. ~unsent
    BY <1>1 DEF ManagerInv, AnswersOut
  <2> QED
    BY <2>1 DEF ReceiveCommand, ObserveTransmission, AnswersOut
<1>5. CASE /\ action'.operation_id # 0
           /\ action'.operation_id = active_operation_id'
           /\ active_operation_id = 0
  <2>1. /\ pending_stop_operation_id' = active_operation_id'
        /\ stop_confirmation_started' = FALSE /\ try_stop(stopped)
    BY <1>1, <1>5 DEF process_action, guard_stop
  <2>2. GuardTypeOK' /\ WatchdogMeaning' /\ (driven' = {} \/ stop_pending')
    BY <2>1, TryStopEffect DEF MotorInv
  <2>3. MotorInv'
    BY <2>2 DEF MotorInv, PowerAuthorised, CommandFresh
  <2>4. motion_stop = None /\ motion_stop' = None /\ UNCHANGED <<encoder_moved, rest>>
    BY <1>1, <1>5 DEF StopInv, OperationInStep, stopVars
  <2>5. StopInv'
    BY <2>1, <2>4 DEF StopInv, StopTypeOK, OperationInStep, ConfirmedUnpowered,
       ConfirmationBounded, StillnessReal
  <2>6. ManagerInv'
    BY <1>1, <1>2, <1>4, <2>1 DEF ManagerInv, Phases, LifecycleInv, TypeOK
  <2> QED
    BY <1>2, <1>3, <2>3, <2>5, <2>6
<1>6. CASE /\ action'.operation_id = 0
           /\ UNCHANGED active_operation_id
           /\ state = "ACTIVE" => state' = "ACTIVE"
  <2>1. UNCHANGED <<manager, driven, stop_pending, watchdog>>
    BY <1>1, <1>6 DEF process_action, guard
  <2>2. MotorInv'
    BY <1>1, <1>6, <2>1 DEF MotorInv, GuardTypeOK, PowerAuthorised, CommandFresh,
       WatchdogMeaning, synchronized
  <2>3. motion_stop # None => driven' = {} /\ ~stop_pending'
    BY <2>1 DEF StopInv, ConfirmedUnpowered
  <2>4. StopInv'
    BY <1>1, <1>6, <2>1, <2>3, StopUntouched
  <2>5. ManagerInv'
    BY <1>1, <1>4, <2>1 DEF ManagerInv, manager, Phases
  <2> QED
    BY <1>2, <1>3, <2>2, <2>4, <2>5
<1> QED
  BY <1>1, <1>5, <1>6, HandleKinds

\* The program starts with motors off, no link and no session.
LEMMA FirmwareInitEstablishes ==
  ASSUME FirmwareInit
  PROVE  FirmwareInv
<1> USE DEF FirmwareInit
<1>1. LifecycleInv
  BY InitEstablishes
<1>2. MotorInv
  BY DEF guard_init, MotorInv, GuardTypeOK, PowerAuthorised, CommandFresh, WatchdogMeaning
<1>3. StopInv
  <2>1. 0 \in 0 .. StopSettle
    BY StopAssumption
  <2>2. StopTypeOK /\ motion_stop = None
    BY <2>1 DEF stop_init, StopTypeOK
  <2>3. OperationInStep
    BY <2>2 DEF Init, OperationInStep
  <2> QED
    BY <2>2, <2>3 DEF StopInv, ConfirmedUnpowered, ConfirmationBounded, StillnessReal
<1>4. 0 \in OperationIds
  BY OperationAssumption DEF OperationIds
<1>5. ManagerInv
  BY <1>4 DEF ManagerInv, AnswersOut, Phases
<1>6. LinkTypeOK /\ LinkFresh /\ NoLinkNoSession /\ RestBeforeOk
  BY DEF Init, receiver_init, LinkTypeOK, LinkFresh, NoLinkNoSession, RestBeforeOk,
     synchronized
<1> QED
  BY <1>1, <1>2, <1>3, <1>5, <1>6 DEF FirmwareInv

\* Every step of the program preserves its invariant.
LEMMA FirmwareNextPreserves ==
  ASSUME FirmwareInv, [FirmwareNext]_firmwareVars
  PROVE  FirmwareInv'
<1>1. CASE \E d \in 0 .. MaxStall : Sample(d)
  BY <1>1, SamplePreserves
<1>2. CASE manager_update
  BY <1>2, UpdateStopFailedPreserves, UpdateIdlePreserves, UpdateBeginPreserves,
     UpdateWaitPreserves, UpdateCompletePreserves DEF manager_update
<1>3. CASE Receive
  <2>1. CASE \E t \in CommandFrames, sent, stopped \in BOOLEAN :
               ReceiveCommand(t, sent, stopped)
    BY <2>1, ReceiveCommandPreserves, CommandFramesAssumption
  <2>2. CASE \E session \in MotionSessionIds, command \in SUBSET Wheels :
               ReceiveVelocity(session, command)
    BY <2>2, ReceiveVelocityPreserves
  <2>3. CASE ReceiveDropped \/ ReceiveOverflow
    BY <2>3, ReceiveNothingPreserves
  <2>4. CASE \E valid, stopped, sent \in BOOLEAN : ReceiveLinkSync(valid, stopped, sent)
    BY <2>4, ReceiveLinkSyncPreserves
  <2>5. CASE \E peer \in {"INVALID", "UNSYNCHRONIZED", "SYNCHRONIZED"},
               stopped, sent \in BOOLEAN : ReceiveHeartbeat(peer, stopped, sent)
    BY <2>5, ReceiveHeartbeatPreserves
  <2> QED
    BY <1>3, <2>1, <2>2, <2>3, <2>4, <2>5 DEF Receive
<1>4. CASE Recover
  BY <1>4, RecoverPreserves DEF Recover
<1>5. CASE \E stopped \in BOOLEAN : LinkUpdate(stopped)
  BY <1>5, LinkUpdatePreserves
<1>6. CASE UNCHANGED firmwareVars
  <2>1. UNCHANGED <<coordinator, action, driven, stop_pending, watchdog, motion_stop,
                    encoder_moved, rest, link, pending_stop_operation_id,
                    stop_confirmation_started, pc, unsent>>
    BY <1>6 DEF firmwareVars, guard, stopVars, manager
  <2>2. UNCHANGED <<state, latest_sequence, active_operation_id, unsent>>
    BY <2>1 DEF coordinator
  <2>3. LifecycleInv'
    BY <2>1, QuietPreserves DEF FirmwareInv, LifecycleInv, TypeOK
  <2>4. MotorInv'
    BY <2>1, <2>2 DEF FirmwareInv, MotorInv, GuardTypeOK, PowerAuthorised, CommandFresh,
       WatchdogMeaning, synchronized
  <2>5. StopInv'
    BY <2>1, <2>2 DEF FirmwareInv, StopInv, StopTypeOK, OperationInStep,
       ConfirmedUnpowered, ConfirmationBounded, StillnessReal
  <2>6. /\ ManagerInv' /\ LinkTypeOK' /\ LinkFresh' /\ NoLinkNoSession' /\ RestBeforeOk'
    BY <2>1, <2>2 DEF FirmwareInv, ManagerInv, AnswersOut, LinkTypeOK, LinkFresh,
       NoLinkNoSession, RestBeforeOk, synchronized
  <2> QED
    BY <2>3, <2>4, <2>5, <2>6 DEF FirmwareInv
<1> QED
  BY <1>1, <1>2, <1>3, <1>4, <1>5, <1>6 DEF FirmwareNext

\* The inductive invariant holds in every state of the program.
LEMMA FirmwareInvariant == FirmwareSpec => []FirmwareInv
<1>1. FirmwareInit => FirmwareInv
  BY FirmwareInitEstablishes
<1>2. FirmwareInv /\ [FirmwareNext]_firmwareVars => FirmwareInv'
  BY FirmwareNextPreserves
<1> QED
  BY <1>1, <1>2, PTL DEF FirmwareSpec

\* Every variable of the program keeps its type.
THEOREM FirmwareTypes == FirmwareSpec => []FirmwareTypeOK
<1>1. FirmwareInv => FirmwareTypeOK
  BY DEF FirmwareInv, FirmwareTypeOK, LifecycleInv, ManagerInv, MotorInv, StopInv
<1> QED
  BY <1>1, FirmwareInvariant, PTL

\* motion_command_guard.c, stm32_motion_protocol_manager.c and main.c together
\* power a wheel only for an active session on a synchronized link with the
\* watchdog armed, unless the driver failed to stop and the stop is owed; and an
\* answer that could not be sent ends the link epoch before anything else.
THEOREM MotionIsAuthorised == FirmwareSpec => []MotionAuthorised
<1>1. FirmwareInv => MotionAuthorised
  BY DEF FirmwareInv, MotorInv, ManagerInv, MotionAuthorised
<1> QED
  BY <1>1, FirmwareInvariant, PTL

\* No wheel stays powered past the command timeout, whatever timeout, loop
\* delay and traffic.
THEOREM MotionIsFresh == FirmwareSpec => []CommandFresh
<1>1. FirmwareInv => CommandFresh
  BY DEF FirmwareInv, MotorInv
<1> QED
  BY <1>1, FirmwareInvariant, PTL

\* The manager and the coordinator never disagree about the stop operation,
\* and rest is confirmed only with the motors off.
THEOREM OperationsStayInStep == FirmwareSpec => [](OperationInStep /\ ConfirmedUnpowered)
<1>1. FirmwareInv => OperationInStep /\ ConfirmedUnpowered
  BY DEF FirmwareInv, StopInv
<1> QED
  BY <1>1, FirmwareInvariant, PTL

\* A START_SESSION or END_SESSION answered OK means the wheels are off and
\* were at rest for the settle time.
THEOREM OkMeansRest == FirmwareSpec => []RestBeforeOk
<1>1. FirmwareInv => RestBeforeOk
  BY DEF FirmwareInv
<1> QED
  BY <1>1, FirmwareInvariant, PTL

\* A session lives only on a link, and a link only on recent heartbeats.
THEOREM SessionsNeedTheLink == FirmwareSpec => [](NoLinkNoSession /\ LinkFresh)
<1>1. FirmwareInv => NoLinkNoSession /\ LinkFresh
  BY DEF FirmwareInv
<1> QED
  BY <1>1, FirmwareInvariant, PTL

\* A step without a lifecycle call is a Return of the coordinator or no step.
LEMMA NoCallIsQuiet ==
  ASSUME NoCall
  PROVE  Return \/ UNCHANGED vars
BY DEF NoCall, Return, vars

\* Every step of the program is a step of the coordinator or none.
LEMMA FirmwareStepSimulates ==
  ASSUME FirmwareInv, [FirmwareNext]_firmwareVars
  PROVE  [Next]_vars
<1>1. CASE NoCall
  BY <1>1, NoCallIsQuiet DEF Next
<1>2. CASE Reset
  BY <1>2 DEF Next
<1>3. CASE \E t \in CommandFrames : handle_transaction(t)
  BY <1>3, CommandFramesAssumption DEF Next
<1>4. CASE \E sent \in BOOLEAN : UpdateComplete(sent)
  <2>1. /\ complete_operation(motion_stop.operation_id, motion_stop_result)
        /\ motion_stop_result # "PENDING" /\ stop_confirmation_started
    BY <1>4 DEF UpdateComplete
  <2>2. motion_stop_result \in OperationResults
    BY <2>1 DEF motion_stop_result, OperationResults
  <2>3. motion_stop.operation_id \in OperationIds
    BY <2>1, StopUpdateFacts DEF FirmwareInv, LifecycleInv, TypeOK
  <2> QED
    BY <2>1, <2>2, <2>3 DEF Next
<1>5. CASE UNCHANGED firmwareVars
  BY <1>5 DEF firmwareVars, vars
<1>6. CASE \E d \in 0 .. MaxStall : Sample(d)
  BY <1>1, <1>6 DEF Sample
<1>7. CASE manager_update
  BY <1>1, <1>4, <1>7 DEF manager_update, UpdateStopFailed, UpdateIdle, UpdateBegin, UpdateWait
<1>8. CASE Receive
  <2>1. CASE \E t \in CommandFrames, sent, stopped \in BOOLEAN :
               ReceiveCommand(t, sent, stopped)
    BY <1>3, <2>1 DEF ReceiveCommand
  <2>2. CASE \/ ReceiveDropped
             \/ ReceiveOverflow
             \/ \E session \in MotionSessionIds, command \in SUBSET Wheels :
                  ReceiveVelocity(session, command)
    BY <1>1, <2>2 DEF ReceiveDropped, ReceiveOverflow, ReceiveVelocity
  <2>3. CASE \E valid, stopped, sent \in BOOLEAN : ReceiveLinkSync(valid, stopped, sent)
    BY <1>2, <2>3 DEF ReceiveLinkSync, manager_reset
  <2>4. CASE \E peer \in {"INVALID", "UNSYNCHRONIZED", "SYNCHRONIZED"},
               stopped, sent \in BOOLEAN : ReceiveHeartbeat(peer, stopped, sent)
    BY <1>1, <1>2, <2>4 DEF ReceiveHeartbeat, ResetUnlessKept, manager_reset
  <2> QED
    BY <1>8, <2>1, <2>2, <2>3, <2>4 DEF Receive
<1>9. CASE Recover
  BY <1>2, <1>9 DEF Recover, reset_link_and_stop_motion, manager_reset
<1>10. CASE \E stopped \in BOOLEAN : LinkUpdate(stopped)
  BY <1>1, <1>2, <1>10 DEF LinkUpdate, manager_reset
<1> QED
  BY <1>5, <1>6, <1>7, <1>8, <1>9, <1>10 DEF FirmwareNext

\* The whole control program drives the coordinator only in ways the
\* coordinator's specification allows, so what is proved of the coordinator
\* alone holds inside the firmware.
THEOREM FirmwareImplementsLifecycle == FirmwareSpec => LifecycleImplemented
<1>1. FirmwareInit => Init
  BY DEF FirmwareInit
<1>2. FirmwareInv /\ [FirmwareNext]_firmwareVars => [Next]_vars
  BY FirmwareStepSimulates
<1> QED
  BY <1>1, <1>2, FirmwareInvariant, PTL DEF FirmwareSpec, LifecycleImplemented, Spec

=============================================================================
