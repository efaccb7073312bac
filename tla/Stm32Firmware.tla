--------------------------- MODULE Stm32Firmware ----------------------------
(***************************************************************************)
(* The STM32 control program: the main loop of                             *)
(* firmware/stm32/Platform/NucleoF446RE/Core/Src/main.c composing the      *)
(* motion protocol manager (stm32_motion_protocol_manager.c), the          *)
(* lifecycle coordinator, stop confirmation, command guard with watchdog   *)
(* and link manager.                                                       *)
(*                                                                         *)
(* One iteration of the loop is the phases                                 *)
(*   sample -> update -> receive -> link -> sample,                        *)
(* with a recover phase (reset_link_and_stop_motion) after update or       *)
(* receive when their result asks for it.  The clock is read once, in      *)
(* sample.  The peer may send any frame at any time; transmission, the     *)
(* motor driver and the receive queue may fail at any call.                *)
(***************************************************************************)
EXTENDS MotionLifecycleCoordinator, MotionStop, UartLinkManager

CONSTANT CommandFrames  \* the MOTION_COMMAND frames the peer may send

ASSUME CommandFramesAssumption == CommandFrames \subseteq Transactions

VARIABLES
  pc,                         \* phase of the main loop
  pending_stop_operation_id,  \* operation the manager is executing, or 0
  stop_confirmation_started,  \* motion_stop_begin was called for it
  unsent                      \* history: an ACK or a response of this link epoch
                              \* did not go out

manager == <<pending_stop_operation_id, stop_confirmation_started>>

firmwareVars == <<coordinator, action, guard, stopVars, link, manager, pc, unsent>>

Phases ==
  {"sample", "update", "recover_update", "receive", "recover_receive", "link"}

FirmwareTypeOK ==
  /\ TypeOK
  /\ GuardTypeOK
  /\ StopTypeOK
  /\ LinkTypeOK
  /\ pc \in Phases
  /\ pending_stop_operation_id \in OperationIds
  /\ stop_confirmation_started \in BOOLEAN
  /\ unsent \in BOOLEAN

FirmwareInit ==
  /\ Init
  /\ guard_init
  /\ stop_init
  /\ link = None
  /\ pending_stop_operation_id = 0
  /\ stop_confirmation_started = FALSE
  /\ pc = "sample"
  /\ unsent = FALSE

From(phase, next) == pc = phase /\ pc' = next

\* No lifecycle call is made in this step, and so nothing is answered.
NoCall == action' = NoAction /\ UNCHANGED <<coordinator, unsent>>

(***************************************************************************)
(* Motion protocol manager                                                 *)
(***************************************************************************)

\* Faulty variants of manager_reset: the manager keeps its operation; the
\* session is cleared but not the sequence frontier.
manager_reset_keeping_operation ==
  /\ Reset
  /\ motion_stop_cancel
  /\ unsent' = FALSE
  /\ UNCHANGED manager

manager_reset_keeping_frontier ==
  /\ state' = "NO_SESSION"
  /\ motion_session_id' = 0
  /\ active_operation_id' = 0
  /\ pending' = None
  /\ action' = NoAction
  /\ UNCHANGED <<latest_sequence, terminal, next_operation_id>>
  /\ motion_stop_cancel
  /\ pending_stop_operation_id' = 0
  /\ stop_confirmation_started' = FALSE
  /\ unsent' = FALSE

manager_reset ==
  /\ Reset
  /\ motion_stop_cancel
  /\ pending_stop_operation_id' = 0
  /\ stop_confirmation_started' = FALSE
  /\ unsent' = FALSE

\* Whether the frames of the returned action went out; without frames there
\* is nothing to fail.
Transmitted(sent) == sent \/ (action'.ack = None /\ action'.response = None)

ObserveTransmission(sent) == unsent' = (unsent \/ ~Transmitted(sent))

\* An ENSURE_STOPPED operation replaces the manager's own and stops the motors.
process_action(stopped) ==
  IF action'.operation_id # 0
    THEN /\ pending_stop_operation_id' = action'.operation_id
         /\ stop_confirmation_started' = FALSE
         /\ guard_stop(stopped)
    ELSE UNCHANGED <<manager, guard>>

\* guard_update reports STOP_FAILED: nothing else is looked at.
UpdateStopFailed ==
  /\ From("update", "recover_update")
  /\ guard_update(FALSE)
  /\ NoCall
  /\ UNCHANGED <<stopVars, link, manager>>

UpdateIdle ==
  /\ From("update", "receive")
  /\ pending_stop_operation_id = 0
  /\ guard_update(TRUE)
  /\ NoCall
  /\ UNCHANGED <<stopVars, link, manager>>

\* The first motion_stop_update follows at the same clock reading and cannot
\* complete.
UpdateBegin ==
  /\ From("update", "receive")
  /\ pending_stop_operation_id # 0
  /\ ~stop_confirmation_started
  /\ guard_update(TRUE)
  /\ motion_stop_begin(pending_stop_operation_id)
  /\ stop_confirmation_started' = TRUE
  /\ NoCall
  /\ UNCHANGED <<link, pending_stop_operation_id>>

UpdateWait ==
  /\ From("update", "receive")
  /\ pending_stop_operation_id # 0
  /\ stop_confirmation_started
  /\ guard_update(TRUE)
  /\ motion_stop_result = "PENDING"
  /\ motion_stop_update
  /\ NoCall
  /\ UNCHANGED <<link, manager>>

\* The operation is completed and its answer sent; a failed stop or a failed
\* transmission ends the link epoch.
UpdateComplete(sent) ==
  /\ pc = "update"
  /\ pending_stop_operation_id # 0
  /\ stop_confirmation_started
  /\ guard_update(TRUE)
  /\ motion_stop_result # "PENDING"
  /\ motion_stop_update
  /\ complete_operation(motion_stop.operation_id, motion_stop_result)
  /\ pending_stop_operation_id' = 0
  /\ stop_confirmation_started' = FALSE
  /\ pc' = IF Transmitted(sent) /\ motion_stop_result = "SUCCESS"
             THEN "receive" ELSE "recover_update"
  /\ ObserveTransmission(sent)
  /\ UNCHANGED link

manager_update ==
  \/ UpdateStopFailed
  \/ UpdateIdle
  \/ UpdateBegin
  \/ UpdateWait
  \/ \E sent \in BOOLEAN : UpdateComplete(sent)

\* MOTION_COMMAND frame with transaction t.
ReceiveCommand(t, sent, stopped) ==
  /\ pc = "receive"
  /\ synchronized
  /\ handle_transaction(t)
  /\ process_action(stopped)
  /\ pc' = IF Transmitted(sent) THEN "link" ELSE "recover_receive"
  /\ ObserveTransmission(sent)
  /\ UNCHANGED <<stopVars, link>>

\* WHEEL_VELOCITY frame for the active session, converted to command.
ReceiveVelocity(session, command) ==
  /\ pc = "receive"
  /\ synchronized
  /\ state = "ACTIVE"
  /\ session = motion_session_id
  /\ \/ ApplyAccepted(command) /\ pc' = "link"
     \/ /\ \E stopped \in BOOLEAN : ApplyRefused(command, stopped)
        /\ pc' = "recover_receive"
     \/ ApplyBlocked /\ pc' = "recover_receive"
  /\ NoCall
  /\ UNCHANGED <<stopVars, link, manager>>

\* Any other velocity or command frame is dropped: link not synchronized, no
\* active session, another session, a failed conversion, a bad length.
ReceiveDropped ==
  /\ From("receive", "link")
  /\ NoCall
  /\ UNCHANGED <<guard, stopVars, link, manager>>

(***************************************************************************)
(* Link frames, receive errors, recovery                                   *)
(***************************************************************************)

\* The manager is reset when a link epoch starts or the link is down.
ResetUnlessKept(kept) ==
  IF kept THEN NoCall /\ UNCHANGED <<stopVars, manager>> ELSE manager_reset

ReceiveLinkSync(valid, stopped, sent) ==
  /\ From("receive", "link")
  /\ handle_link_sync(valid, stopped, sent)
  /\ manager_reset

ReceiveHeartbeat(peer, stopped, sent) ==
  /\ From("receive", "link")
  /\ handle_heartbeat(peer, stopped, sent)
  /\ ResetUnlessKept(link' # None)

\* The receive queue overflowed.
ReceiveOverflow ==
  /\ From("receive", "recover_receive")
  /\ NoCall
  /\ UNCHANGED <<guard, stopVars, link, manager>>

reset_link_and_stop_motion(stopped) ==
  /\ \/ From("recover_update", "receive")
     \/ From("recover_receive", "link")
  /\ link' = None
  /\ manager_reset
  /\ guard_stop(stopped)

LinkUpdate(stopped) ==
  /\ From("link", "sample")
  /\ IF HeartbeatOverdue
       THEN stop_and_clear(stopped) /\ manager_reset
       ELSE NoCall /\ UNCHANGED <<guard, stopVars, link, manager>>

\* now_ms = HAL_GetTick(), d milliseconds after the last reading.
Sample(d) ==
  /\ From("sample", "update")
  /\ guard_later(d)
  /\ stop_later(d)
  /\ link' = Later(link, d)
  /\ NoCall
  /\ UNCHANGED manager

Receive ==
  \/ \E t \in CommandFrames, sent, stopped \in BOOLEAN :
       ReceiveCommand(t, sent, stopped)
  \/ \E session \in MotionSessionIds, command \in SUBSET Wheels :
       ReceiveVelocity(session, command)
  \/ ReceiveDropped
  \/ \E valid, stopped, sent \in BOOLEAN : ReceiveLinkSync(valid, stopped, sent)
  \/ \E peer \in {"INVALID", "UNSYNCHRONIZED", "SYNCHRONIZED"},
        stopped, sent \in BOOLEAN : ReceiveHeartbeat(peer, stopped, sent)
  \/ ReceiveOverflow

Recover == \E stopped \in BOOLEAN : reset_link_and_stop_motion(stopped)

FirmwareNext ==
  \/ \E d \in 0 .. MaxStall : Sample(d)
  \/ manager_update
  \/ Receive
  \/ Recover
  \/ \E stopped \in BOOLEAN : LinkUpdate(stopped)

FirmwareSpec == FirmwareInit /\ [][FirmwareNext]_firmwareVars

(***************************************************************************)
(* Safety                                                                  *)
(***************************************************************************)

\* Wheels are powered only for an active session on a synchronized link with
\* the watchdog armed; the one exception is a driver that failed to stop, and
\* then the guard owes the stop.
PowerAuthorised ==
  driven # {} =>
    stop_pending \/ (watchdog # None /\ state = "ACTIVE" /\ synchronized)

\* After an ACK or a response that could not be sent (process_action returns
\* TRANSMIT_FAILED) the loop's next step is the recovery: no frame is taken, no
\* session goes on, of which the peer may not know, before the link epoch has ended.
AnswersOut == unsent => pc \in {"recover_update", "recover_receive"}

\* Motion has an authority the peer agrees to: a session on the link with the
\* watchdog armed, all of whose answers have gone out or whose end is next
\* (motion_command_guard.c, process_action, reset_link_and_stop_motion).
MotionAuthorised == PowerAuthorised /\ AnswersOut

\* Once the loop has done its update, wheels stay powered only while the last
\* velocity command is younger than MotionTimeout: heartbeats, retries and
\* lifecycle traffic never prolong motion.
CommandFresh ==
  /\ driven # {} /\ ~stop_pending =>
       watchdog # None /\ watchdog < MotionTimeout + MaxStall
  /\ driven # {} /\ ~stop_pending /\ pc # "update" => watchdog < MotionTimeout

\* The manager executes exactly the operation the coordinator awaits, and its
\* stop confirmation belongs to it.  A mismatch would leave a session command
\* unanswered for ever.
OperationInStep ==
  /\ pending_stop_operation_id = active_operation_id
  /\ stop_confirmation_started <=> (motion_stop # None)
  /\ motion_stop # None =>
       /\ motion_stop.operation_id = active_operation_id
       /\ active_operation_id # 0

\* While rest is being confirmed no wheel is powered and no stop is owed.
ConfirmedUnpowered == motion_stop # None => driven = {} /\ ~stop_pending

\* Without a link there is no session, no pending command and no memory of
\* earlier sequence numbers.
NoLinkNoSession ==
  ~synchronized =>
    state = "NO_SESSION" /\ latest_sequence = None /\ active_operation_id = 0

\* A synchronized link has heard a heartbeat recently at the end of every loop.
LinkFresh == pc = "sample" /\ synchronized => link < HeartbeatTimeout

\* START_SESSION and END_SESSION are answered OK only when no wheel is powered
\* and the wheels really have not moved for the settle time.
RestBeforeOk ==
  action.response # None /\ action.response.result = "OK"
    /\ pc \in {"receive", "recover_update"} =>
      driven = {} /\ ~stop_pending /\ rest = StopSettle

\* Auxiliary invariants, which make the ones above inductive: the watchdog is
\* armed only for powered wheels or an owed stop; the stop confirmation never
\* outlives its deadline by more than a loop; and it never claims more
\* stillness than there was.
WatchdogMeaning == watchdog # None => driven # {} \/ stop_pending

ConfirmationBounded ==
  motion_stop # None =>
    /\ motion_stop.still <= motion_stop.elapsed
    /\ motion_stop.elapsed < StopTimeout + MaxStall
    /\ pc # "update" => motion_stop.elapsed < StopTimeout

StillnessReal ==
  motion_stop # None /\ ~encoder_moved =>
    motion_stop.still <= rest \/ rest = StopSettle

\* Every step of the program, seen through the coordinator's state, is a step
\* the coordinator's own specification allows.
LifecycleImplemented == Spec

(***************************************************************************)
(* Liveness                                                                *)
(*                                                                         *)
(* The loop never blocks (every call is bounded, UART transmission by a    *)
(* timeout), and the SysTick counter advances whatever the loop does.      *)
(***************************************************************************)

LoopFairness ==
  /\ WF_firmwareVars(FirmwareNext)
  /\ SF_firmwareVars(\E d \in 1 .. MaxStall : Sample(d))

\* The motor driver does not refuse to stop for ever.
DriverFairness == SF_firmwareVars(manager_update /\ stop_pending /\ ~stop_pending')

FairFirmwareSpec == FirmwareSpec /\ LoopFairness

DriverFairSpec == FairFirmwareSpec /\ DriverFairness

\* Every stop operation ends, by success, failure or loss of the link: no
\* START_SESSION or END_SESSION stays pending, whatever the encoders, the
\* driver, the transmitter and the peer do.
OperationResolved == active_operation_id # 0 ~> active_operation_id = 0

\* Motion needs a stream of velocity commands: either the wheels are unpowered
\* again and again, or velocity commands of the session arrive again and again;
\* no other traffic keeps them powered.
MotionNeedsCommands ==
  \/ []<>(driven = {})
  \/ []<><<\E session \in MotionSessionIds, command \in SUBSET Wheels :
            ReceiveVelocity(session, command)>>_firmwareVars

=============================================================================
