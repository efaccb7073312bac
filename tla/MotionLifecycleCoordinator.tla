--------------------- MODULE MotionLifecycleCoordinator ---------------------
(***************************************************************************)
(* The motion session state machine of the STM32                           *)
(* (protocol/motion_lifecycle_coordinator.c) on top of the reliable        *)
(* receiver it embeds.  START_SESSION and END_SESSION both require the     *)
(* wheels to be brought to rest first: the coordinator hands its caller an *)
(* ENSURE_STOPPED operation with a fresh identifier and waits for          *)
(* complete_operation.                                                     *)
(*                                                                         *)
(* Every entry point returns a MotionLifecycleAction by value; the         *)
(* variable action is the value the last call returned.                    *)
(***************************************************************************)
EXTENDS MotionReliableReceiver

CONSTANT OperationMod  \* number of uint32 operation identifiers (2^32)

VARIABLES
  state,                \* MotionLifecycleState
  motion_session_id,    \* session of the current state, 0 without one
  next_operation_id,    \* last operation identifier handed out
  active_operation_id,  \* operation whose completion is awaited, or 0
  action                \* MotionLifecycleAction returned by the last call

coordinator ==
  <<latest_sequence, pending, terminal, state, motion_session_id,
    next_operation_id, active_operation_id>>

vars == <<coordinator, action>>

ASSUME OperationAssumption == OperationMod \in Nat /\ OperationMod > 1

States == {"NO_SESSION", "STARTING", "ACTIVE", "ENDING"}
OperationIds == 0 .. OperationMod - 1
OperationResults == {"SUCCESS", "FAILED"}

\* operation_id # 0 stands for operation = ENSURE_STOPPED.
Actions ==
  [ack : Transactions \cup {None}, response : Terminals \cup {None},
   operation_id : OperationIds]

MakeAction(ack, response, id) ==
  [ack |-> ack, response |-> response, operation_id |-> id]

NoAction == MakeAction(None, None, 0)

TypeOK ==
  /\ ReceiverTypeOK
  /\ state \in States
  /\ motion_session_id \in MotionSessionIds
  /\ next_operation_id \in OperationIds
  /\ active_operation_id \in OperationIds
  /\ action \in Actions

(***************************************************************************)
(* Handlers of a NEW transaction, one per state and command                *)
(***************************************************************************)

\* next_operation_id++, skipping 0 when it wraps.
FreshOperationId ==
  IF next_operation_id = OperationMod - 1 THEN 1 ELSE next_operation_id + 1

\* Shared by the handlers that require the wheels to stop first.
BeginEnsureStopped(t) ==
  /\ begin_pending(t)
  /\ next_operation_id' = FreshOperationId
  /\ active_operation_id' = FreshOperationId
  /\ action' = MakeAction(t, None, FreshOperationId)

\* Shared by the handlers that answer at once and leave the session alone.
AnswerNow(t, result) ==
  /\ record_immediate_terminal(t, result)
  /\ action' = MakeAction(t, Terminal(t, result), 0)
  /\ UNCHANGED <<state, motion_session_id, next_operation_id, active_operation_id>>

\* Faulty variant: the transaction taken over is never answered.
SupersedeSilently(t) ==
  /\ begin_pending(t)
  /\ action' = MakeAction(t, None, 0)
  /\ UNCHANGED <<next_operation_id, active_operation_id>>

\* Shared by the handlers that take over the stop already in progress: the
\* transaction it was started for is answered SUPERSEDED.
Supersede(t) ==
  /\ begin_pending(t)
  /\ action' = MakeAction(t, Terminal(pending, "SUPERSEDED"), 0)
  /\ UNCHANGED <<next_operation_id, active_operation_id>>

handle_start_no_session(t) ==
  /\ state = "NO_SESSION"
  /\ t.command = "START_SESSION"
  /\ BeginEnsureStopped(t)
  /\ state' = "STARTING"
  /\ motion_session_id' = t.motion_session_id

handle_start_already_active(t) ==
  /\ state = "ACTIVE"
  /\ t.command = "START_SESSION"
  /\ t.motion_session_id = motion_session_id
  /\ AnswerNow(t, "ALREADY_ACTIVE")

handle_start_replacing_active(t) ==
  /\ state = "ACTIVE"
  /\ t.command = "START_SESSION"
  /\ t.motion_session_id # motion_session_id
  /\ BeginEnsureStopped(t)
  /\ state' = "STARTING"
  /\ motion_session_id' = t.motion_session_id

handle_end_active(t) ==
  /\ state = "ACTIVE"
  /\ t.command = "END_SESSION"
  /\ t.motion_session_id = motion_session_id
  /\ BeginEnsureStopped(t)
  /\ state' = "ENDING"
  /\ UNCHANGED motion_session_id

\* handle_end_session_mismatch and its _while_starting and _while_ending
\* variants, which are the same code.
handle_end_session_mismatch(t) ==
  /\ state \in {"ACTIVE", "STARTING", "ENDING"}
  /\ t.command = "END_SESSION"
  /\ t.motion_session_id # motion_session_id
  /\ AnswerNow(t, "SESSION_MISMATCH")

handle_end_no_session(t) ==
  /\ state = "NO_SESSION"
  /\ t.command = "END_SESSION"
  /\ AnswerNow(t, "ALREADY_ENDED")

handle_start_while_starting(t) ==
  /\ state = "STARTING"
  /\ t.command = "START_SESSION"
  /\ Supersede(t)
  /\ motion_session_id' = t.motion_session_id
  /\ UNCHANGED state

handle_end_while_starting(t) ==
  /\ state = "STARTING"
  /\ t.command = "END_SESSION"
  /\ t.motion_session_id = motion_session_id
  /\ Supersede(t)
  /\ state' = "ENDING"
  /\ UNCHANGED motion_session_id

handle_start_while_ending(t) ==
  /\ state = "ENDING"
  /\ t.command = "START_SESSION"
  /\ AnswerNow(t, "BUSY_STOPPING")

handle_end_while_ending(t) ==
  /\ state = "ENDING"
  /\ t.command = "END_SESSION"
  /\ t.motion_session_id = motion_session_id
  /\ Supersede(t)
  /\ UNCHANGED <<state, motion_session_id>>

handle_invalid_command(t) ==
  /\ t.command = "UNKNOWN"
  /\ AnswerNow(t, "INVALID_COMMAND")

(***************************************************************************)
(* Entry points                                                            *)
(***************************************************************************)

HandleNew(t) ==
  /\ classify(t) = "NEW"
  /\ \/ handle_start_no_session(t)
     \/ handle_start_already_active(t)
     \/ handle_start_replacing_active(t)
     \/ handle_end_active(t)
     \/ handle_end_session_mismatch(t)
     \/ handle_end_no_session(t)
     \/ handle_start_while_starting(t)
     \/ handle_end_while_starting(t)
     \/ handle_start_while_ending(t)
     \/ handle_end_while_ending(t)
     \/ handle_invalid_command(t)

HandlePendingRetry(t) ==
  /\ classify(t) = "PENDING_RETRY"
  /\ action' = MakeAction(t, None, 0)
  /\ UNCHANGED coordinator

HandleCompletedRetry(t) ==
  /\ classify(t) = "COMPLETED_RETRY"
  /\ action' = MakeAction(terminal.transaction, terminal, 0)
  /\ UNCHANGED coordinator

HandleIgnored(t) ==
  /\ classify(t) \in {"STALE", "COLLISION", "INVALID"}
  /\ action' = NoAction
  /\ UNCHANGED coordinator

handle_transaction(t) ==
  \/ HandleNew(t)
  \/ HandlePendingRetry(t)
  \/ HandleCompletedRetry(t)
  \/ HandleIgnored(t)

\* A completion is taken only for the operation that is awaited.
CompletionAwaited(id) ==
  /\ id # 0
  /\ id = active_operation_id
  /\ pending # None
  /\ state \in {"STARTING", "ENDING"}

CompletionResult(result) == IF result = "SUCCESS" THEN "OK" ELSE "STOP_FAILED"

CompleteAwaited(id, result) ==
  /\ CompletionAwaited(id)
  /\ active_operation_id' = 0
  /\ complete_pending(CompletionResult(result))
  /\ action' = MakeAction(None, Terminal(pending, CompletionResult(result)), 0)
  /\ IF state = "STARTING" /\ result = "SUCCESS"
       THEN state' = "ACTIVE" /\ UNCHANGED motion_session_id
       ELSE state' = "NO_SESSION" /\ motion_session_id' = 0
  /\ UNCHANGED next_operation_id

CompleteIgnored(id) ==
  /\ ~CompletionAwaited(id)
  /\ action' = NoAction
  /\ UNCHANGED coordinator

complete_operation(id, result) == CompleteAwaited(id, result) \/ CompleteIgnored(id)

\* Faulty variant: operation identifiers start over.
reset_with_identifiers ==
  /\ receiver_reset
  /\ state' = "NO_SESSION"
  /\ motion_session_id' = 0
  /\ active_operation_id' = 0
  /\ next_operation_id' = 0

\* next_operation_id survives a reset.
reset ==
  /\ receiver_reset
  /\ state' = "NO_SESSION"
  /\ motion_session_id' = 0
  /\ active_operation_id' = 0
  /\ UNCHANGED next_operation_id

Reset == reset /\ action' = NoAction

\* The caller has used the returned action; nothing else happens.
Return ==
  /\ action # NoAction
  /\ action' = NoAction
  /\ UNCHANGED coordinator

Init ==
  /\ receiver_init
  /\ state = "NO_SESSION"
  /\ motion_session_id = 0
  /\ next_operation_id = 0
  /\ active_operation_id = 0
  /\ action = NoAction

Next ==
  \/ \E t \in Transactions : handle_transaction(t)
  \/ \E id \in OperationIds, result \in OperationResults :
       complete_operation(id, result)
  \/ Reset
  \/ Return

Spec == Init /\ [][Next]_vars

(***************************************************************************)
(* Properties                                                              *)
(***************************************************************************)

\* A stop operation, a pending transaction and a transitional state stand and
\* fall together, and the pending transaction is the one the state is for:
\* STARTING works on a START_SESSION, ENDING on an END_SESSION, both for the
\* session the coordinator holds (the supersede and reset paths of
\* motion_lifecycle_coordinator.c).
OperationOwnership ==
  /\ (state \in {"STARTING", "ENDING"}) <=> (pending # None)
  /\ (pending # None) <=> (active_operation_id # 0)
  /\ pending # None =>
       /\ pending.motion_session_id = motion_session_id
       /\ pending.command =
            IF state = "STARTING" THEN "START_SESSION" ELSE "END_SESSION"

\* The frontier is always explained by the answered or the pending
\* transaction, and a cached answer is always the frontier's: classify never
\* falls through to INVALID, a retransmission of the newest accepted
\* transaction is always recognised, and no retry is served a result that
\* belongs to an older transaction.
FrontierExplained ==
  /\ latest_sequence # None => AnsweredFrontier \/ PendingFrontier
  /\ latest_sequence = None => pending = None
  /\ terminal # None => AnsweredFrontier

=============================================================================
