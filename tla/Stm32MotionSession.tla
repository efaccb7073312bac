------------------------ MODULE Stm32MotionSession --------------------------
(***************************************************************************)
(* The Raspberry Pi's view of a motion session                             *)
(* (software/rpi/src/stm32_motion_session.cpp): one lifecycle transaction  *)
(* at a time, retransmitted until it is answered or the retries run out.   *)
(*                                                                         *)
(* Times are ages (now_ms minus the recorded instant), counted up to the   *)
(* largest limit they are compared with.                                   *)
(***************************************************************************)
EXTENDS Optional

CONSTANTS
  SessionIds,       \* motion session identifiers; 0 means none
  SequenceCount,    \* number of sequence numbers (2^16)
  AckTimeout,       \* ack_timeout_ms_
  TerminalTimeout,  \* terminal_timeout_ms_
  MaxRetries        \* max_retries_

ASSUME MotionSessionAssumption ==
  /\ 0 \in SessionIds /\ SessionIds \subseteq Nat
  /\ SequenceCount \in Nat \ {0}
  /\ AckTimeout \in Nat \ {0} /\ TerminalTimeout \in Nat /\ AckTimeout < TerminalTimeout
  /\ MaxRetries \in Nat

VARIABLES
  session_state,
  active_session_id,
  next_sequence,
  transaction        \* the pending transaction, or None

motionSession == <<session_state, active_session_id, next_sequence, transaction>>

\* An age one tick later.
Aged(age, limit) ==
  CASE age = None -> None
    [] age # None /\ age < limit -> age + 1
    [] OTHER -> limit

PiSequences == 0 .. SequenceCount - 1

\* timer: age of the last transmission or of the ACK, None while the retry
\* timer is not running.
PiTransactions ==
  [command : {"START_SESSION", "END_SESSION"}, session : SessionIds,
   sequence : PiSequences, acked : BOOLEAN, retries : 0 .. MaxRetries,
   timer : 0 .. TerminalTimeout \cup {None}]

ASSUME NoneIsNoTransaction == None \notin PiTransactions

MotionSessionTypeOK ==
  /\ session_state \in {"Inactive", "StartPending", "Active", "EndPending"}
  /\ active_session_id \in SessionIds
  /\ next_sequence \in PiSequences
  /\ transaction \in PiTransactions \cup {None}

motion_session_init ==
  /\ session_state = "Inactive"
  /\ active_session_id = 0
  /\ next_sequence = 1 % SequenceCount
  /\ transaction = None

Begin(command, id) ==
  /\ transaction' = [command |-> command, session |-> id, sequence |-> next_sequence,
                     acked |-> FALSE, retries |-> 0, timer |-> None]
  /\ next_sequence' = (next_sequence + 1) % SequenceCount

begin_start_session(id) ==
  /\ transaction = None
  /\ Begin("START_SESSION", id)
  /\ session_state' = "StartPending"
  /\ active_session_id' = 0

begin_end_session(id) ==
  /\ transaction = None
  /\ session_state = "Active"
  /\ id = active_session_id
  /\ Begin("END_SESSION", id)
  /\ session_state' = "EndPending"
  /\ UNCHANGED active_session_id

mark_pending_transmitted ==
  /\ transaction' = IF transaction = None THEN None ELSE [transaction EXCEPT !.timer = 0]
  /\ UNCHANGED <<session_state, active_session_id, next_sequence>>

\* Faulty variant: every ACK restarts the timeout.
handle_ack_restarting(sequence) ==
  /\ transaction # None
  /\ sequence = transaction.sequence
  /\ transaction' = [transaction EXCEPT !.acked = TRUE,
                                        !.timer = IF transaction.timer = None THEN None ELSE 0]
  /\ UNCHANGED <<session_state, active_session_id, next_sequence>>

\* The first ACK restarts the timeout, now that of the response.
handle_ack(sequence) ==
  /\ transaction # None
  /\ sequence = transaction.sequence
  /\ ~transaction.acked
  /\ transaction' = [transaction EXCEPT !.acked = TRUE,
                                        !.timer = IF transaction.timer = None THEN None ELSE 0]
  /\ UNCHANGED <<session_state, active_session_id, next_sequence>>

\* A response to the pending transaction ends it; an ACK need not have come.
handle_response(sequence, command, id, result) ==
  /\ transaction # None
  /\ sequence = transaction.sequence
  /\ command = transaction.command
  /\ id = transaction.session
  /\ IF command = "START_SESSION" /\ result \in {"OK", "ALREADY_ACTIVE"}
       THEN session_state' = "Active" /\ active_session_id' = id
       ELSE session_state' = "Inactive" /\ active_session_id' = 0
  /\ transaction' = None
  /\ UNCHANGED next_sequence

TransactionTimeout == IF transaction.acked THEN TerminalTimeout ELSE AckTimeout

timed_out ==
  /\ transaction # None
  /\ transaction.timer # None
  /\ transaction.timer >= TransactionTimeout

retry_due == timed_out /\ transaction.retries < MaxRetries

retry_exhausted == timed_out /\ transaction.retries >= MaxRetries

\* The timer stays off until the retry has been sent.
retry ==
  /\ retry_due
  /\ transaction' = [transaction EXCEPT !.retries = @ + 1, !.timer = None]
  /\ UNCHANGED <<session_state, active_session_id, next_sequence>>

\* Faulty variant: sequence numbers begin anew.
motion_session_reset_anew ==
  /\ session_state' = "Inactive"
  /\ active_session_id' = 0
  /\ transaction' = None
  /\ next_sequence' = 1 % SequenceCount

\* Sequence numbers go on after a reset.
motion_session_reset ==
  /\ session_state' = "Inactive"
  /\ active_session_id' = 0
  /\ transaction' = None
  /\ UNCHANGED next_sequence

motion_session_later ==
  /\ transaction' = IF transaction = None
                      THEN None
                      ELSE [transaction EXCEPT !.timer = Aged(@, TerminalTimeout)]
  /\ UNCHANGED <<session_state, active_session_id, next_sequence>>

=============================================================================
