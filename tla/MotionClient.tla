---------------------------- MODULE MotionClient ----------------------------
(***************************************************************************)
(* What the Raspberry Pi's client promises its peer: the sessions of       *)
(* stm32_link_session.cpp and stm32_motion_session.cpp as an observer of   *)
(* the line sees them, without clocks.  Timers, ports and transmissions    *)
(* may fail at any moment, so a retry, a heartbeat and the loss of the     *)
(* connection may come whenever the state allows them.                     *)
(*                                                                         *)
(* Stm32ClientRunner implements this specification                         *)
(* (ClientRunnerRefinement); RobotLink composes it with the STM32.         *)
(***************************************************************************)
EXTENDS Optional

CONSTANTS
  SessionIds,     \* motion session identifiers; 0 means none
  SequenceCount,  \* number of sequence numbers (2^16)
  MaxRetries      \* max_retries_

VARIABLES
  session_state,      \* state of the motion session
  active_session_id,
  next_sequence,      \* next sequence number of a lifecycle command
  transaction,        \* the pending lifecycle command, or None
  link_state,
  link_sequence,      \* next sequence number of LINK_SYNC and heartbeats
  awaited             \* sequence number of the answer the link waits for

clientSession == <<session_state, active_session_id, next_sequence, transaction>>
clientLink == <<link_state, link_sequence, awaited>>
client == <<clientSession, clientLink>>

ClientSequences == 0 .. SequenceCount - 1
LifecycleCommands == {"START_SESSION", "END_SESSION"}

ClientTransactions ==
  [command : LifecycleCommands, session : SessionIds, sequence : ClientSequences,
   acked : BOOLEAN, retries : 0 .. MaxRetries]

ClientTypeOK ==
  /\ session_state \in {"Inactive", "StartPending", "Active", "EndPending"}
  /\ active_session_id \in SessionIds
  /\ next_sequence \in ClientSequences
  /\ transaction \in ClientTransactions \cup {None}
  /\ link_state \in {"Disconnected", "SyncPending", "Synchronized"}
  /\ link_sequence \in ClientSequences
  /\ awaited \in ClientSequences \cup {None}

\* The number after sequence, in 16 bits.
NextAfter(sequence) == (sequence + 1) % SequenceCount

ClientInit ==
  /\ session_state = "Inactive"
  /\ active_session_id = 0
  /\ next_sequence = 1 % SequenceCount
  /\ transaction = None
  /\ link_state = "Disconnected"
  /\ link_sequence = 1 % SequenceCount
  /\ awaited = None

\* The session is gone; sequence numbers go on.
SessionDropped ==
  /\ session_state' = "Inactive"
  /\ active_session_id' = 0
  /\ transaction' = None
  /\ UNCHANGED next_sequence

\* A connection is opened and LINK_SYNC sent.
Synchronize ==
  /\ link_state = "Disconnected"
  /\ link_state' = "SyncPending"
  /\ awaited' = link_sequence
  /\ link_sequence' = NextAfter(link_sequence)
  /\ SessionDropped

\* A timeout, a failed port or transmission, a peer that is unsynchronized.
Disconnect ==
  /\ link_state' = "Disconnected"
  /\ awaited' = None
  /\ UNCHANGED link_sequence
  /\ SessionDropped

SyncAnswered(sequence) ==
  /\ link_state = "SyncPending"
  /\ sequence = awaited
  /\ link_state' = "Synchronized"
  /\ awaited' = None
  /\ UNCHANGED <<link_sequence, clientSession>>

\* A new heartbeat replaces an unanswered one.
HeartbeatMade ==
  /\ link_state = "Synchronized"
  /\ awaited' = link_sequence
  /\ link_sequence' = NextAfter(link_sequence)
  /\ UNCHANGED <<link_state, clientSession>>

HeartbeatAnswered(sequence) ==
  /\ link_state = "Synchronized"
  /\ awaited # None
  /\ sequence = awaited
  /\ awaited' = None
  /\ UNCHANGED <<link_state, link_sequence, clientSession>>

CommandBegun(command, id) ==
  /\ link_state = "Synchronized"
  /\ transaction = None
  /\ transaction' = [command |-> command, session |-> id, sequence |-> next_sequence,
                     acked |-> FALSE, retries |-> 0]
  /\ next_sequence' = NextAfter(next_sequence)
  /\ UNCHANGED clientLink

StartBegun(id) ==
  /\ id # 0
  /\ session_state = "Inactive"
  /\ CommandBegun("START_SESSION", id)
  /\ session_state' = "StartPending"
  /\ active_session_id' = 0

EndBegun ==
  /\ session_state = "Active"
  /\ CommandBegun("END_SESSION", active_session_id)
  /\ session_state' = "EndPending"
  /\ UNCHANGED active_session_id

\* Faulty variant: a retry counts as a command of its own.
CommandRetriedAnew ==
  /\ transaction # None
  /\ transaction.retries < MaxRetries
  /\ transaction' = [transaction EXCEPT !.retries = @ + 1, !.sequence = next_sequence]
  /\ next_sequence' = NextAfter(next_sequence)
  /\ UNCHANGED <<session_state, active_session_id, clientLink>>

\* A retry has the sequence number of the command.
CommandRetried ==
  /\ transaction # None
  /\ transaction.retries < MaxRetries
  /\ transaction' = [transaction EXCEPT !.retries = @ + 1]
  /\ UNCHANGED <<session_state, active_session_id, next_sequence, clientLink>>

AckTaken(sequence) ==
  /\ transaction # None
  /\ sequence = transaction.sequence
  /\ transaction' = [transaction EXCEPT !.acked = TRUE]
  /\ UNCHANGED <<session_state, active_session_id, next_sequence, clientLink>>

ResponseTaken(sequence, command, id, result) ==
  /\ transaction # None
  /\ sequence = transaction.sequence
  /\ command = transaction.command
  /\ id = transaction.session
  /\ IF command = "START_SESSION" /\ result \in {"OK", "ALREADY_ACTIVE"}
       THEN session_state' = "Active" /\ active_session_id' = id
       ELSE session_state' = "Inactive" /\ active_session_id' = 0
  /\ transaction' = None
  /\ UNCHANGED <<next_sequence, clientLink>>

ClientResults == {"OK", "ALREADY_ACTIVE", "STOP_FAILED"}

\* The client with any peer.
ClientNext ==
  \/ Synchronize
  \/ Disconnect
  \/ HeartbeatMade
  \/ \E id \in SessionIds : StartBegun(id)
  \/ EndBegun
  \/ CommandRetried
  \/ \E sequence \in ClientSequences :
       SyncAnswered(sequence) \/ HeartbeatAnswered(sequence) \/ AckTaken(sequence)
  \/ \E sequence \in ClientSequences, command \in LifecycleCommands,
        id \in SessionIds, result \in ClientResults :
       ResponseTaken(sequence, command, id, result)

ClientSpec == ClientInit /\ [][ClientNext]_client

=============================================================================
