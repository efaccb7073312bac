------------------------- MODULE Stm32LinkSession ---------------------------
(***************************************************************************)
(* The Raspberry Pi's end of the link                                      *)
(* (software/rpi/src/stm32_link_session.cpp): synchronization, periodic    *)
(* heartbeats, and the timeout of their answers.                           *)
(***************************************************************************)
EXTENDS Stm32MotionSession

CONSTANTS
  HeartbeatPeriod,  \* heartbeat_period_ms_
  LinkTimeout,      \* link_timeout_ms_
  PollStall         \* longest time from a clock reading to its use

ASSUME LinkSessionAssumption ==
  /\ HeartbeatPeriod \in Nat \ {0}
  /\ LinkTimeout \in Nat \ {0}
  /\ PollStall \in Nat

VARIABLES
  link_state,
  link_sequence,  \* next sequence number of the link's own frames
  awaited,        \* sequence number of the LINK_SYNC or heartbeat whose answer
                  \* is awaited, or None
  heartbeat_age,  \* since the last heartbeat was made
  response_age    \* since the last answer

linkSession == <<link_state, link_sequence, awaited, heartbeat_age, response_age>>

LinkSessionTypeOK ==
  /\ link_state \in {"Disconnected", "SyncPending", "Synchronized"}
  /\ link_sequence \in PiSequences
  /\ awaited \in PiSequences \cup {None}
  /\ heartbeat_age \in 0 .. HeartbeatPeriod + PollStall
  /\ response_age \in 0 .. LinkTimeout

link_session_init ==
  /\ link_state = "Disconnected"
  /\ link_sequence = 1 % SequenceCount
  /\ awaited = None
  /\ heartbeat_age = 0
  /\ response_age = 0

begin_synchronization ==
  /\ link_state' = "SyncPending"
  /\ awaited' = link_sequence
  /\ link_sequence' = (link_sequence + 1) % SequenceCount
  /\ heartbeat_age' = 0
  /\ response_age' = 0

\* LINK_SYNC_OK; same_token says whether it carries the pending token.
handle_link_sync_ok(sequence, same_token) ==
  /\ link_state = "SyncPending"
  /\ sequence = awaited
  /\ same_token
  /\ link_state' = "Synchronized"
  /\ awaited' = None
  /\ heartbeat_age' = 0
  /\ response_age' = 0
  /\ UNCHANGED link_sequence

\* The clock was read late ticks ago.
heartbeat_due(late) ==
  link_state = "Synchronized" /\ heartbeat_age - late >= HeartbeatPeriod

\* Faulty variant: sending a heartbeat counts as hearing from the peer.
heartbeat_heard(late) ==
  /\ heartbeat_due(late)
  /\ awaited' = link_sequence
  /\ link_sequence' = (link_sequence + 1) % SequenceCount
  /\ heartbeat_age' = late
  /\ response_age' = 0
  /\ UNCHANGED link_state

\* A new heartbeat replaces an unanswered one.
heartbeat(late) ==
  /\ heartbeat_due(late)
  /\ awaited' = link_sequence
  /\ link_sequence' = (link_sequence + 1) % SequenceCount
  /\ heartbeat_age' = late
  /\ UNCHANGED <<link_state, response_age>>

\* An answer to the last heartbeat,
heartbeat_answered(sequence) ==
  link_state = "Synchronized" /\ awaited # None /\ sequence = awaited

\* in which the peer calls itself synchronized.
handle_heartbeat_response(sequence) ==
  /\ heartbeat_answered(sequence)
  /\ awaited' = None
  /\ response_age' = 0
  /\ UNCHANGED <<link_state, link_sequence, heartbeat_age>>

link_timed_out == link_state = "Synchronized" /\ response_age >= LinkTimeout

link_disconnect ==
  /\ link_state' = "Disconnected"
  /\ awaited' = None
  /\ heartbeat_age' = 0
  /\ response_age' = 0
  /\ UNCHANGED link_sequence

\* Ages matter only while synchronized.
link_session_later ==
  /\ IF link_state = "Synchronized"
       THEN /\ heartbeat_age' = Aged(heartbeat_age, HeartbeatPeriod + PollStall)
            /\ response_age' = Aged(response_age, LinkTimeout)
       ELSE UNCHANGED <<heartbeat_age, response_age>>
  /\ UNCHANGED <<link_state, link_sequence, awaited>>

=============================================================================
