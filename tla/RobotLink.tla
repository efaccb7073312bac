----------------------------- MODULE RobotLink ------------------------------
(***************************************************************************)
(* The two computers and the line between them: the Raspberry Pi's client  *)
(* (MotionClient), the STM32's lifecycle coordinator with its link state,  *)
(* and a serial line that keeps the order of frames and may lose any of    *)
(* them.  Either computer may restart at any moment, with frames of before *)
(* still on the line.                                                      *)
(*                                                                         *)
(* Every frame carries, as history, the epoch it was sent in: the token of *)
(* the LINK_SYNC that opened it.  Only LINK_SYNC and LINK_SYNC_OK really   *)
(* have the token.                                                         *)
(***************************************************************************)
EXTENDS MotionClient, MotionLifecycleCoordinator, SequencesExt

CONSTANTS
  Tokens,       \* the random 64 bit tokens of LINK_SYNC
  ChannelBound  \* most frames on the line in one direction

ASSUME RobotLinkAssumption ==
  /\ MotionSessionIds = SessionIds
  /\ SequenceMod = SequenceCount /\ SequenceHalf > 1
  /\ MaxRetries \in Nat
  /\ None \notin Tokens \cup ClientTransactions
  /\ ChannelBound \in Nat

VARIABLES
  epoch,      \* the client's pending_sync_token_, kept as history while
              \* it is synchronized; None without a connection
  stm_epoch,  \* None while the STM32 is not synchronized, else (as history)
              \* the token of the LINK_SYNC it answered
  to_stm,     \* frames on their way to the STM32
  to_pi       \* frames on their way to the Raspberry Pi

line == <<to_stm, to_pi>>
robot == <<client, epoch, vars, stm_epoch, line>>

ToStm ==
  [kind : {"LINK_SYNC", "HEARTBEAT"}, sequence : Sequences, epoch : Tokens]
  \cup [kind : {"MOTION_COMMAND"}, transaction : Transactions, epoch : Tokens]
  \cup [kind : {"WHEEL_VELOCITY"}, session : SessionIds, epoch : Tokens]

ToPi ==
  [kind : {"LINK_SYNC_OK", "HEARTBEAT", "HEARTBEAT_UNSYNCHRONIZED", "MOTION_ACK"},
   sequence : Sequences, epoch : Tokens]
  \cup [kind : {"MOTION_RESPONSE"}, answer : Terminals, epoch : Tokens]

\* Types of both computers and of the frames between them.
RobotTypeOK ==
  /\ ClientTypeOK
  /\ TypeOK
  /\ epoch \in Tokens \cup {None}
  /\ stm_epoch \in Tokens \cup {None}
  /\ to_stm \in Seq(ToStm) /\ Len(to_stm) <= ChannelBound
  /\ to_pi \in Seq(ToPi) /\ Len(to_pi) <= ChannelBound

RobotInit ==
  /\ ClientInit
  /\ Init
  /\ epoch = None
  /\ stm_epoch = None
  /\ to_stm = <<>>
  /\ to_pi = <<>>

(***************************************************************************)
(* The line                                                                *)
(***************************************************************************)

PiSends(frame) == to_stm' = Append(to_stm, frame) /\ Len(to_stm) < ChannelBound

StmSends(frames) == to_pi' = to_pi \o frames /\ Len(to_pi) + Len(frames) <= ChannelBound

\* A frame is lost on the line, or its receiver has no use for it and drops it.
\* A frame not read when a connection ends may be read in the next one.
LostToStm ==
  /\ to_stm # <<>>
  /\ to_stm' = Tail(to_stm)
  /\ action' = NoAction
  /\ UNCHANGED <<client, epoch, coordinator, stm_epoch, to_pi>>

LostToPi ==
  /\ to_pi # <<>>
  /\ to_pi' = Tail(to_pi)
  /\ action' = NoAction
  /\ UNCHANGED <<client, epoch, coordinator, stm_epoch, to_stm>>

LinkFrame(kind, sequence, token) == [kind |-> kind, sequence |-> sequence, epoch |-> token]

\* A MOTION_COMMAND frame with the pending lifecycle command.
CommandFrame ==
  [kind |-> "MOTION_COMMAND", epoch |-> epoch,
   transaction |-> [sequence |-> transaction'.sequence, command |-> transaction'.command,
                    motion_session_id |-> transaction'.session]]

(***************************************************************************)
(* The Raspberry Pi                                                        *)
(***************************************************************************)

StmIdle == action' = NoAction /\ UNCHANGED <<coordinator, stm_epoch>>

\* Tokens are random: one does not come again while a frame, or a computer,
\* still knows it.
FreshToken(token) ==
  token \notin {epoch, stm_epoch} \cup {f.epoch : f \in ToSet(to_stm) \cup ToSet(to_pi)}

PiSynchronize(token) ==
  /\ FreshToken(token)
  /\ Synchronize
  /\ epoch' = token
  /\ PiSends(LinkFrame("LINK_SYNC", link_sequence, token))
  /\ StmIdle
  /\ UNCHANGED to_pi

PiDisconnect ==
  /\ link_state # "Disconnected"
  /\ Disconnect
  /\ epoch' = None
  /\ StmIdle
  /\ UNCHANGED line

\* The process starts again; its sequence numbers with it.
PiRestart ==
  /\ session_state' = "Inactive" /\ active_session_id' = 0 /\ transaction' = None
  /\ link_state' = "Disconnected" /\ awaited' = None
  /\ next_sequence' = 1 % SequenceCount /\ link_sequence' = 1 % SequenceCount
  /\ epoch' = None
  /\ StmIdle
  /\ UNCHANGED line

PiHeartbeat ==
  /\ HeartbeatMade
  /\ PiSends(LinkFrame("HEARTBEAT", link_sequence, epoch))
  /\ StmIdle
  /\ UNCHANGED <<epoch, to_pi>>

PiCommand ==
  /\ EndBegun \/ CommandRetried \/ \E id \in SessionIds : StartBegun(id)
  /\ PiSends(CommandFrame)
  /\ StmIdle
  /\ UNCHANGED <<epoch, to_pi>>

PiVelocity ==
  /\ session_state = "Active"
  /\ PiSends([kind |-> "WHEEL_VELOCITY", session |-> active_session_id, epoch |-> epoch])
  /\ StmIdle
  /\ UNCHANGED <<client, epoch, to_pi>>

\* Faulty variant: the sequence number alone identifies the answer.
SyncOkBySequence(f) == f.kind = "LINK_SYNC_OK" /\ SyncAnswered(f.sequence)

SyncOkTaken(f) == f.kind = "LINK_SYNC_OK" /\ f.epoch = epoch /\ SyncAnswered(f.sequence)

ResponseFrameTaken(f) ==
  /\ f.kind = "MOTION_RESPONSE"
  /\ ResponseTaken(f.answer.transaction.sequence, f.answer.transaction.command,
                   f.answer.transaction.motion_session_id, f.answer.result)

\* The next frame is taken; one that is not expected is dropped (LostToPi).
PiReceive ==
  /\ to_pi # <<>>
  /\ LET f == Head(to_pi)
     IN \/ SyncOkTaken(f)
        \/ f.kind = "HEARTBEAT" /\ HeartbeatAnswered(f.sequence)
        \/ f.kind = "MOTION_ACK" /\ AckTaken(f.sequence)
        \/ ResponseFrameTaken(f)
  /\ to_pi' = Tail(to_pi)
  /\ StmIdle
  /\ UNCHANGED <<epoch, to_stm>>

PiReceiveUnsynchronized ==
  /\ to_pi # <<>>
  /\ Head(to_pi).kind = "HEARTBEAT_UNSYNCHRONIZED"
  /\ link_state = "Synchronized"
  /\ Head(to_pi).sequence = awaited
  /\ Disconnect
  /\ epoch' = None
  /\ to_pi' = Tail(to_pi)
  /\ StmIdle
  /\ UNCHANGED to_stm

(***************************************************************************)
(* The STM32.  Its motors, watchdog and stop confirmation are those of     *)
(* Stm32Firmware, which implements the coordinator's specification.        *)
(***************************************************************************)

PiIdle == UNCHANGED <<client, epoch>>

stm_synchronized == stm_epoch # None

StmTakes(kind) ==
  /\ to_stm # <<>>
  /\ Head(to_stm).kind = kind
  /\ to_stm' = Tail(to_stm)
  /\ PiIdle

\* Faulty variant: the session outlives the synchronization.
StmLinkSyncKeepingSession ==
  /\ StmTakes("LINK_SYNC")
  /\ action' = NoAction
  /\ UNCHANGED coordinator
  /\ stm_epoch' = Head(to_stm).epoch
  /\ StmSends(<<LinkFrame("LINK_SYNC_OK", Head(to_stm).sequence, Head(to_stm).epoch)>>)

\* A new epoch: no session, no memory of sequence numbers.
StmLinkSync ==
  /\ StmTakes("LINK_SYNC")
  /\ Reset
  /\ stm_epoch' = Head(to_stm).epoch
  /\ StmSends(<<LinkFrame("LINK_SYNC_OK", Head(to_stm).sequence, Head(to_stm).epoch)>>)

\* Faulty variant: every heartbeat is answered alike.
StmHeartbeatUnconditional ==
  /\ StmTakes("HEARTBEAT")
  /\ StmSends(<<LinkFrame("HEARTBEAT", Head(to_stm).sequence, Head(to_stm).epoch)>>)
  /\ action' = NoAction
  /\ UNCHANGED <<coordinator, stm_epoch>>

StmHeartbeat ==
  /\ StmTakes("HEARTBEAT")
  /\ LET kind == IF stm_synchronized THEN "HEARTBEAT" ELSE "HEARTBEAT_UNSYNCHRONIZED"
     IN  StmSends(<<LinkFrame(kind, Head(to_stm).sequence, Head(to_stm).epoch)>>)
  /\ action' = NoAction
  /\ UNCHANGED <<coordinator, stm_epoch>>

\* The frames of the action the coordinator returned: ACK, then response.
ActionFrames(token) ==
  (IF action'.ack = None
     THEN <<>> ELSE <<LinkFrame("MOTION_ACK", action'.ack.sequence, token)>>)
  \o (IF action'.response = None
        THEN <<>>
        ELSE <<[kind |-> "MOTION_RESPONSE", answer |-> action'.response, epoch |-> token]>>)

StmCommand ==
  /\ StmTakes("MOTION_COMMAND")
  /\ stm_synchronized
  /\ handle_transaction(Head(to_stm).transaction)
  /\ StmSends(ActionFrames(Head(to_stm).epoch))
  /\ UNCHANGED stm_epoch

\* A velocity that is applied; any other is dropped (LostToStm).
StmVelocity ==
  /\ StmTakes("WHEEL_VELOCITY")
  /\ stm_synchronized
  /\ state = "ACTIVE"
  /\ Head(to_stm).session = motion_session_id
  /\ action' = NoAction
  /\ UNCHANGED <<coordinator, stm_epoch, to_pi>>

\* The wheels are confirmed at rest.
StmStopped ==
  /\ complete_operation(active_operation_id, "SUCCESS")
  /\ active_operation_id # 0
  /\ StmSends(ActionFrames(stm_epoch))
  /\ PiIdle
  /\ UNCHANGED <<stm_epoch, to_stm>>

\* They are not: the command is answered, and the epoch ends.
StmStopFailed ==
  /\ active_operation_id # 0
  /\ StmSends(<<[kind |-> "MOTION_RESPONSE", epoch |-> stm_epoch,
                 answer |-> Terminal(pending, "STOP_FAILED")]>>)
  /\ Reset
  /\ stm_epoch' = None
  /\ PiIdle
  /\ UNCHANGED to_stm

\* Heartbeats stay away, the receive queue overflows, the transmitter or the
\* motor driver fails.
StmLinkLost ==
  /\ stm_synchronized
  /\ Reset
  /\ stm_epoch' = None
  /\ PiIdle
  /\ UNCHANGED line

StmRestart ==
  /\ receiver_reset
  /\ state' = "NO_SESSION" /\ motion_session_id' = 0
  /\ next_operation_id' = 0 /\ active_operation_id' = 0
  /\ action' = NoAction
  /\ stm_epoch' = None
  /\ PiIdle
  /\ UNCHANGED line

Pi ==
  \/ \E token \in Tokens : PiSynchronize(token)
  \/ PiDisconnect \/ PiRestart
  \/ PiHeartbeat \/ PiCommand \/ PiVelocity
  \/ PiReceive \/ PiReceiveUnsynchronized

Stm ==
  \/ StmLinkSync \/ StmHeartbeat \/ StmCommand \/ StmVelocity
  \/ StmStopped \/ StmStopFailed
  \/ StmLinkLost \/ StmRestart

RobotNext == Pi \/ Stm \/ LostToStm \/ LostToPi

RobotSpec == RobotInit /\ [][RobotNext]_robot

(***************************************************************************)
(* Properties                                                              *)
(***************************************************************************)

\* The barrier LINK_SYNC makes: once the Raspberry Pi has its LINK_SYNC_OK,
\* every frame on the line and the STM32 itself are of this epoch (or the
\* STM32 has lost its link since): nothing of before the reconnection, or of
\* before a restart of the Raspberry Pi, can reach a session.  What the STM32
\* sent in this epoch and before its own restart may still arrive.
EpochBarrier ==
  link_state = "Synchronized" =>
    /\ stm_epoch \in {epoch, None}
    /\ \A i \in DOMAIN to_stm : to_stm[i].epoch = epoch
    /\ \A i \in DOMAIN to_pi : to_pi[i].epoch = epoch

\* While both ends are synchronized they agree on the session, up to the
\* command that is under way.
SessionsAgree ==
  link_state = "Synchronized" /\ stm_synchronized =>
    /\ session_state = "Inactive" => state = "NO_SESSION"
    /\ session_state = "StartPending" => state \in {"NO_SESSION", "STARTING", "ACTIVE"}
    /\ session_state = "Active" => state = "ACTIVE"
    /\ session_state = "EndPending" => state \in {"ACTIVE", "ENDING", "NO_SESSION"}
    /\ session_state \in {"Active", "EndPending"} /\ state # "NO_SESSION" =>
         motion_session_id = active_session_id
    /\ session_state = "StartPending" /\ state # "NO_SESSION" =>
         motion_session_id = transaction.session

\* The client never provokes the answers meant for two commands at once: with
\* lost frames, retries, reconnects and restarts, a lifecycle command ends in OK
\* or STOP_FAILED, never SUPERSEDED, BUSY_STOPPING, SESSION_MISMATCH or ALREADY.
PlainAnswers ==
  \A i \in DOMAIN to_pi :
    to_pi[i].kind = "MOTION_RESPONSE" => to_pi[i].answer.result \in {"OK", "STOP_FAILED"}

\* The invariants of the line: that one, and the types of what is on it.
LineInv == RobotTypeOK /\ PlainAnswers

\* An STM32 that has lost its link does not keep a client alive: if the client
\* stays synchronized while the STM32 is not, its heartbeats are answered only
\* finitely often, and its timeout ends the epoch (LinkNeedsAnswers of
\* Stm32ClientRunner).
NoFalseLife ==
  ~ /\ <>[](link_state = "Synchronized" /\ ~stm_synchronized)
    /\ []<><<PiReceive /\ link_state = "Synchronized" /\ awaited # None /\ awaited' = None>>_robot

=============================================================================
