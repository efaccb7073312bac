------------------------- MODULE Stm32ClientRunner --------------------------
(***************************************************************************)
(* The Raspberry Pi's client of the STM32                                  *)
(* (software/rpi/src/stm32_client_runner.cpp): connection epochs, and      *)
(* inside an epoch a motion session that follows the wheel commands of the *)
(* application.                                                            *)
(*                                                                         *)
(* The application calls poll again and again and set_wheel_command in     *)
(* between.  One poll is several steps, since time passes in every         *)
(* transmission and each decision reads the clock at its own moment.       *)
(* Transmission, port and peer may fail at any step; the peer may send any *)
(* frame at any time.                                                      *)
(***************************************************************************)
EXTENDS Stm32LinkSession

CONSTANTS
  Freshness,       \* wheel_command_freshness_
  WheelPeriod,     \* wheel_tx_period_
  SyncTimeout,     \* time allowed for LINK_SYNC_OK
  ReconnectDelay   \* time between two connection attempts

ASSUME RunnerAssumption ==
  \A time \in {Freshness, WheelPeriod, SyncTimeout, ReconnectDelay} : time \in Nat \ {0}

VARIABLES
  runner_state,
  session_id,    \* motion_session_id_
  command,       \* latest_wheel_command_ with its age, or None
  wheel_age,     \* since the last velocity frame, None before the first
  deadline,      \* time left to sync_deadline_ or, while disconnected, to
                 \* reconnect_deadline_; None without one
  phase,         \* position in poll
  late,          \* time since poll read now_ms, while it is still needed
  sends,         \* history: transmissions of the pending transaction
  outdated       \* history: a new epoch began since set_wheel_command

runner == <<runner_state, session_id, command, wheel_age, deadline>>
history == <<sends, outdated>>
runnerVars == <<motionSession, linkSession, runner, phase, late, history>>

Phases ==
  {"idle", "send_sync", "send_retry", "start", "send_start", "wheel", "send_wheel",
   "send_end", "heartbeat", "send_heartbeat", "receive"}

\* From the reading of now_ms to its last use.
NowInUse ==
  {"send_retry", "start", "send_start", "wheel", "send_wheel", "send_end", "heartbeat"}

WheelCommands == [moving : BOOLEAN, age : 0 .. Freshness]

ASSUME NoneIsNoCommand == None \notin WheelCommands

RunnerTypeOK ==
  /\ MotionSessionTypeOK
  /\ LinkSessionTypeOK
  /\ runner_state \in {"Disconnected", "Synchronizing", "Synchronized"}
  /\ session_id \in SessionIds
  /\ command \in WheelCommands \cup {None}
  /\ wheel_age \in 0 .. WheelPeriod \cup {None}
  /\ deadline \in Nat \cup {None}
  /\ phase \in Phases
  /\ late \in 0 .. PollStall
  /\ sends \in Nat
  /\ outdated \in BOOLEAN

RunnerInit ==
  /\ motion_session_init
  /\ link_session_init
  /\ runner_state = "Disconnected"
  /\ session_id = 0
  /\ command = None
  /\ wheel_age = None
  /\ deadline = None
  /\ phase = "idle"
  /\ late = 0
  /\ sends = 0
  /\ outdated = FALSE

set_wheel_command(moving) ==
  /\ phase = "idle"
  /\ command' = [moving |-> moving, age |-> 0]
  /\ outdated' = FALSE
  /\ UNCHANGED <<motionSession, linkSession, runner_state, session_id, wheel_age, deadline,
                 phase, late, sends>>

\* Faulty variant: a command never grows old.
has_wheel_command == command # None

has_fresh_wheel_command == command # None /\ command.age < Freshness

\* Motion is wanted.
WantsMotion == has_fresh_wheel_command /\ command.moving

(***************************************************************************)
(* Connection epochs                                                       *)
(***************************************************************************)

Go(from, to) == phase = from /\ phase' = to

\* Faulty variant: the command outlives the connection.
EpochLostKeepingCommand ==
  /\ runner_state' = "Disconnected"
  /\ link_disconnect
  /\ motion_session_reset
  /\ session_id' = 0
  /\ wheel_age' = None
  /\ deadline' = ReconnectDelay
  /\ phase' = "idle"
  /\ late' = 0
  /\ sends' = 0
  /\ UNCHANGED <<command, outdated>>

\* disconnect_current_epoch and schedule_reconnect, when an iteration fails.
EpochLost ==
  /\ runner_state' = "Disconnected"
  /\ link_disconnect
  /\ motion_session_reset
  /\ session_id' = 0
  /\ command' = None
  /\ wheel_age' = None
  /\ deadline' = ReconnectDelay
  /\ phase' = "idle"
  /\ late' = 0
  /\ sends' = 0
  /\ UNCHANGED outdated

AttemptDue == phase = "idle" /\ runner_state = "Disconnected" /\ deadline \in {None, 0}

OpenFailed ==
  /\ AttemptDue
  /\ deadline' = ReconnectDelay
  /\ UNCHANGED <<motionSession, linkSession, runner_state, session_id, command, wheel_age,
                 phase, late, history>>

\* Faulty variant: the command of before is kept.
OpenKeepingCommand ==
  /\ AttemptDue
  /\ phase' = "send_sync"
  /\ begin_synchronization
  /\ motion_session_reset
  /\ session_id' = 0
  /\ wheel_age' = None
  /\ deadline' = None
  /\ outdated' = TRUE
  /\ UNCHANGED <<runner_state, command, late, sends>>

\* begin_connection_epoch up to the transmission of LINK_SYNC.
Open ==
  /\ AttemptDue
  /\ phase' = "send_sync"
  /\ begin_synchronization
  /\ motion_session_reset
  /\ session_id' = 0
  /\ command' = None
  /\ wheel_age' = None
  /\ deadline' = None
  /\ outdated' = TRUE
  /\ UNCHANGED <<runner_state, late, sends>>

SyncSent ==
  /\ Go("send_sync", "idle")
  /\ runner_state' = "Synchronizing"
  /\ deadline' = SyncTimeout
  /\ UNCHANGED <<motionSession, linkSession, session_id, command, wheel_age, late, history>>

SendFailed ==
  /\ phase \in {"send_sync", "send_retry", "send_start", "send_wheel", "send_end",
                "send_heartbeat"}
  /\ EpochLost

\* run_synchronizing_iteration: the deadline, the port, the answer.
SynchronizeFailed ==
  /\ phase = "idle"
  /\ runner_state = "Synchronizing"
  /\ EpochLost

\* Faulty variant: a peer that does not answer is waited for.
SyncExpiredNever == FALSE

SyncExpired == runner_state = "Synchronizing" /\ deadline = 0

SyncGivenUp ==
  /\ phase = "idle"
  /\ SyncExpired
  /\ EpochLost

\* The deadline was looked at before the port was waited for: it may have passed
\* when the answer is taken.
ReceiveSyncOk(sequence, same_token) ==
  /\ phase = "idle"
  /\ runner_state = "Synchronizing"
  /\ handle_link_sync_ok(sequence, same_token)
  /\ runner_state' = "Synchronized"
  /\ deadline' = None
  /\ UNCHANGED <<motionSession, session_id, command, wheel_age, phase, late, history>>

(***************************************************************************)
(* run_synchronized_iteration                                              *)
(***************************************************************************)

\* now_ms is read; link and transaction may have timed out.
CheckFailed ==
  /\ phase = "idle"
  /\ runner_state = "Synchronized"
  /\ link_timed_out \/ retry_exhausted
  /\ EpochLost

Check ==
  /\ phase = "idle"
  /\ runner_state = "Synchronized"
  /\ ~link_timed_out
  /\ ~retry_exhausted
  /\ \/ retry /\ phase' = "send_retry"
     \/ ~retry_due /\ phase' = "start" /\ UNCHANGED motionSession
  /\ UNCHANGED <<linkSession, runner, late, history>>

RetrySent ==
  /\ Go("send_retry", "start")
  /\ mark_pending_transmitted
  /\ sends' = sends + 1
  /\ UNCHANGED <<linkSession, runner, late, outdated>>

StartWanted == session_state = "Inactive" /\ WantsMotion

StartSession(id) ==
  /\ Go("start", "send_start")
  /\ StartWanted
  /\ id # 0
  /\ begin_start_session(id)
  /\ session_id' = id
  /\ sends' = 0
  /\ UNCHANGED <<linkSession, runner_state, command, wheel_age, deadline, late, outdated>>

StartSkipped ==
  /\ Go("start", "wheel")
  /\ ~StartWanted
  /\ UNCHANGED <<motionSession, linkSession, runner, late, history>>

StartSent ==
  /\ Go("send_start", "wheel")
  /\ mark_pending_transmitted
  /\ sends' = sends + 1
  /\ UNCHANGED <<linkSession, runner, late, outdated>>

\* Velocity or MOTION_END: wheel_decision_time is one moment for both.
VelocityDue == wheel_age \notin 0 .. WheelPeriod - 1

SendVelocity ==
  /\ Go("wheel", "send_wheel")
  /\ session_state = "Active" /\ WantsMotion /\ VelocityDue
  /\ UNCHANGED <<motionSession, linkSession, runner, late, history>>

VelocitySent ==
  /\ Go("send_wheel", "heartbeat")
  /\ wheel_age' = 0
  /\ UNCHANGED <<motionSession, linkSession, runner_state, session_id, command, deadline,
                 late, history>>

EndSession ==
  /\ Go("wheel", "send_end")
  /\ session_state = "Active" /\ ~WantsMotion
  /\ begin_end_session(session_id)
  /\ sends' = 0
  /\ UNCHANGED <<linkSession, runner, late, outdated>>

EndSent ==
  /\ Go("send_end", "heartbeat")
  /\ mark_pending_transmitted
  /\ wheel_age' = None
  /\ sends' = sends + 1
  /\ UNCHANGED <<linkSession, runner_state, session_id, command, deadline, late, outdated>>

WheelSkipped ==
  /\ Go("wheel", "heartbeat")
  /\ session_state = "Active" => WantsMotion /\ ~VelocityDue
  /\ UNCHANGED <<motionSession, linkSession, runner, late, history>>

Heartbeat ==
  /\ phase = "heartbeat"
  /\ \/ heartbeat(late) /\ phase' = "send_heartbeat"
     \/ ~heartbeat_due(late) /\ phase' = "receive" /\ UNCHANGED linkSession
  /\ late' = 0
  /\ UNCHANGED <<motionSession, runner, history>>

HeartbeatSent ==
  /\ Go("send_heartbeat", "receive")
  /\ UNCHANGED <<motionSession, linkSession, runner, late, history>>

\* Frames are taken one by one until the read buffer is empty.
ReceiveDone ==
  /\ Go("receive", "idle")
  /\ UNCHANGED <<motionSession, linkSession, runner, late, history>>

\* The port is disconnected or cannot be read, or the peer answers a heartbeat
\* as unsynchronized.
ReceiveFailed ==
  /\ phase = "receive"
  /\ EpochLost

ReceiveHeartbeat(sequence) ==
  /\ phase = "receive"
  /\ handle_heartbeat_response(sequence)
  /\ UNCHANGED <<motionSession, runner, phase, late, history>>

ReceiveAck(sequence) ==
  /\ phase = "receive"
  /\ handle_ack(sequence)
  /\ UNCHANGED <<linkSession, runner, phase, late, history>>

\* Faulty variant: the runner keeps the session of a refused START.
ReceiveResponseKeepingId(sequence, kind, id, result) ==
  /\ phase = "receive"
  /\ handle_response(sequence, kind, id, result)
  /\ sends' = 0
  /\ UNCHANGED <<linkSession, runner, phase, late, outdated>>

ReceiveResponse(sequence, kind, id, result) ==
  /\ phase = "receive"
  /\ handle_response(sequence, kind, id, result)
  /\ IF session_state' = "Active"
       THEN UNCHANGED <<session_id, wheel_age>>
       ELSE session_id' = 0 /\ wheel_age' = None
  /\ sends' = 0
  /\ UNCHANGED <<linkSession, runner_state, command, deadline, phase, late, outdated>>

(***************************************************************************)
(* Time and specification                                                  *)
(***************************************************************************)

Tick ==
  /\ late < PollStall
  /\ late' = IF phase \in NowInUse THEN late + 1 ELSE 0
  /\ motion_session_later
  /\ link_session_later
  /\ command' = IF command = None THEN None ELSE [command EXCEPT !.age = Aged(@, Freshness)]
  /\ wheel_age' = Aged(wheel_age, WheelPeriod)
  /\ deadline' = IF deadline \in {None, 0} THEN deadline ELSE deadline - 1
  /\ UNCHANGED <<runner_state, session_id, phase, history>>

Connect == OpenFailed \/ Open \/ SyncSent \/ SyncGivenUp

Iterate ==
  \/ CheckFailed \/ Check \/ RetrySent
  \/ \E id \in SessionIds : StartSession(id)
  \/ StartSkipped \/ StartSent
  \/ SendVelocity \/ VelocitySent \/ EndSession \/ EndSent \/ WheelSkipped
  \/ Heartbeat \/ HeartbeatSent
  \/ ReceiveDone \/ ReceiveFailed
  \/ SendFailed

Frames ==
  \/ \E sequence \in PiSequences, same_token \in BOOLEAN : ReceiveSyncOk(sequence, same_token)
  \/ \E sequence \in PiSequences : ReceiveHeartbeat(sequence) \/ ReceiveAck(sequence)
  \/ \E sequence \in PiSequences, kind \in {"START_SESSION", "END_SESSION"},
        id \in SessionIds, result \in {"OK", "ALREADY_ACTIVE", "STOP_FAILED"} :
       ReceiveResponse(sequence, kind, id, result)

RunnerNext ==
  \/ \E moving \in BOOLEAN : set_wheel_command(moving)
  \/ Connect
  \/ SynchronizeFailed
  \/ Iterate
  \/ Frames
  \/ Tick

RunnerSpec == RunnerInit /\ [][RunnerNext]_runnerVars

\* The application goes on polling, each poll ends (transmissions have a
\* timeout, reads do not block), and time passes.
FairRunnerSpec ==
  /\ RunnerSpec
  /\ WF_runnerVars(Connect \/ Iterate)
  /\ SF_runnerVars(Tick)

(***************************************************************************)
(* Safety                                                                  *)
(***************************************************************************)

\* Runner, link session and motion session agree: a session lives only on a
\* synchronized link, a transaction is pending exactly in the pending states,
\* and the runner's session number is the one the session works with.  So
\* begin_start_session, build_wheel_velocity and begin_end_session never
\* refuse what the runner asks of them.
SessionsInStep ==
  /\ runner_state = "Synchronized" <=> link_state = "Synchronized"
  /\ transaction # None <=> session_state \in {"StartPending", "EndPending"}
  /\ session_state = "Inactive" <=> session_id = 0
  /\ session_state \in {"Active", "EndPending"} => active_session_id = session_id
  /\ transaction # None => transaction.session = session_id
  /\ session_state # "Inactive" => runner_state = "Synchronized"

\* Outside of a transmission the pending transaction's timer runs: otherwise it
\* would be neither repeated nor given up.
TimerRuns ==
  transaction # None /\ phase \notin {"send_start", "send_end", "send_retry"} =>
    transaction.timer # None

\* No transaction is transmitted more than 1 + MaxRetries times.
TransmissionsBounded == sends <= 1 + MaxRetries

\* A wheel command given before the connection was made, or before it was lost,
\* never reaches the wheels and never starts a session.
NoOutdatedMotion ==
  [][phase' \in {"send_wheel", "send_start"} => ~outdated]_runnerVars

(***************************************************************************)
(* Liveness, whatever the peer sends                                       *)
(***************************************************************************)

\* Every transaction ends: answered, given up, or lost with the link.
TransactionEnds == transaction # None ~> transaction = None

\* A session stays active only while the application goes on asking for motion.
SessionNeedsCommands ==
  \/ []<>(session_state # "Active")
  \/ []<><<set_wheel_command(TRUE)>>_runnerVars

\* The link stays up only while heartbeats are answered.
LinkNeedsAnswers ==
  \/ []<>(link_state # "Synchronized")
  \/ []<><<\E sequence \in PiSequences : ReceiveHeartbeat(sequence)>>_runnerVars

\* Unless the link stays up, connecting is tried again and again.
AttemptsGoOn ==
  \/ <>[](runner_state = "Synchronized")
  \/ []<><<Open \/ OpenFailed>>_runnerVars

=============================================================================
