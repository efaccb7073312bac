-------------------------- MODULE RpiMotionProofs ---------------------------
(***************************************************************************)
(* Motion on the Raspberry Pi.  The client runner: its sessions stay in    *)
(* step, it resends a bounded number of times, no outdated command moves   *)
(* the wheels, and it implements MotionClient and WheelPort, for every     *)
(* timeout, sequence number range and number of retries.  The motion       *)
(* coordinator: its invariants, for every timeout.                         *)
(***************************************************************************)
EXTENDS ClientRunnerRefinement, RpiMotionCoordinator, TLAPS

\* Poll's position tells the state of runner and link: outside of idle and of the
\* transmission of LINK_SYNC the link is up.
PhaseInStep ==
  /\ link_state = "SyncPending" <=> phase = "send_sync" \/ runner_state = "Synchronizing"
  /\ phase = "send_sync" => runner_state = "Disconnected"
  /\ phase \notin {"idle", "send_sync"} => runner_state = "Synchronized"
  /\ phase = "send_start" => session_state = "StartPending"
  /\ phase = "send_end" => session_state = "EndPending"
  /\ phase = "send_retry" => transaction # None

\* Retries are counted before they are sent.
SendsCounted ==
  /\ transaction = None => sends = 0
  /\ transaction # None => sends <= transaction.retries + 1
  /\ phase = "send_retry" => sends <= transaction.retries
  /\ phase \in {"send_start", "send_end"} => sends = 0

\* A command is dropped when an epoch ends and again when the next begins.
OutdatedDropped ==
  outdated => command = None /\ phase \notin {"send_wheel", "send_start"}

RunnerInv ==
  /\ RunnerTypeOK
  /\ SessionsInStep
  /\ PhaseInStep
  /\ TimerRuns
  /\ SendsCounted
  /\ OutdatedDropped

(***************************************************************************)
(* Pending transactions                                                    *)
(***************************************************************************)

\* Sequence numbers wrap.
LEMMA SequenceNext ==
  ASSUME NEW sequence \in PiSequences
  PROVE  (sequence + 1) % SequenceCount \in PiSequences
BY MotionSessionAssumption DEF PiSequences

\* What has happened to a transaction leaves it one.
LEMMA TransactionShape ==
  ASSUME NEW t \in PiTransactions
  PROVE  /\ t # None
         /\ t.command \in {"START_SESSION", "END_SESSION"}
         /\ t.session \in SessionIds
         /\ t.sequence \in PiSequences
         /\ t.acked \in BOOLEAN
         /\ t.retries \in 0 .. MaxRetries
         /\ t.timer \in 0 .. TerminalTimeout \cup {None}
BY NoneIsNoTransaction DEF PiTransactions

\* A change of the timer alone,
LEMMA TimerSet ==
  ASSUME NEW t \in PiTransactions, NEW timer \in 0 .. TerminalTimeout \cup {None}
  PROVE  /\ [t EXCEPT !.timer = timer] \in PiTransactions
         /\ [t EXCEPT !.timer = timer].timer = timer
         /\ [t EXCEPT !.timer = timer].session = t.session
         /\ [t EXCEPT !.timer = timer].retries = t.retries
BY DEF PiTransactions

\* a retry,
LEMMA RetryCounted ==
  ASSUME NEW t \in PiTransactions, t.retries < MaxRetries
  PROVE  LET r == [t EXCEPT !.retries = @ + 1, !.timer = None]
         IN  r \in PiTransactions /\ r.session = t.session /\ r.retries = t.retries + 1
<1>1. t.retries + 1 \in 0 .. MaxRetries
  BY MotionSessionAssumption DEF PiTransactions
<1> QED BY <1>1 DEF PiTransactions

\* an ACK,
LEMMA AckNoted ==
  ASSUME NEW t \in PiTransactions, NEW timer \in 0 .. TerminalTimeout \cup {None}
  PROVE  LET r == [t EXCEPT !.acked = TRUE, !.timer = timer]
         IN  /\ r \in PiTransactions
             /\ r.session = t.session /\ r.retries = t.retries /\ r.timer = timer
BY DEF PiTransactions

\* a new transaction,
LEMMA TransactionMade ==
  ASSUME NEW kind \in {"START_SESSION", "END_SESSION"}, NEW id \in SessionIds,
         NEW sequence \in PiSequences
  PROVE  [command |-> kind, session |-> id, sequence |-> sequence, acked |-> FALSE,
          retries |-> 0, timer |-> None] \in PiTransactions
BY MotionSessionAssumption DEF PiTransactions

\* and an age.
LEMMA AgedRange ==
  ASSUME NEW limit \in Nat, NEW age \in 0 .. limit \cup {None}
  PROVE  /\ Aged(age, limit) \in 0 .. limit \cup {None}
         /\ age = None <=> Aged(age, limit) = None
BY NoneIsNoNumber DEF Aged

(***************************************************************************)
(* Every step keeps the invariant                                          *)
(***************************************************************************)

\* The end of a connection, whatever ended it.
LEMMA EpochLostKeeps ==
  ASSUME RunnerInv, EpochLost
  PROVE  RunnerInv'
BY MotionSessionAssumption, LinkSessionAssumption, RunnerAssumption, NoneIsNoTransaction
DEF RunnerInv, RunnerTypeOK, SessionsInStep, PhaseInStep, TimerRuns, SendsCounted,
    OutdatedDropped, EpochLost, link_disconnect, motion_session_reset,
    MotionSessionTypeOK, LinkSessionTypeOK, Phases

\* Connecting.
LEMMA ConnectKeeps ==
  ASSUME RunnerInv,
         \/ Connect \/ SynchronizeFailed
         \/ \E sequence \in PiSequences, same_token \in BOOLEAN :
              ReceiveSyncOk(sequence, same_token)
  PROVE  RunnerInv'
<1> USE MotionSessionAssumption, LinkSessionAssumption, RunnerAssumption, NoneIsNoTransaction
    DEF RunnerInv, RunnerTypeOK, SessionsInStep, PhaseInStep, TimerRuns, SendsCounted,
        OutdatedDropped, MotionSessionTypeOK, LinkSessionTypeOK, Phases
<1>1. CASE OpenFailed
  BY <1>1 DEF OpenFailed, AttemptDue, motionSession, linkSession, history
<1>2. CASE Open
  BY <1>2, SequenceNext DEF Open, AttemptDue, begin_synchronization, motion_session_reset
<1>3. CASE SyncSent
  BY <1>3 DEF SyncSent, Go, motionSession, linkSession, history
<1>4. CASE SyncGivenUp \/ SynchronizeFailed
  BY <1>4, EpochLostKeeps DEF SyncGivenUp, SynchronizeFailed
<1>5. ASSUME NEW sequence \in PiSequences, NEW same_token \in BOOLEAN,
             ReceiveSyncOk(sequence, same_token)
      PROVE  RunnerInv'
  BY <1>5 DEF ReceiveSyncOk, handle_link_sync_ok, motionSession, history
<1> QED BY <1>1, <1>2, <1>3, <1>4, <1>5 DEF Connect

\* Steps that leave the sessions as they are.
LEMMA MoveKeeps ==
  ASSUME RunnerInv,
         \/ \E wanted \in BOOLEAN : set_wheel_command(wanted)
         \/ StartSkipped \/ SendVelocity \/ VelocitySent \/ WheelSkipped
         \/ HeartbeatSent \/ ReceiveDone
  PROVE  RunnerInv'
<1> USE MotionSessionAssumption, LinkSessionAssumption, RunnerAssumption, NoneIsNoTransaction
    DEF RunnerInv, RunnerTypeOK, SessionsInStep, PhaseInStep, TimerRuns, SendsCounted,
        OutdatedDropped, MotionSessionTypeOK, LinkSessionTypeOK, Phases,
        motionSession, linkSession, runner, history, Go
<1>1. ASSUME NEW wanted \in BOOLEAN, set_wheel_command(wanted)
      PROVE  RunnerInv'
  <2>1. command' \in WheelCommands
    BY <1>1 DEF set_wheel_command, WheelCommands
  <2> QED BY <1>1, <2>1 DEF set_wheel_command
<1>2. CASE StartSkipped
  BY <1>2 DEF StartSkipped
<1>3. CASE SendVelocity
  BY <1>3 DEF SendVelocity, WantsMotion, has_fresh_wheel_command
<1>4. CASE VelocitySent
  BY <1>4 DEF VelocitySent
<1>5. CASE WheelSkipped
  BY <1>5 DEF WheelSkipped
<1>6. CASE HeartbeatSent
  BY <1>6 DEF HeartbeatSent
<1>7. CASE ReceiveDone
  BY <1>7 DEF ReceiveDone
<1> QED BY <1>1, <1>2, <1>3, <1>4, <1>5, <1>6, <1>7

\* The heartbeat, made and answered.
LEMMA HeartbeatKeeps ==
  ASSUME RunnerInv, Heartbeat \/ \E sequence \in PiSequences : ReceiveHeartbeat(sequence)
  PROVE  RunnerInv'
<1> USE MotionSessionAssumption, LinkSessionAssumption, RunnerAssumption, NoneIsNoTransaction
    DEF RunnerInv, RunnerTypeOK, SessionsInStep, PhaseInStep, TimerRuns, SendsCounted,
        OutdatedDropped, MotionSessionTypeOK, LinkSessionTypeOK, Phases,
        motionSession, linkSession, runner, history
<1>1. CASE Heartbeat /\ heartbeat(late)
  BY <1>1, SequenceNext DEF Heartbeat, heartbeat, heartbeat_due
<1>2. CASE Heartbeat /\ UNCHANGED linkSession
  BY <1>2 DEF Heartbeat
<1>3. ASSUME NEW sequence \in PiSequences, ReceiveHeartbeat(sequence)
      PROVE  RunnerInv'
  BY <1>3 DEF ReceiveHeartbeat, handle_heartbeat_response, heartbeat_answered
<1> QED BY <1>1, <1>2, <1>3 DEF Heartbeat

\* A lifecycle command, begun and sent.
LEMMA BeginKeeps ==
  ASSUME RunnerInv,
         \/ \E id \in SessionIds : StartSession(id)
         \/ EndSession \/ StartSent \/ EndSent \/ RetrySent
  PROVE  RunnerInv'
<1> USE MotionSessionAssumption, LinkSessionAssumption, RunnerAssumption, NoneIsNoTransaction
    DEF RunnerInv, RunnerTypeOK, SessionsInStep, PhaseInStep, TimerRuns, SendsCounted,
        OutdatedDropped, MotionSessionTypeOK, LinkSessionTypeOK, Phases,
        motionSession, linkSession, runner, Go
<1>1. ASSUME NEW id \in SessionIds, StartSession(id)
      PROVE  RunnerInv'
  <2>1. /\ transaction' \in PiTransactions
        /\ transaction'.session = id
        /\ transaction'.retries = 0
    BY <1>1, TransactionMade DEF StartSession, begin_start_session, Begin
  <2>2. next_sequence' \in PiSequences
    BY <1>1, SequenceNext DEF StartSession, begin_start_session, Begin
  <2> QED
    BY <1>1, <2>1, <2>2
    DEF StartSession, begin_start_session, StartWanted, WantsMotion, has_fresh_wheel_command
<1>2. CASE EndSession
  <2>1. /\ transaction' \in PiTransactions
        /\ transaction'.session = session_id
        /\ transaction'.retries = 0
    BY <1>2, TransactionMade DEF EndSession, begin_end_session, Begin
  <2>2. next_sequence' \in PiSequences
    BY <1>2, SequenceNext DEF EndSession, begin_end_session, Begin
  <2> QED BY <1>2, <2>1, <2>2 DEF EndSession, begin_end_session
<1>3. ASSUME mark_pending_transmitted, transaction # None
      PROVE  /\ transaction' \in PiTransactions
             /\ transaction'.timer = 0
             /\ transaction'.session = transaction.session
             /\ transaction'.retries = transaction.retries
             /\ UNCHANGED <<session_state, active_session_id, next_sequence>>
  BY <1>3, TimerSet DEF mark_pending_transmitted
<1>4. CASE StartSent
  BY <1>3, <1>4, TransactionShape, NoneIsNoNumber DEF StartSent
<1>5. CASE EndSent
  BY <1>3, <1>5, TransactionShape, NoneIsNoNumber DEF EndSent
<1>6. CASE RetrySent
  BY <1>3, <1>6, TransactionShape, NoneIsNoNumber DEF RetrySent
<1> QED BY <1>1, <1>2, <1>4, <1>5, <1>6

\* The decision to repeat it.
LEMMA CheckKeeps ==
  ASSUME RunnerInv, Check
  PROVE  RunnerInv'
<1> USE MotionSessionAssumption, NoneIsNoTransaction
    DEF RunnerInv, RunnerTypeOK, SessionsInStep, PhaseInStep, TimerRuns, SendsCounted,
        OutdatedDropped, MotionSessionTypeOK, LinkSessionTypeOK, Phases,
        motionSession, linkSession, runner, history
<1>1. CASE retry /\ phase' = "send_retry"
  <2>1. transaction \in PiTransactions /\ transaction.retries < MaxRetries
    BY <1>1 DEF retry, retry_due, timed_out
  <2>2. /\ transaction' \in PiTransactions
        /\ transaction'.session = transaction.session
        /\ transaction'.retries = transaction.retries + 1
    BY <1>1, <2>1, RetryCounted DEF retry
  <2> QED BY <1>1, <2>1, <2>2, TransactionShape DEF Check, retry
<1>2. CASE phase' = "start" /\ UNCHANGED motionSession
  BY <1>2 DEF Check
<1> QED BY <1>1, <1>2 DEF Check

\* Its answers.
LEMMA AnswerKeeps ==
  ASSUME RunnerInv,
         \/ \E sequence \in PiSequences : ReceiveAck(sequence)
         \/ \E sequence \in PiSequences, kind \in {"START_SESSION", "END_SESSION"},
               id \in SessionIds, result \in {"OK", "ALREADY_ACTIVE", "STOP_FAILED"} :
              ReceiveResponse(sequence, kind, id, result)
  PROVE  RunnerInv'
<1> USE MotionSessionAssumption, NoneIsNoTransaction
    DEF RunnerInv, RunnerTypeOK, SessionsInStep, PhaseInStep, TimerRuns, SendsCounted,
        OutdatedDropped, MotionSessionTypeOK, LinkSessionTypeOK, Phases,
        motionSession, linkSession, runner, history
<1>1. ASSUME NEW sequence \in PiSequences, ReceiveAck(sequence)
      PROVE  RunnerInv'
  <2>1. transaction \in PiTransactions
    BY <1>1 DEF ReceiveAck, handle_ack
  <2>2. /\ transaction' \in PiTransactions
        /\ transaction'.session = transaction.session
        /\ transaction'.retries = transaction.retries
        /\ transaction'.timer = None <=> transaction.timer = None
    <3> DEFINE timer == IF transaction.timer = None THEN None ELSE 0
    <3>1. timer \in 0 .. TerminalTimeout \cup {None}
      OBVIOUS
    <3>2. transaction' = [transaction EXCEPT !.acked = TRUE, !.timer = timer]
      BY <1>1 DEF ReceiveAck, handle_ack
    <3>3. timer = None <=> transaction.timer = None
      BY NoneIsNoNumber
    <3> HIDE DEF timer
    <3> QED BY <2>1, <3>1, <3>2, <3>3, AckNoted
  <2> QED BY <1>1, <2>1, <2>2 DEF ReceiveAck, handle_ack
<1>2. ASSUME NEW sequence \in PiSequences, NEW kind \in {"START_SESSION", "END_SESSION"},
             NEW id \in SessionIds, NEW result \in {"OK", "ALREADY_ACTIVE", "STOP_FAILED"},
             ReceiveResponse(sequence, kind, id, result)
      PROVE  RunnerInv'
  BY <1>2 DEF ReceiveResponse, handle_response
<1> QED BY <1>1, <1>2

\* Time.
LEMMA TickKeeps ==
  ASSUME RunnerInv, Tick
  PROVE  RunnerInv'
<1> USE MotionSessionAssumption, LinkSessionAssumption, RunnerAssumption, NoneIsNoTransaction
    DEF RunnerInv, RunnerTypeOK, SessionsInStep, PhaseInStep, TimerRuns, SendsCounted,
        OutdatedDropped, MotionSessionTypeOK, LinkSessionTypeOK, Tick, history
<1>1. ASSUME transaction # None
      PROVE  /\ transaction' \in PiTransactions
             /\ transaction'.session = transaction.session
             /\ transaction'.retries = transaction.retries
             /\ transaction'.timer = None <=> transaction.timer = None
  <2>1. transaction \in PiTransactions
    BY <1>1
  <2>2. /\ Aged(transaction.timer, TerminalTimeout) \in 0 .. TerminalTimeout \cup {None}
        /\ Aged(transaction.timer, TerminalTimeout) = None <=> transaction.timer = None
    BY <2>1, TransactionShape, AgedRange
  <2>3. transaction' = [transaction EXCEPT !.timer = Aged(transaction.timer, TerminalTimeout)]
    BY <1>1 DEF motion_session_later
  <2> QED BY <2>1, <2>2, <2>3, TimerSet
<1>2. transaction = None <=> transaction' = None
  BY <1>1 DEF motion_session_later
<1>3. LinkSessionTypeOK'
  BY AgedRange, NoneIsNoNumber DEF link_session_later, Aged
<1>4. command' \in WheelCommands \cup {None} /\ (command = None => command' = None)
  <2>1. CASE command = None
    BY <2>1
  <2>2. CASE command # None
    <3>1. command \in WheelCommands /\ command.age \in 0 .. Freshness
      BY <2>2 DEF WheelCommands
    <3>2. Aged(command.age, Freshness) \in 0 .. Freshness
      BY <3>1, NoneIsNoNumber DEF Aged
    <3> QED BY <2>2, <3>1, <3>2 DEF WheelCommands
  <2> QED BY <2>1, <2>2
<1>5. wheel_age' \in 0 .. WheelPeriod \cup {None}
  BY AgedRange
<1>6. deadline' \in Nat \cup {None}
  BY NoneIsNoNumber
<1>7. MotionSessionTypeOK'
  BY <1>1, <1>2 DEF motion_session_later
<1>8. RunnerTypeOK'
  BY <1>3, <1>4, <1>5, <1>6, <1>7
<1> QED
  BY <1>1, <1>2, <1>4, <1>8 DEF motion_session_later, link_session_later

\* Every step of poll, of the peer and of the clock keeps the invariant.
LEMMA RunnerStep ==
  ASSUME RunnerInv, [RunnerNext]_runnerVars
  PROVE  RunnerInv'
<1>1. CASE Iterate
  <2>1. CASE CheckFailed \/ ReceiveFailed \/ SendFailed
    BY <2>1, EpochLostKeeps DEF CheckFailed, ReceiveFailed, SendFailed
  <2> QED BY <1>1, <2>1, CheckKeeps, BeginKeeps, MoveKeeps, HeartbeatKeeps DEF Iterate
<1>2. CASE Frames
  BY <1>2, ConnectKeeps, HeartbeatKeeps, AnswerKeeps DEF Frames
<1>3. CASE UNCHANGED runnerVars
  BY <1>3
  DEF runnerVars, motionSession, linkSession, runner, history, RunnerInv, RunnerTypeOK,
      SessionsInStep, PhaseInStep, TimerRuns, SendsCounted, OutdatedDropped,
      MotionSessionTypeOK, LinkSessionTypeOK
<1> QED BY <1>1, <1>2, <1>3, MoveKeeps, ConnectKeeps, TickKeeps DEF RunnerNext

\* Runner, link session and motion session keep their types and stay in step, and a transaction
\* has a running timer and a counted number of sends (stm32_client_runner.cpp, poll).
THEOREM RunnerInvariant == RunnerSpec => []RunnerInv
<1>1. RunnerInit => RunnerInv
  <2>1. 1 % SequenceCount \in PiSequences
    BY MotionSessionAssumption DEF PiSequences
  <2>2. RunnerInit => RunnerTypeOK
    <3>1. motion_session_init => MotionSessionTypeOK
      BY <2>1, MotionSessionAssumption DEF motion_session_init, MotionSessionTypeOK
    <3>2. link_session_init => LinkSessionTypeOK
      BY <2>1, LinkSessionAssumption DEF link_session_init, LinkSessionTypeOK
    <3>3. RunnerInit => session_id \in SessionIds /\ late \in 0 .. PollStall /\ sends \in Nat
      BY MotionSessionAssumption, LinkSessionAssumption DEF RunnerInit
    <3> QED BY <3>1, <3>2, <3>3, Zenon DEF RunnerInit, RunnerTypeOK, Phases
  <2> QED
    BY <2>2
    DEF RunnerInit, motion_session_init, link_session_init, RunnerInv, SessionsInStep,
        PhaseInStep, TimerRuns, SendsCounted, OutdatedDropped
<1>2. RunnerInv /\ [RunnerNext]_runnerVars => RunnerInv'
  BY RunnerStep
<1> QED BY <1>1, <1>2, PTL DEF RunnerSpec

\* Runner, link session and motion session agree.
THEOREM RunnerSessionsInStep == RunnerSpec => []SessionsInStep
<1>1. RunnerInv => SessionsInStep
  BY DEF RunnerInv
<1> QED BY <1>1, RunnerInvariant, PTL

\* The pending transaction's timer runs outside of its transmissions, and it is
\* transmitted at most 1 + MaxRetries times.
THEOREM RunnerRetriesBounded == RunnerSpec => [](TimerRuns /\ TransmissionsBounded)
<1>1. RunnerInv => TimerRuns /\ TransmissionsBounded
  <2> SUFFICES ASSUME RunnerInv PROVE TransmissionsBounded
    BY DEF RunnerInv
  <2>1. CASE transaction = None
    BY <2>1, MotionSessionAssumption DEF RunnerInv, SendsCounted, TransmissionsBounded
  <2>2. CASE transaction # None
    <3>1. transaction.retries \in 0 .. MaxRetries
      BY <2>2, TransactionShape DEF RunnerInv, RunnerTypeOK, MotionSessionTypeOK
    <3> QED
      BY <2>2, <3>1, MotionSessionAssumption
      DEF RunnerInv, RunnerTypeOK, SendsCounted, TransmissionsBounded
  <2> QED BY <2>1, <2>2
<1> QED BY <1>1, RunnerInvariant, PTL

\* A wheel command of an earlier connection neither moves the wheels nor starts a
\* session.
THEOREM RunnerNoOutdatedMotion == RunnerSpec => NoOutdatedMotion
<1>1. ASSUME RunnerInv, RunnerInv', [RunnerNext]_runnerVars
      PROVE  [phase' \in {"send_wheel", "send_start"} => ~outdated]_runnerVars
  <2>1. CASE ~outdated
    BY <2>1
  <2>2. CASE outdated'
    BY <1>1, <2>2 DEF RunnerInv, OutdatedDropped
  <2>3. CASE outdated /\ ~outdated'
    BY <1>1, <2>3
    DEF RunnerNext, Connect, Iterate, Frames, set_wheel_command, OpenFailed, Open,
        SyncSent, SyncGivenUp, SynchronizeFailed, CheckFailed, Check, RetrySent,
        StartSession, StartSkipped, StartSent, SendVelocity, VelocitySent, EndSession,
        EndSent, WheelSkipped, Heartbeat, HeartbeatSent, ReceiveDone, ReceiveFailed,
        SendFailed, EpochLost, ReceiveSyncOk, ReceiveHeartbeat, ReceiveAck,
        ReceiveResponse, Tick, history, runnerVars
  <2> QED BY <2>1, <2>2, <2>3
<1> QED BY <1>1, RunnerInvariant, PTL DEF RunnerSpec, NoOutdatedMotion

(***************************************************************************)
(* The runner is a MotionClient                                            *)
(***************************************************************************)

\* The transaction as the peer sees it.
Stripped(t) ==
  [command |-> t.command, session |-> t.session, sequence |-> t.sequence,
   acked |-> t.acked, retries |-> t.retries]

\* It is never mistaken for no transaction.
LEMMA StrippedShape ==
  ASSUME NEW t \in PiTransactions
  PROVE  Stripped(t) # None /\ Stripped(t) \in Client!ClientTransactions
<1>1. Stripped(t) \in Client!ClientTransactions
  BY TransactionShape
  DEF Stripped, Client!ClientTransactions, Client!LifecycleCommands,
      Client!ClientSequences, PiSequences
<1> QED BY <1>1, NoneIsNoUntimed

\* An ACK as the peer sees it.
LEMMA AckStripped ==
  ASSUME NEW t \in PiTransactions
  PROVE  [Stripped(t) EXCEPT !.acked = TRUE] =
           [command |-> t.command, session |-> t.session, sequence |-> t.sequence,
            acked |-> TRUE, retries |-> t.retries]
<1>1. ASSUME NEW c \in Client!ClientTransactions, NEW b \in BOOLEAN
      PROVE  [c EXCEPT !.acked = b] =
               [command |-> c.command, session |-> c.session, sequence |-> c.sequence,
                acked |-> b, retries |-> c.retries]
  BY DEF Client!ClientTransactions
<1>2. /\ Stripped(t).command = t.command
      /\ Stripped(t).session = t.session
      /\ Stripped(t).sequence = t.sequence
      /\ Stripped(t).retries = t.retries
  BY DEF Stripped
<1>3. Stripped(t) \in Client!ClientTransactions
  BY StrippedShape
<1> QED BY <1>1, <1>2, <1>3

\* The client's view of the transaction is there exactly when the transaction is.
LEMMA UntimedMeaning ==
  ASSUME RunnerInv
  PROVE  /\ transaction = None => Untimed = None
         /\ transaction # None => Untimed = Stripped(transaction) /\ Untimed # None
BY StrippedShape DEF Untimed, Stripped, RunnerInv, RunnerTypeOK, MotionSessionTypeOK

\* A step that changes at most ages, timers and the runner's own variables.
LEMMA ClientStutters ==
  ASSUME RunnerInv, RunnerInv',
         UNCHANGED <<session_state, active_session_id, next_sequence, link_state,
                     link_sequence, awaited>>,
         transaction = None => transaction' = None,
         transaction # None => transaction' # None /\ Stripped(transaction') = Stripped(transaction)
  PROVE  UNCHANGED Client!client
<1>1. Untimed' = Untimed
  <2>1. CASE transaction = None
    BY <2>1 DEF Untimed
  <2>2. CASE transaction # None
    BY <2>2 DEF Untimed, Stripped
  <2> QED BY <2>1, <2>2
<1> QED BY <1>1 DEF Client!client, Client!clientSession, Client!clientLink

\* The end of a connection.
LEMMA EpochLostIsDisconnect ==
  ASSUME EpochLost
  PROVE  Client!Disconnect
BY DEF EpochLost, link_disconnect, motion_session_reset, Client!Disconnect,
       Client!SessionDropped, Untimed

\* Steps that send or take nothing the client knows of.
LEMMA QuietSteps ==
  ASSUME RunnerInv, RunnerInv',
         \/ \E wanted \in BOOLEAN : set_wheel_command(wanted)
         \/ OpenFailed \/ SyncSent \/ StartSkipped \/ SendVelocity \/ VelocitySent
         \/ WheelSkipped \/ HeartbeatSent \/ ReceiveDone
         \/ UNCHANGED runnerVars
  PROVE  UNCHANGED Client!client
<1>1. UNCHANGED <<motionSession, linkSession>>
  BY DEF set_wheel_command, OpenFailed, SyncSent, StartSkipped, SendVelocity, VelocitySent,
         WheelSkipped, HeartbeatSent, ReceiveDone, runnerVars
<1> QED BY <1>1, ClientStutters DEF motionSession, linkSession

\* A transmission that ends starts the timer.
LEMMA SentSteps ==
  ASSUME RunnerInv, RunnerInv', StartSent \/ EndSent \/ RetrySent \/ Tick
  PROVE  UNCHANGED Client!client
<1>1. ASSUME NEW t \in PiTransactions, NEW timer \in 0 .. TerminalTimeout \cup {None}
      PROVE  Stripped([t EXCEPT !.timer = timer]) = Stripped(t)
  BY DEF PiTransactions, Stripped
<1>2. CASE StartSent \/ EndSent \/ RetrySent
  <2>1. mark_pending_transmitted /\ UNCHANGED linkSession
    BY <1>2 DEF StartSent, EndSent, RetrySent
  <2>2. ASSUME transaction # None
        PROVE  transaction' # None /\ Stripped(transaction') = Stripped(transaction)
    <3>1. transaction \in PiTransactions /\ 0 \in 0 .. TerminalTimeout \cup {None}
      BY <2>2, MotionSessionAssumption DEF RunnerInv, RunnerTypeOK, MotionSessionTypeOK
    <3>2. transaction' = [transaction EXCEPT !.timer = 0]
      BY <2>1, <2>2 DEF mark_pending_transmitted
    <3> QED BY <1>1, <3>1, <3>2, TimerSet, TransactionShape
  <2> QED BY <2>1, <2>2, ClientStutters DEF mark_pending_transmitted, linkSession
<1>3. CASE Tick
  <2>1. motion_session_later /\ link_session_later
    BY <1>3 DEF Tick
  <2>2. ASSUME transaction # None
        PROVE  transaction' # None /\ Stripped(transaction') = Stripped(transaction)
    <3>1. transaction \in PiTransactions
      BY <2>2 DEF RunnerInv, RunnerTypeOK, MotionSessionTypeOK
    <3>2. Aged(transaction.timer, TerminalTimeout) \in 0 .. TerminalTimeout \cup {None}
      BY <3>1, TransactionShape, AgedRange, MotionSessionAssumption
    <3>3. transaction' = [transaction EXCEPT !.timer = Aged(transaction.timer, TerminalTimeout)]
      BY <2>1, <2>2 DEF motion_session_later
    <3> QED BY <1>1, <3>1, <3>2, <3>3, TimerSet, TransactionShape
  <2> QED BY <2>1, <2>2, ClientStutters DEF motion_session_later, link_session_later
<1> QED BY <1>2, <1>3

\* The link's own frames.
LEMMA LinkSteps ==
  ASSUME RunnerInv, RunnerInv',
         \/ Open \/ Heartbeat
         \/ \E sequence \in PiSequences, same_token \in BOOLEAN :
              ReceiveSyncOk(sequence, same_token)
         \/ \E sequence \in PiSequences : ReceiveHeartbeat(sequence)
  PROVE  Client!ClientNext \/ UNCHANGED Client!client
<1>1. CASE Open
  <2>1. link_state = "Disconnected"
    BY <1>1
    DEF RunnerInv, RunnerTypeOK, LinkSessionTypeOK, SessionsInStep, PhaseInStep, Open, AttemptDue
  <2>2. Client!Synchronize
    BY <1>1, <2>1
    DEF Open, begin_synchronization, motion_session_reset, Client!Synchronize,
        Client!SessionDropped, Client!NextAfter, Untimed
  <2> QED BY <2>2 DEF Client!ClientNext
<1>2. CASE Heartbeat /\ heartbeat(late)
  <2>1. Untimed' = Untimed
    BY <1>2 DEF Heartbeat, motionSession, Untimed
  <2>2. Client!HeartbeatMade
    BY <1>2, <2>1
    DEF Heartbeat, heartbeat, heartbeat_due, motionSession, Client!HeartbeatMade,
        Client!NextAfter, Client!clientSession
  <2> QED BY <2>2 DEF Client!ClientNext
<1>3. CASE Heartbeat /\ UNCHANGED linkSession
  BY <1>3, ClientStutters DEF Heartbeat, motionSession, linkSession
<1>4. ASSUME NEW sequence \in PiSequences, NEW same_token \in BOOLEAN,
             ReceiveSyncOk(sequence, same_token)
      PROVE  Client!ClientNext
  <2>1. Untimed' = Untimed
    BY <1>4 DEF ReceiveSyncOk, motionSession, Untimed
  <2>2. Client!SyncAnswered(sequence)
    BY <1>4, <2>1
    DEF ReceiveSyncOk, handle_link_sync_ok, motionSession, Client!SyncAnswered,
        Client!clientSession
  <2> QED BY <2>2 DEF Client!ClientNext, Client!ClientSequences, PiSequences
<1>5. ASSUME NEW sequence \in PiSequences, ReceiveHeartbeat(sequence)
      PROVE  Client!ClientNext
  <2>1. Untimed' = Untimed
    BY <1>5 DEF ReceiveHeartbeat, motionSession, Untimed
  <2>2. Client!HeartbeatAnswered(sequence)
    BY <1>5, <2>1
    DEF ReceiveHeartbeat, handle_heartbeat_response, heartbeat_answered, motionSession,
        Client!HeartbeatAnswered, Client!clientSession
  <2> QED BY <2>2 DEF Client!ClientNext, Client!ClientSequences, PiSequences
<1> QED BY <1>1, <1>2, <1>3, <1>4, <1>5 DEF Heartbeat

\* A lifecycle command, begun or repeated.
LEMMA CommandSteps ==
  ASSUME RunnerInv, RunnerInv',
         Check \/ EndSession \/ \E id \in SessionIds : StartSession(id)
  PROVE  Client!ClientNext \/ UNCHANGED Client!client
<1>1. ASSUME NEW kind, NEW id, transaction = None, Begin(kind, id), UNCHANGED linkSession,
             link_state = "Synchronized", session_state' \in {"StartPending", "EndPending"}
      PROVE  Client!CommandBegun(kind, id)
  <2>1. transaction' # None
    BY <1>1 DEF RunnerInv, SessionsInStep
  <2>2. Untimed' = [command |-> kind, session |-> id, sequence |-> next_sequence,
                    acked |-> FALSE, retries |-> 0]
    BY <1>1, <2>1 DEF Begin, Untimed
  <2> QED
    BY <1>1, <2>2 DEF Begin, linkSession, Client!CommandBegun, Client!NextAfter,
                      Client!clientLink, Untimed
<1>2. ASSUME NEW id \in SessionIds, StartSession(id)
      PROVE  Client!ClientNext
  <2>1. /\ transaction = None /\ link_state = "Synchronized" /\ session_state = "Inactive"
    BY <1>2
    DEF StartSession, StartWanted, Go, begin_start_session, RunnerInv, SessionsInStep, PhaseInStep
  <2>2. Client!StartBegun(id)
    BY <1>1, <1>2, <2>1 DEF StartSession, begin_start_session, Client!StartBegun
  <2> QED BY <2>2 DEF Client!ClientNext
<1>3. CASE EndSession
  <2>1. /\ transaction = None /\ link_state = "Synchronized" /\ session_state = "Active"
        /\ session_id = active_session_id
    BY <1>3 DEF EndSession, Go, begin_end_session, RunnerInv, SessionsInStep, PhaseInStep
  <2>2. Client!EndBegun
    BY <1>1, <1>3, <2>1 DEF EndSession, begin_end_session, Client!EndBegun
  <2> QED BY <2>2 DEF Client!ClientNext
<1>4. CASE Check /\ retry
  <2>1. transaction \in PiTransactions /\ transaction # None /\ transaction.retries < MaxRetries
    BY <1>4
    DEF retry, retry_due, timed_out, RunnerInv, RunnerTypeOK, MotionSessionTypeOK
  <2>2. transaction' = [transaction EXCEPT !.retries = @ + 1, !.timer = None]
    BY <1>4 DEF retry
  <2>3. transaction' # None
    BY <2>1, <2>2, RetryCounted, TransactionShape
  <2>4. /\ Untimed # None
        /\ Untimed.retries < MaxRetries
        /\ Untimed' = [Untimed EXCEPT !.retries = @ + 1]
    BY <2>1, <2>2, <2>3, UntimedMeaning DEF Untimed, PiTransactions, Stripped
  <2>5. Client!CommandRetried
    BY <1>4, <2>4 DEF Check, retry, linkSession, Client!CommandRetried, Client!clientLink
  <2> QED BY <2>5 DEF Client!ClientNext
<1>5. CASE Check /\ UNCHANGED motionSession
  BY <1>5, ClientStutters DEF Check, motionSession, linkSession
<1> QED BY <1>2, <1>3, <1>4, <1>5 DEF Check

\* Its answers.
LEMMA AnswerSteps ==
  ASSUME RunnerInv, RunnerInv',
         \/ \E sequence \in PiSequences : ReceiveAck(sequence)
         \/ \E sequence \in PiSequences, kind \in {"START_SESSION", "END_SESSION"},
               id \in SessionIds, result \in {"OK", "ALREADY_ACTIVE", "STOP_FAILED"} :
              ReceiveResponse(sequence, kind, id, result)
  PROVE  Client!ClientNext
<1>1. ASSUME NEW sequence \in PiSequences, ReceiveAck(sequence)
      PROVE  Client!ClientNext
  <2>1. /\ transaction \in PiTransactions /\ transaction # None
        /\ sequence = transaction.sequence
    BY <1>1 DEF ReceiveAck, handle_ack, RunnerInv, RunnerTypeOK, MotionSessionTypeOK
  <2>2. transaction' =
          [transaction EXCEPT !.acked = TRUE,
                              !.timer = IF transaction.timer = None THEN None ELSE 0]
    BY <1>1 DEF ReceiveAck, handle_ack
  <2>3. transaction' # None
    <3>1. session_state' = session_state
      BY <1>1 DEF ReceiveAck, handle_ack
    <3> QED BY <2>1, <3>1 DEF RunnerInv, SessionsInStep
  <2>4. /\ Untimed # None
        /\ sequence = Untimed.sequence
        /\ Untimed' = [Untimed EXCEPT !.acked = TRUE]
    <3> DEFINE timer == IF transaction.timer = None THEN None ELSE 0
    <3>1. transaction' = [transaction EXCEPT !.acked = TRUE, !.timer = timer]
      BY <2>2
    <3> HIDE DEF timer
    <3>2. Stripped(transaction') = [Stripped(transaction) EXCEPT !.acked = TRUE]
      <4>1. /\ transaction'.command = transaction.command
            /\ transaction'.session = transaction.session
            /\ transaction'.sequence = transaction.sequence
            /\ transaction'.retries = transaction.retries
            /\ transaction'.acked = TRUE
        BY <2>1, <3>1 DEF PiTransactions
      <4> DEFINE acked(t) == [command |-> t.command, session |-> t.session,
                              sequence |-> t.sequence, acked |-> TRUE, retries |-> t.retries]
      <4>2. Stripped(transaction') = acked(transaction)
        BY <4>1, Zenon DEF Stripped
      <4>3. [Stripped(transaction) EXCEPT !.acked = TRUE] = acked(transaction)
        BY <2>1, AckStripped
      <4> QED BY <4>2, <4>3
    <3>3. Untimed' = Stripped(transaction')
      BY <2>3 DEF Untimed, Stripped
    <3> QED BY <2>1, <3>2, <3>3, UntimedMeaning DEF Stripped
  <2>5. Client!AckTaken(sequence)
    BY <1>1, <2>4
    DEF ReceiveAck, handle_ack, linkSession, Client!AckTaken, Client!clientLink
  <2> QED BY <2>5 DEF Client!ClientNext, Client!ClientSequences, PiSequences
<1>2. ASSUME NEW sequence \in PiSequences, NEW kind \in {"START_SESSION", "END_SESSION"},
             NEW id \in SessionIds, NEW result \in {"OK", "ALREADY_ACTIVE", "STOP_FAILED"},
             ReceiveResponse(sequence, kind, id, result)
      PROVE  Client!ClientNext
  <2>1. /\ transaction # None
        /\ sequence = transaction.sequence
        /\ kind = transaction.command
        /\ id = transaction.session
    BY <1>2 DEF ReceiveResponse, handle_response
  <2>2. /\ Untimed # None
        /\ sequence = Untimed.sequence /\ kind = Untimed.command /\ id = Untimed.session
        /\ Untimed' = None
    BY <1>2, <2>1, UntimedMeaning DEF Stripped, Untimed, ReceiveResponse, handle_response
  <2>3. Client!ResponseTaken(sequence, kind, id, result)
    BY <1>2, <2>2
    DEF ReceiveResponse, handle_response, linkSession, Client!ResponseTaken, Client!clientLink
  <2> QED
    BY <2>3 DEF Client!ClientNext, Client!ClientSequences, PiSequences,
                Client!LifecycleCommands, Client!ClientResults
<1> QED BY <1>1, <1>2

\* Every step of the runner is a step of the client, or nothing to it.
LEMMA ClientStep ==
  ASSUME RunnerInv, RunnerInv', [RunnerNext]_runnerVars
  PROVE  [Client!ClientNext]_(Client!client)
<1>1. ASSUME EpochLost
      PROVE  Client!ClientNext
  BY <1>1, EpochLostIsDisconnect DEF Client!ClientNext
<1>2. CASE Iterate
  <2>1. CASE CheckFailed \/ ReceiveFailed \/ SendFailed
    BY <1>1, <2>1 DEF CheckFailed, ReceiveFailed, SendFailed
  <2> QED BY <1>2, <2>1, QuietSteps, SentSteps, LinkSteps, CommandSteps DEF Iterate
<1>3. CASE Connect \/ SynchronizeFailed
  <2>1. CASE SyncGivenUp \/ SynchronizeFailed
    BY <1>1, <2>1 DEF SyncGivenUp, SynchronizeFailed
  <2> QED BY <1>3, <2>1, QuietSteps, LinkSteps DEF Connect
<1>4. CASE Frames
  BY <1>4, LinkSteps, AnswerSteps DEF Frames
<1> QED BY <1>2, <1>3, <1>4, QuietSteps, SentSteps DEF RunnerNext

\* The runner, with all its clocks and failures, implements the client that
\* RobotLink composes with the STM32.
THEOREM RunnerImplementsClient == RunnerSpec => ClientImplemented
<1>1. RunnerInit => Client!ClientInit
  BY DEF RunnerInit, motion_session_init, link_session_init, Client!ClientInit, Untimed
<1>2. RunnerInv /\ RunnerInv' /\ [RunnerNext]_runnerVars => [Client!ClientNext]_(Client!client)
  BY ClientStep
<1> QED BY <1>1, <1>2, RunnerInvariant, PTL DEF RunnerSpec, ClientImplemented, Client!ClientSpec

(***************************************************************************)
(* The runner is a WheelPort                                               *)
(***************************************************************************)

\* To the application too: what a poll may do to the command is to let it grow old
\* or to drop it together with the connection.
THEOREM RunnerImplementsPort == RunnerSpec => PortImplemented
<1>1. RunnerInit => Port!PortInit
  BY DEF RunnerInit, Port!PortInit
<1>2. ASSUME RunnerInv, [RunnerNext]_runnerVars
      PROVE  [Port!PortNext]_(Port!port)
  <2>1. ASSUME EpochLost
        PROVE  Port!PollDrops
    BY <2>1 DEF EpochLost, Port!PollDrops
  <2>2. ASSUME NEW wanted \in BOOLEAN, set_wheel_command(wanted)
        PROVE  Port!PortNext
    BY <2>2 DEF set_wheel_command, Port!PortNext, Port!set_wheel_command, Port!Command
  <2>3. CASE Open
    BY <1>2, <2>3 DEF Open, AttemptDue, Port!PortNext, Port!PollDrops
  <2>4. ASSUME NEW sequence \in PiSequences, NEW same_token \in BOOLEAN,
               ReceiveSyncOk(sequence, same_token)
        PROVE  Port!PortNext
    BY <2>4 DEF ReceiveSyncOk, Port!PortNext, Port!PollConnects
  <2>5. CASE Tick
    <3>1. CASE command = None
      BY <2>5, <3>1 DEF Tick, Port!PortNext, Port!PortLater, Port!CommandLater
    <3>2. CASE command # None
      <4>1. command.age \in 0 .. Freshness /\ command \in WheelCommands
        BY <1>2, <3>2 DEF RunnerInv, RunnerTypeOK, WheelCommands
      <4>2. Aged(command.age, Freshness) =
              IF command.age < Freshness THEN command.age + 1 ELSE command.age
        BY <4>1, RunnerAssumption, NoneIsNoNumber DEF Aged
      <4>3. command' = [command EXCEPT !.age = Aged(command.age, Freshness)]
        BY <2>5, <3>2 DEF Tick
      <4>4. command' = Port!CommandLater
        BY <3>2, <4>1, <4>2, <4>3 DEF Port!CommandLater, WheelCommands
      <4> QED BY <2>5, <4>4 DEF Tick, Port!PortNext, Port!PortLater
    <3> QED BY <3>1, <3>2
  <2>6. CASE \/ OpenFailed \/ Check \/ RetrySent \/ StartSkipped \/ StartSent
             \/ SendVelocity \/ VelocitySent \/ EndSession \/ EndSent \/ WheelSkipped
             \/ Heartbeat \/ HeartbeatSent \/ ReceiveDone
             \/ \E id \in SessionIds : StartSession(id)
    BY <2>6
    DEF OpenFailed, Check, RetrySent, StartSkipped, StartSent, SendVelocity, VelocitySent,
        EndSession, EndSent, WheelSkipped, Heartbeat, HeartbeatSent, ReceiveDone,
        StartSession, runner, Port!port
  <2>7. CASE SyncSent
    BY <1>2, <2>7 DEF SyncSent, Go, RunnerInv, PhaseInStep, Port!port
  <2>8. CASE UNCHANGED runnerVars
    BY <2>8 DEF runnerVars, runner, Port!port
  <2>9. CASE \/ \E sequence \in PiSequences : ReceiveHeartbeat(sequence) \/ ReceiveAck(sequence)
             \/ \E sequence \in PiSequences, kind \in {"START_SESSION", "END_SESSION"},
                   id \in SessionIds, result \in {"OK", "ALREADY_ACTIVE", "STOP_FAILED"} :
                  ReceiveResponse(sequence, kind, id, result)
    BY <2>9 DEF ReceiveHeartbeat, ReceiveAck, ReceiveResponse, runner, Port!port
  <2>10. CASE SyncGivenUp \/ SynchronizeFailed \/ CheckFailed \/ ReceiveFailed \/ SendFailed
    BY <2>1, <2>10
    DEF SyncGivenUp, SynchronizeFailed, CheckFailed, ReceiveFailed, SendFailed, Port!PortNext
  <2> QED
    BY <1>2, <2>2, <2>3, <2>4, <2>5, <2>6, <2>7, <2>8, <2>9, <2>10
    DEF RunnerNext, Connect, Iterate, Frames
<1>3. RunnerInv /\ [RunnerNext]_runnerVars => [Port!PortNext]_(Port!port)
  BY <1>2
<1> QED BY <1>1, <1>3, RunnerInvariant, PTL DEF RunnerSpec, PortImplemented, Port!PortSpec

(***************************************************************************)
(* The motion coordinator                                                  *)
(***************************************************************************)

\* The invariants the run checks are inductive together with the types.
ControlInv ==
  /\ ControlTypeOK
  /\ MotionAttended
  /\ NoAuthorityNoMotion
  /\ EstopStops

\* After a stop the motors rest, or what they do is what they did before.
LEMMA StopOutcome ==
  ASSUME NEW stopped \in BOOLEAN, moving \in BOOLEAN, Stop(stopped)
  PROVE  /\ moving' \in BOOLEAN
         /\ stopped => ~moving'
         /\ moving' => moving
BY DEF Stop

\* Every call of the coordinator, and time, keep the invariant.
LEMMA ControlStep ==
  ASSUME ControlInv, ControlNext
  PROVE  ControlInv'
<1> USE MotionTimeoutAssumption, NoneIsNoNumber
    DEF ControlInv, ControlTypeOK, MotionAttended, NoAuthorityNoMotion, EstopStops,
        Authorities, safety
<1>1. CASE request_manual_control
  BY <1>1 DEF request_manual_control
<1>2. CASE TimePasses
  BY <1>2 DEF TimePasses
<1>3. ASSUME NEW stopped \in BOOLEAN, stop_and_release_control(stopped)
      PROVE  ControlInv'
  BY <1>3, StopOutcome DEF stop_and_release_control
<1>4. ASSUME NEW stopped \in BOOLEAN, request_autonomous_control(stopped)
      PROVE  ControlInv'
  <2>1. CASE authority = "Manual" /\ stopped
    BY <1>4, <2>1, StopOutcome DEF request_autonomous_control
  <2>2. CASE authority = "Manual" /\ ~stopped
    BY <1>4, <2>2, StopOutcome DEF request_autonomous_control
  <2>3. CASE authority # "Manual"
    BY <1>4, <2>3 DEF request_autonomous_control
  <2> QED BY <2>1, <2>2, <2>3
<1>5. ASSUME NEW stopped \in BOOLEAN, NEW requester \in Authorities,
             request_motion(requester, stopped)
      PROVE  ControlInv'
  <2>1. CASE RequestRest(requester, stopped)
    BY <2>1, StopOutcome DEF RequestRest, Permitted
  <2>2. CASE RequestAccepted(requester)
    BY <2>2 DEF RequestAccepted, Permitted, safe
  <2>3. CASE RequestFailed(requester, stopped)
    BY <2>3 DEF RequestFailed, Permitted, safe
  <2> QED BY <1>5, <2>1, <2>2, <2>3 DEF request_motion
<1>6. ASSUME NEW stopped \in BOOLEAN, tick(stopped)
      PROVE  ControlInv'
  BY <1>6, StopOutcome DEF tick, expired
<1>7. ASSUME NEW stopped \in BOOLEAN, report_estop(stopped)
      PROVE  ControlInv'
  BY <1>7, StopOutcome DEF report_estop
<1>8. ASSUME NEW stopped \in BOOLEAN, report_hardware_fault(stopped)
      PROVE  ControlInv'
  BY <1>8, StopOutcome DEF report_hardware_fault
<1>9. ASSUME NEW stopped \in BOOLEAN, clear_estop(stopped)
      PROVE  ControlInv'
  BY <1>9, StopOutcome DEF clear_estop
<1>10. ASSUME NEW stopped \in BOOLEAN, clear_hardware_fault(stopped)
       PROVE  ControlInv'
  BY <1>10, StopOutcome DEF clear_hardware_fault
<1> QED
  BY <1>1, <1>2, <1>3, <1>4, <1>5, <1>6, <1>7, <1>8, <1>9, <1>10 DEF ControlNext

\* The invariant holds in every state of every behaviour.
LEMMA ControlInvariant == ControlSpec => []ControlInv
<1>1. ControlInit => ControlInv
  BY MotionTimeoutAssumption
     DEF ControlInit, ControlInv, ControlTypeOK, MotionAttended, NoAuthorityNoMotion,
         EstopStops, Authorities
<1>2. ControlInv /\ [ControlNext]_controlVars => ControlInv'
  <2>1. ControlInv /\ UNCHANGED controlVars => ControlInv'
    BY DEF ControlInv, controlVars, safety, ControlTypeOK, MotionAttended,
           NoAuthorityNoMotion, EstopStops
  <2> QED BY <2>1, ControlStep
<1> QED BY <1>1, <1>2, PTL DEF ControlSpec

\* Turning motors are attended to by the watchdog or a recorded fault.
THEOREM MotionIsAttended == ControlSpec => []MotionAttended
BY ControlInvariant, PTL DEF ControlInv

\* The motors turn for somebody; under an emergency stop only with a recorded
\* fault.
THEOREM MotionHasAnOwner == ControlSpec => [](NoAuthorityNoMotion /\ EstopStops)
BY ControlInvariant, PTL DEF ControlInv

\* Safety is restored only at rest, by clear_estop or clear_hardware_fault.
THEOREM SafetyRestoredAtRest == ControlSpec => SafeAgainAtRest
<1>1. ControlInv /\ [ControlNext]_controlVars => [~safe /\ safe' => ~moving']_controlVars
  <2> SUFFICES ASSUME ControlInv, ControlNext, ~safe, safe'
               PROVE  ~moving'
    OBVIOUS
  <2> USE DEF safe, safety, ControlInv, ControlTypeOK
  <2>1. request_manual_control \/ TimePasses => FALSE
    BY DEF request_manual_control, TimePasses
  <2>2. ASSUME NEW stopped \in BOOLEAN, stop_and_release_control(stopped)
        PROVE  ~moving'
    BY <2>2, StopOutcome DEF stop_and_release_control
  <2>3. ASSUME NEW stopped \in BOOLEAN, request_autonomous_control(stopped)
        PROVE  ~moving'
    BY <2>3, StopOutcome DEF request_autonomous_control
  <2>4. ASSUME NEW stopped \in BOOLEAN, NEW requester \in Authorities,
               request_motion(requester, stopped)
        PROVE  ~moving'
    BY <2>4, StopOutcome DEF request_motion, RequestRest, RequestAccepted, RequestFailed
  <2>5. ASSUME NEW stopped \in BOOLEAN, tick(stopped)
        PROVE  ~moving'
    BY <2>5, StopOutcome DEF tick
  <2>6. ASSUME NEW stopped \in BOOLEAN,
               report_estop(stopped) \/ report_hardware_fault(stopped)
        PROVE  ~moving'
    BY <2>6 DEF report_estop, report_hardware_fault
  <2>7. ASSUME NEW stopped \in BOOLEAN, clear_estop(stopped)
        PROVE  ~moving'
    BY <2>7, StopOutcome DEF clear_estop
  <2>8. ASSUME NEW stopped \in BOOLEAN, clear_hardware_fault(stopped)
        PROVE  ~moving'
    BY <2>8, StopOutcome DEF clear_hardware_fault
  <2> QED BY <2>1, <2>2, <2>3, <2>4, <2>5, <2>6, <2>7, <2>8 DEF ControlNext
<1> QED BY <1>1, ControlInvariant, PTL DEF ControlSpec, SafeAgainAtRest

=============================================================================
