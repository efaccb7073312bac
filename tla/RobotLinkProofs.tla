-------------------------- MODULE RobotLinkProofs ---------------------------
(***************************************************************************)
(* Proofs about the two computers and the line between them: for every     *)
(* number of sessions, sequence numbers, retries and frames on the line.   *)
(*                                                                         *)
(* The inductive invariant follows a lifecycle command from the Raspberry  *)
(* Pi to the STM32 and its answer back.  The line keeps the order of       *)
(* frames, so what is on it falls into a part from before an event and a   *)
(* part from after it, for the three events that matter: LINK_SYNC,        *)
(* LINK_SYNC_OK and the acceptance of a new command.                       *)
(***************************************************************************)
EXTENDS RobotLink, MotionLifecycleProofs

(***************************************************************************)
(* The inductive invariant                                                 *)
(***************************************************************************)

\* The client on its own: a session needs an epoch, and a command is under way
\* exactly in the pending states.
ClientInv ==
  /\ epoch = None <=> link_state = "Disconnected"
  /\ link_state # "Synchronized" => session_state = "Inactive" /\ transaction = None
  /\ transaction # None <=> session_state \in {"StartPending", "EndPending"}
  /\ transaction # None =>
       /\ next_sequence = NextAfter(transaction.sequence)
       /\ session_state = "StartPending" => transaction.command = "START_SESSION"
       /\ session_state = "EndPending" =>
            transaction.command = "END_SESSION" /\ transaction.session = active_session_id

\* A LINK_SYNC is followed by nothing but LINK_SYNCs, and what is before it is
\* of the epoch the STM32 is in, if it is in one.
OrderInv ==
  /\ \A i, j \in 1 .. Len(to_stm) :
       i < j /\ to_stm[i].kind = "LINK_SYNC" => to_stm[j].kind = "LINK_SYNC"
  /\ \A i \in 1 .. Len(to_stm) :
       to_stm[i].kind # "LINK_SYNC" => stm_epoch \in {to_stm[i].epoch, None}

\* No command since the last reset.
Fresh == latest_sequence = None /\ pending = None /\ terminal = None /\ state = "NO_SESSION"

\* A LINK_SYNC is on its way, was taken or was lost: what is of the new epoch
\* comes last on the line, and the STM32 answered with nothing but LINK_SYNC_OK.
PendingInv ==
  /\ \A i \in 1 .. Len(to_stm) :
       to_stm[i].epoch = epoch => i = Len(to_stm) /\ to_stm[i].kind = "LINK_SYNC"
  /\ stm_epoch = epoch => to_stm = <<>> /\ Fresh
  /\ \A i \in 1 .. Len(to_pi) :
       to_pi[i].epoch = epoch =>
         /\ to_pi[i].kind = "LINK_SYNC_OK"
         /\ to_stm = <<>> /\ stm_epoch \in {epoch, None}
         /\ \A j \in i .. Len(to_pi) : to_pi[j].epoch = epoch

\* LINK_SYNC_OK was taken: all is of the new epoch.
BarrierInv ==
  /\ stm_epoch \in {epoch, None}
  /\ \A i \in 1 .. Len(to_stm) : to_stm[i].epoch = epoch /\ to_stm[i].kind # "LINK_SYNC"
  /\ \A i \in 1 .. Len(to_pi) : to_pi[i].epoch = epoch

EpochInv ==
  /\ link_state = "SyncPending" => PendingInv
  /\ link_state = "Synchronized" => BarrierInv

IsCommand(i) == to_stm[i].kind = "MOTION_COMMAND"

\* A command the receiver knows as its newest,
AtFrontier(c) ==
  /\ latest_sequence = c.sequence
  /\ pending = c \/ (terminal # None /\ terminal.transaction = c)

\* and one it will take as the next, with nothing in its way.
Acceptable(c) ==
  /\ pending = None
  /\ latest_sequence # None => c.sequence = NextAfter(latest_sequence)
  /\ \/ c.command = "START_SESSION" /\ state = "NO_SESSION"
     \/ /\ c.command = "END_SESSION" /\ state = "ACTIVE"
        /\ c.motion_session_id = motion_session_id

\* In an epoch the answer to the newest command is OK, and describes the state.
AnsweredInv ==
  /\ latest_sequence = None => Fresh
  /\ terminal # None =>
       /\ terminal.result = "OK"
       /\ pending = None
       /\ \/ /\ terminal.transaction.command = "START_SESSION" /\ state = "ACTIVE"
             /\ motion_session_id = terminal.transaction.motion_session_id
          \/ terminal.transaction.command = "END_SESSION" /\ state = "NO_SESSION"

\* The commands on the line: repetitions of the newest, then the next one.
CommandsInv ==
  /\ \A i \in 1 .. Len(to_stm) :
       IsCommand(i) =>
         AtFrontier(to_stm[i].transaction) \/ Acceptable(to_stm[i].transaction)
  /\ \A i, j \in 1 .. Len(to_stm) :
       i < j /\ IsCommand(i) /\ IsCommand(j) /\ Acceptable(to_stm[i].transaction)
         => to_stm[j].transaction = to_stm[i].transaction

StmInv ==
  /\ stm_epoch = None => active_operation_id = 0
  /\ stm_epoch # None => AnsweredInv /\ CommandsInv

\* The pending command as the STM32 will see it.
Underway ==
  [sequence |-> transaction.sequence, command |-> transaction.command,
   motion_session_id |-> transaction.session]

\* Both computers between two commands,
RestInv ==
  /\ pending = None
  /\ latest_sequence # None => next_sequence = NextAfter(latest_sequence)
  /\ \A i \in 1 .. Len(to_stm) : IsCommand(i) => AtFrontier(to_stm[i].transaction)
  /\ session_state = "Inactive" => state = "NO_SESSION"
  /\ session_state = "Active" => state = "ACTIVE" /\ motion_session_id = active_session_id

\* and with a command under way: it is still to be accepted, or it was.
UnderwayInv ==
  /\ \/ /\ Acceptable(Underway)
        /\ \A i \in 1 .. Len(to_stm) :
             IsCommand(i) => AtFrontier(to_stm[i].transaction) \/ to_stm[i].transaction = Underway
     \/ /\ AtFrontier(Underway)
        /\ \A i \in 1 .. Len(to_stm) : IsCommand(i) => to_stm[i].transaction = Underway
  /\ \A i \in 1 .. Len(to_pi) :
       /\ to_pi[i].kind = "MOTION_RESPONSE"
       /\ to_pi[i].answer.transaction.sequence = transaction.sequence
       => terminal = to_pi[i].answer

AgreeInv ==
  link_state = "Synchronized" /\ stm_epoch = epoch =>
    /\ transaction = None => RestInv
    /\ transaction # None => UnderwayInv

IsResponse(i) == to_pi[i].kind = "MOTION_RESPONSE"
AnswerSequence(i) == to_pi[i].answer.transaction.sequence

\* The answers on the line: to the command before, then to the one under way.
ResponsesInv ==
  link_state = "Synchronized" =>
    /\ transaction = None =>
         \A i \in 1 .. Len(to_pi) : IsResponse(i) => NextAfter(AnswerSequence(i)) = next_sequence
    /\ transaction # None =>
         /\ \A i \in 1 .. Len(to_pi) :
              IsResponse(i) =>
                \/ AnswerSequence(i) = transaction.sequence
                \/ NextAfter(AnswerSequence(i)) = transaction.sequence
         /\ \A i, j \in 1 .. Len(to_pi) :
              i < j /\ IsResponse(i) /\ IsResponse(j) /\ AnswerSequence(i) = transaction.sequence
                => AnswerSequence(j) = transaction.sequence

RobotInv ==
  /\ RobotTypeOK /\ LifecycleInv
  /\ ClientInv
  /\ OrderInv
  /\ EpochInv
  /\ StmInv
  /\ AgreeInv
  /\ ResponsesInv
  /\ PlainAnswers
(***************************************************************************)
(* Numbers, frames and sequences                                           *)
(***************************************************************************)

\* The constants of the two computers agree.
LEMMA LinkConstants ==
  /\ SequenceHalf \in Nat /\ SequenceHalf > 1 /\ SequenceCount = 2 * SequenceHalf
  /\ ClientSequences = Sequences /\ MotionSessionIds = SessionIds /\ 0 \in SessionIds
  /\ SessionIds \subseteq Nat /\ MaxRetries \in Nat
  /\ None \notin Tokens /\ None \notin ClientTransactions /\ None \notin Sequences
BY RobotLinkAssumption, SequenceAssumption, SessionAssumption, NoneIsNoNumber
   DEF SequenceMod, ClientSequences, Sequences

\* The sequence number after another one is a different one, and newer.
LEMMA NextIsNewer ==
  ASSUME NEW s \in Sequences
  PROVE  /\ NextAfter(s) \in Sequences /\ NextAfter(s) # s
         /\ motion_sequence_classify(s, NextAfter(s)) = "NEWER"
         /\ motion_sequence_classify(s, s) = "SAME"
<1>1. s \in 0 .. SequenceCount - 1 /\ SequenceMod = SequenceCount
  BY LinkConstants DEF Sequences, SequenceMod
<1>2. NextAfter(s) = IF s = SequenceCount - 1 THEN 0 ELSE s + 1
  BY <1>1, LinkConstants DEF NextAfter
<1>3. (NextAfter(s) - s + SequenceCount) % SequenceCount = 1
  <2>1. CASE s = SequenceCount - 1
    BY <1>1, <1>2, <2>1, LinkConstants
  <2>2. CASE s # SequenceCount - 1
    <3>1. NextAfter(s) - s + SequenceCount = SequenceCount + 1
      BY <1>1, <1>2, <2>2, LinkConstants
    <3>2. (SequenceCount + 1) % SequenceCount = 1
      BY LinkConstants
    <3> QED BY <3>1, <3>2
  <2> QED BY <2>1, <2>2
<1>4. (s - s + SequenceCount) % SequenceCount = 0
  <2>1. s - s + SequenceCount = SequenceCount
    BY <1>1, LinkConstants
  <2>2. SequenceCount % SequenceCount = 0
    BY LinkConstants
  <2> QED BY <2>1, <2>2
<1>5. NextAfter(s) \in Sequences /\ NextAfter(s) # s
  BY <1>1, <1>2, LinkConstants DEF Sequences, SequenceMod
<1>6. motion_sequence_classify(s, NextAfter(s)) = "NEWER"
  BY <1>1, <1>3, LinkConstants DEF motion_sequence_classify
<1>7. motion_sequence_classify(s, s) = "SAME"
  BY <1>1, <1>4, LinkConstants DEF motion_sequence_classify
<1> QED BY <1>5, <1>6, <1>7

\* What a frame to the STM32 holds,
LEMMA ToStmFields ==
  ASSUME NEW f \in ToStm
  PROVE  /\ f.epoch \in Tokens
         /\ f.kind \in {"LINK_SYNC", "HEARTBEAT"} => f.sequence \in Sequences
         /\ f.kind = "MOTION_COMMAND" => f.transaction \in Transactions
BY DEF ToStm

\* and one to the Raspberry Pi.
LEMMA ToPiFields ==
  ASSUME NEW f \in ToPi
  PROVE  /\ f.epoch \in Tokens
         /\ f.kind = "MOTION_RESPONSE" => f.answer \in Terminals
         /\ f.kind # "MOTION_RESPONSE" => f.sequence \in Sequences
BY DEF ToPi

\* What is left of a line when its first frame is taken.
LEMMA TailOf ==
  ASSUME NEW S, NEW s \in Seq(S), s # <<>>
  PROVE  /\ Len(s) \in Nat \ {0} /\ Head(s) = s[1] /\ Head(s) \in S
         /\ Tail(s) \in Seq(S) /\ Len(Tail(s)) = Len(s) - 1
         /\ \A i \in 1 .. Len(s) - 1 : Tail(s)[i] = s[i + 1]
OBVIOUS

\* A line without frames is the empty one.
LEMMA EmptyLine ==
  ASSUME NEW S, NEW s \in Seq(S), Len(s) = 0
  PROVE  s = <<>>
OBVIOUS

\* A line with one more frame,
LEMMA AppendOf ==
  ASSUME NEW S, NEW s \in Seq(S), NEW x \in S
  PROVE  /\ Append(s, x) \in Seq(S) /\ Len(s) \in Nat /\ Len(Append(s, x)) = Len(s) + 1
         /\ \A i \in 1 .. Len(s) : Append(s, x)[i] = s[i]
         /\ Append(s, x)[Len(s) + 1] = x
OBVIOUS

\* and with several.
LEMMA ConcatOf ==
  ASSUME NEW S, NEW s \in Seq(S), NEW t \in Seq(S)
  PROVE  /\ s \o t \in Seq(S) /\ Len(s) \in Nat /\ Len(t) \in Nat
         /\ Len(s \o t) = Len(s) + Len(t)
         /\ \A i \in 1 .. Len(s) : (s \o t)[i] = s[i]
         /\ \A i \in Len(s) + 1 .. Len(s) + Len(t) : (s \o t)[i] = t[i - Len(s)]
OBVIOUS

(***************************************************************************)
(* Steps that take frames from the line and send none                      *)
(***************************************************************************)

\* The first frame to the STM32 may be gone,
StmLineShrinks == to_stm' = to_stm \/ (to_stm # <<>> /\ to_stm' = Tail(to_stm))

\* and the first one to the Raspberry Pi.
PiLineShrinks == to_pi' = to_pi \/ (to_pi # <<>> /\ to_pi' = Tail(to_pi))

\* What is left stays in order.
LEMMA StmLineIndex ==
  ASSUME RobotTypeOK, StmLineShrinks
  PROVE  /\ to_stm' \in Seq(ToStm) /\ Len(to_stm') <= ChannelBound
         /\ Len(to_stm) \in Nat /\ Len(to_stm') \in Nat
         /\ \E d \in {0, 1} :
              /\ Len(to_stm) = Len(to_stm') + d
              /\ \A i \in 1 .. Len(to_stm') :
                   i + d \in 1 .. Len(to_stm) /\ to_stm'[i] = to_stm[i + d]
<1>1. to_stm \in Seq(ToStm) /\ Len(to_stm) <= ChannelBound /\ Len(to_stm) \in Nat
  BY DEF RobotTypeOK
<1>2. CASE to_stm' = to_stm
  <2>1. /\ Len(to_stm) = Len(to_stm') + 0
        /\ \A i \in 1 .. Len(to_stm') :
             i + 0 \in 1 .. Len(to_stm) /\ to_stm'[i] = to_stm[i + 0]
    BY <1>1, <1>2
  <2> QED BY <1>1, <1>2, <2>1
<1>3. CASE to_stm # <<>> /\ to_stm' = Tail(to_stm)
  <2>1. /\ Len(to_stm) \in Nat \ {0} /\ to_stm' \in Seq(ToStm)
        /\ Len(to_stm') = Len(to_stm) - 1
        /\ \A i \in 1 .. Len(to_stm) - 1 : to_stm'[i] = to_stm[i + 1]
    BY <1>1, <1>3, TailOf
  <2>2. ChannelBound \in Nat
    BY RobotLinkAssumption
  <2>3. /\ Len(to_stm) = Len(to_stm') + 1
        /\ \A i \in 1 .. Len(to_stm') :
             i + 1 \in 1 .. Len(to_stm) /\ to_stm'[i] = to_stm[i + 1]
    BY <2>1
  <2>4. Len(to_stm') <= ChannelBound /\ Len(to_stm') \in Nat
    BY <1>1, <2>1, <2>2
  <2> QED BY <1>1, <2>1, <2>3, <2>4
<1> QED BY <1>2, <1>3 DEF StmLineShrinks

\* The same of the other line.
LEMMA PiLineIndex ==
  ASSUME RobotTypeOK, PiLineShrinks
  PROVE  /\ to_pi' \in Seq(ToPi) /\ Len(to_pi') <= ChannelBound
         /\ Len(to_pi) \in Nat /\ Len(to_pi') \in Nat
         /\ \E d \in {0, 1} :
              /\ Len(to_pi) = Len(to_pi') + d
              /\ \A i \in 1 .. Len(to_pi') :
                   i + d \in 1 .. Len(to_pi) /\ to_pi'[i] = to_pi[i + d]
<1>1. to_pi \in Seq(ToPi) /\ Len(to_pi) <= ChannelBound /\ Len(to_pi) \in Nat
  BY DEF RobotTypeOK
<1>2. CASE to_pi' = to_pi
  <2>1. /\ Len(to_pi) = Len(to_pi') + 0
        /\ \A i \in 1 .. Len(to_pi') :
             i + 0 \in 1 .. Len(to_pi) /\ to_pi'[i] = to_pi[i + 0]
    BY <1>1, <1>2
  <2> QED BY <1>1, <1>2, <2>1
<1>3. CASE to_pi # <<>> /\ to_pi' = Tail(to_pi)
  <2>1. /\ Len(to_pi) \in Nat \ {0} /\ to_pi' \in Seq(ToPi)
        /\ Len(to_pi') = Len(to_pi) - 1
        /\ \A i \in 1 .. Len(to_pi) - 1 : to_pi'[i] = to_pi[i + 1]
    BY <1>1, <1>3, TailOf
  <2>2. ChannelBound \in Nat
    BY RobotLinkAssumption
  <2>3. /\ Len(to_pi) = Len(to_pi') + 1
        /\ \A i \in 1 .. Len(to_pi') :
             i + 1 \in 1 .. Len(to_pi) /\ to_pi'[i] = to_pi[i + 1]
    BY <2>1
  <2>4. Len(to_pi') <= ChannelBound /\ Len(to_pi') \in Nat
    BY <1>1, <2>1, <2>2
  <2> QED BY <1>1, <2>1, <2>3, <2>4
<1> QED BY <1>2, <1>3 DEF PiLineShrinks

\* The order of the frames to the STM32 is kept.
LEMMA OrderKept ==
  ASSUME RobotTypeOK, OrderInv, StmLineShrinks, stm_epoch' \in {stm_epoch, None}
  PROVE  OrderInv'
<1>1. PICK d \in {0, 1} :
        /\ Len(to_stm) = Len(to_stm') + d
        /\ \A i \in 1 .. Len(to_stm') :
             i + d \in 1 .. Len(to_stm) /\ to_stm'[i] = to_stm[i + d]
  BY StmLineIndex
<1>2. ASSUME NEW i \in 1 .. Len(to_stm'), NEW j \in 1 .. Len(to_stm'), i < j,
             to_stm'[i].kind = "LINK_SYNC"
      PROVE  to_stm'[j].kind = "LINK_SYNC"
  <2>1. i + d < j + d /\ i + d \in 1 .. Len(to_stm) /\ j + d \in 1 .. Len(to_stm)
    BY <1>1, <1>2
  <2> QED BY <1>1, <1>2, <2>1 DEF OrderInv
<1>3. ASSUME NEW i \in 1 .. Len(to_stm'), to_stm'[i].kind # "LINK_SYNC"
      PROVE  stm_epoch' \in {to_stm'[i].epoch, None}
  BY <1>1, <1>3 DEF OrderInv
<1> QED BY <1>2, <1>3 DEF OrderInv

\* What the STM32 makes of the commands on the line is kept.
LEMMA CommandsKept ==
  ASSUME RobotTypeOK, CommandsInv, StmLineShrinks, UNCHANGED coordinator
  PROVE  CommandsInv'
<1>1. PICK d \in {0, 1} :
        /\ Len(to_stm) = Len(to_stm') + d
        /\ \A i \in 1 .. Len(to_stm') :
             i + d \in 1 .. Len(to_stm) /\ to_stm'[i] = to_stm[i + d]
  BY StmLineIndex
<1>2. ASSUME NEW i \in 1 .. Len(to_stm'), IsCommand(i)'
      PROVE  (AtFrontier(to_stm[i].transaction) \/ Acceptable(to_stm[i].transaction))'
  <2>1. i + d \in 1 .. Len(to_stm) /\ IsCommand(i + d) /\ to_stm'[i] = to_stm[i + d]
    BY <1>1, <1>2 DEF IsCommand
  <2>2. AtFrontier(to_stm[i + d].transaction) \/ Acceptable(to_stm[i + d].transaction)
    BY <2>1 DEF CommandsInv
  <2> QED BY <2>1, <2>2 DEF AtFrontier, Acceptable, NextAfter, coordinator
<1>3. ASSUME NEW i \in 1 .. Len(to_stm'), NEW j \in 1 .. Len(to_stm'), i < j,
             IsCommand(i)', IsCommand(j)', Acceptable(to_stm[i].transaction)'
      PROVE  to_stm'[j].transaction = to_stm'[i].transaction
  <2>1. /\ i + d \in 1 .. Len(to_stm) /\ IsCommand(i + d) /\ to_stm'[i] = to_stm[i + d]
        /\ j + d \in 1 .. Len(to_stm) /\ IsCommand(j + d) /\ to_stm'[j] = to_stm[j + d]
        /\ i + d < j + d
    BY <1>1, <1>3 DEF IsCommand
  <2>2. Acceptable(to_stm[i + d].transaction)
    BY <1>3, <2>1 DEF Acceptable, NextAfter, coordinator
  <2> QED BY <2>1, <2>2 DEF CommandsInv
<1> QED BY <1>2, <1>3 DEF CommandsInv

\* The STM32's own part of the invariant is kept.
LEMMA StmKept ==
  ASSUME RobotTypeOK, StmInv, StmLineShrinks, UNCHANGED <<coordinator, stm_epoch>>
  PROVE  StmInv'
<1>1. stm_epoch # None => AnsweredInv'
  BY DEF StmInv, AnsweredInv, Fresh, coordinator
<1>2. stm_epoch # None => CommandsInv'
  BY CommandsKept DEF StmInv
<1> QED BY <1>1, <1>2 DEF StmInv, coordinator

\* The epochs of the frames are kept, and so is the barrier.
LEMMA EpochKept ==
  ASSUME RobotTypeOK, ClientInv, EpochInv, StmLineShrinks, PiLineShrinks,
         UNCHANGED <<link_state, epoch>>,
         stm_epoch' = None \/ UNCHANGED <<stm_epoch, coordinator>>
  PROVE  EpochInv'
<1>1. PICK d \in {0, 1} :
        /\ Len(to_stm) = Len(to_stm') + d
        /\ \A i \in 1 .. Len(to_stm') :
             i + d \in 1 .. Len(to_stm) /\ to_stm'[i] = to_stm[i + d]
  BY StmLineIndex
<1>2. PICK e \in {0, 1} :
        /\ Len(to_pi) = Len(to_pi') + e
        /\ \A i \in 1 .. Len(to_pi') :
             i + e \in 1 .. Len(to_pi) /\ to_pi'[i] = to_pi[i + e]
  BY PiLineIndex
<1>3. to_stm = <<>> => to_stm' = <<>>
  BY DEF StmLineShrinks
<1>4. /\ Len(to_stm) \in Nat /\ Len(to_stm') \in Nat /\ Len(to_pi) \in Nat /\ Len(to_pi') \in Nat
  BY StmLineIndex, PiLineIndex
<1>5. ASSUME link_state = "SyncPending"
      PROVE  PendingInv'
  <2>1. PendingInv /\ epoch # None
    BY <1>5 DEF EpochInv, ClientInv
  <2>2. ASSUME NEW i \in 1 .. Len(to_stm'), to_stm'[i].epoch = epoch
        PROVE  i = Len(to_stm') /\ to_stm'[i].kind = "LINK_SYNC"
    BY <1>1, <1>4, <2>1, <2>2 DEF PendingInv
  <2>3. stm_epoch' = epoch => to_stm' = <<>> /\ Fresh'
    BY <1>3, <2>1 DEF PendingInv, Fresh, coordinator
  <2>4. ASSUME NEW i \in 1 .. Len(to_pi'), to_pi'[i].epoch = epoch
        PROVE  /\ to_pi'[i].kind = "LINK_SYNC_OK"
               /\ to_stm' = <<>> /\ stm_epoch' \in {epoch, None}
               /\ \A j \in i .. Len(to_pi') : to_pi'[j].epoch = epoch
    <3>1. i + e \in 1 .. Len(to_pi) /\ to_pi[i + e].epoch = epoch /\ to_pi'[i] = to_pi[i + e]
      BY <1>2, <2>4
    <3>2. to_pi'[i].kind = "LINK_SYNC_OK" /\ to_stm' = <<>> /\ stm_epoch' \in {epoch, None}
      BY <1>3, <2>1, <3>1 DEF PendingInv
    <3>3. ASSUME NEW j \in i .. Len(to_pi')
          PROVE  to_pi'[j].epoch = epoch
      <4>1. j \in 1 .. Len(to_pi') /\ j + e \in i + e .. Len(to_pi)
        BY <1>2, <1>4
      <4> QED BY <1>2, <2>1, <3>1, <4>1 DEF PendingInv
    <3> QED BY <3>2, <3>3
  <2> QED BY <2>2, <2>3, <2>4 DEF PendingInv
<1>6. ASSUME link_state = "Synchronized"
      PROVE  BarrierInv'
  <2>1. BarrierInv
    BY <1>6 DEF EpochInv
  <2>2. ASSUME NEW i \in 1 .. Len(to_stm')
        PROVE  to_stm'[i].epoch = epoch /\ to_stm'[i].kind # "LINK_SYNC"
    <3>1. i + d \in 1 .. Len(to_stm) /\ to_stm'[i] = to_stm[i + d]
      BY <1>1
    <3> QED BY <2>1, <3>1 DEF BarrierInv
  <2>3. ASSUME NEW i \in 1 .. Len(to_pi')
        PROVE  to_pi'[i].epoch = epoch
    <3>1. i + e \in 1 .. Len(to_pi) /\ to_pi'[i] = to_pi[i + e]
      BY <1>2
    <3> QED BY <2>1, <3>1 DEF BarrierInv
  <2>4. stm_epoch' \in {epoch, None}
    BY <2>1 DEF BarrierInv
  <2> QED BY <2>2, <2>3, <2>4 DEF BarrierInv
<1> QED BY <1>5, <1>6 DEF EpochInv

\* The answers on the line are kept.
LEMMA ResponsesKept ==
  ASSUME RobotTypeOK, ResponsesInv, PlainAnswers, PiLineShrinks
  PROVE  /\ PlainAnswers'
         /\ /\ UNCHANGED <<link_state, next_sequence>>
            /\ transaction' = None <=> transaction = None
            /\ transaction # None => transaction'.sequence = transaction.sequence
            => ResponsesInv'
<1>1. PICK d \in {0, 1} :
        /\ Len(to_pi) = Len(to_pi') + d
        /\ \A i \in 1 .. Len(to_pi') :
             i + d \in 1 .. Len(to_pi) /\ to_pi'[i] = to_pi[i + d]
  BY PiLineIndex
<1>2. DOMAIN to_pi = 1 .. Len(to_pi) /\ DOMAIN to_pi' = 1 .. Len(to_pi')
  BY PiLineIndex DEF RobotTypeOK
<1>3. PlainAnswers'
  BY <1>1, <1>2 DEF PlainAnswers
<1>4. ASSUME UNCHANGED <<link_state, next_sequence>>,
             transaction' = None <=> transaction = None,
             transaction # None => transaction'.sequence = transaction.sequence,
             link_state = "Synchronized"
      PROVE  ResponsesInv'
  <2>1. ASSUME NEW i \in 1 .. Len(to_pi')
        PROVE  /\ i + d \in 1 .. Len(to_pi)
               /\ IsResponse(i)' = IsResponse(i + d)
               /\ AnswerSequence(i)' = AnswerSequence(i + d)
    BY <1>1, <2>1 DEF IsResponse, AnswerSequence
  <2>2. CASE transaction = None
    <3>1. ASSUME NEW i \in 1 .. Len(to_pi'), IsResponse(i)'
          PROVE  NextAfter(AnswerSequence(i))' = next_sequence'
      BY <1>4, <2>1, <2>2, <3>1 DEF ResponsesInv, NextAfter
    <3> QED BY <1>4, <2>2, <3>1 DEF ResponsesInv
  <2>3. CASE transaction # None
    <3>1. ASSUME NEW i \in 1 .. Len(to_pi'), IsResponse(i)'
          PROVE  \/ AnswerSequence(i)' = transaction'.sequence
                 \/ NextAfter(AnswerSequence(i))' = transaction'.sequence
      BY <1>4, <2>1, <2>3, <3>1 DEF ResponsesInv, NextAfter
    <3>2. ASSUME NEW i \in 1 .. Len(to_pi'), NEW j \in 1 .. Len(to_pi'), i < j,
                 IsResponse(i)', IsResponse(j)', AnswerSequence(i)' = transaction'.sequence
          PROVE  AnswerSequence(j)' = transaction'.sequence
      <4>1. i + d < j + d
        BY <3>2
      <4> QED BY <1>4, <2>1, <2>3, <3>2, <4>1 DEF ResponsesInv
    <3> QED BY <1>4, <2>3, <3>1, <3>2 DEF ResponsesInv
  <2> QED BY <2>2, <2>3
<1>5. UNCHANGED link_state /\ link_state # "Synchronized" => ResponsesInv'
  BY DEF ResponsesInv
<1> QED BY <1>3, <1>4, <1>5

\* The agreement of the two computers is kept, also when the answer the STM32
\* holds is sent once more.
LEMMA AgreeKept ==
  ASSUME RobotTypeOK, AgreeInv, StmLineShrinks,
         \A i \in 1 .. Len(to_pi') :
           to_pi'[i].kind = "MOTION_RESPONSE" =>
             \/ \E j \in 1 .. Len(to_pi) : to_pi'[i] = to_pi[j]
             \/ to_pi'[i].answer = terminal,
         UNCHANGED <<coordinator, stm_epoch, link_state, epoch, next_sequence,
                     session_state, active_session_id>>,
         transaction' = None <=> transaction = None,
         transaction # None => Underway' = Underway
  PROVE  AgreeInv'
<1>1. PICK d \in {0, 1} :
        /\ Len(to_stm) = Len(to_stm') + d
        /\ \A i \in 1 .. Len(to_stm') :
             i + d \in 1 .. Len(to_stm) /\ to_stm'[i] = to_stm[i + d]
  BY StmLineIndex
<1>3. SUFFICES ASSUME link_state = "Synchronized", stm_epoch = epoch
               PROVE  (transaction' = None => RestInv') /\ (transaction' # None => UnderwayInv')
  BY DEF AgreeInv
<1>4. CASE transaction = None
  <2>1. RestInv
    BY <1>3, <1>4 DEF AgreeInv
  <2>2. ASSUME NEW i \in 1 .. Len(to_stm'), IsCommand(i)'
        PROVE  AtFrontier(to_stm[i].transaction)'
    <3>1. AtFrontier(to_stm[i + d].transaction) /\ to_stm'[i] = to_stm[i + d]
      BY <1>1, <2>1, <2>2 DEF RestInv, IsCommand
    <3> QED BY <3>1 DEF AtFrontier, coordinator
  <2>3. RestInv'
    BY <2>1, <2>2 DEF RestInv, NextAfter, coordinator
  <2> QED BY <1>4, <2>3
<1>5. CASE transaction # None
  <2>1. UnderwayInv /\ Underway' = Underway
    BY <1>3, <1>5 DEF AgreeInv
  <2>2. transaction'.sequence = transaction.sequence
    <3>1. Underway.sequence = transaction.sequence /\ Underway'.sequence = transaction'.sequence
      BY DEF Underway
    <3> QED BY <2>1, <3>1
  <2>3. ASSUME NEW i \in 1 .. Len(to_pi'), to_pi'[i].kind = "MOTION_RESPONSE",
               to_pi'[i].answer.transaction.sequence = transaction'.sequence
        PROVE  terminal' = to_pi'[i].answer
    BY <2>1, <2>2, <2>3 DEF UnderwayInv, coordinator
  <2>4. CASE /\ Acceptable(Underway)
             /\ \A i \in 1 .. Len(to_stm) :
                  IsCommand(i) =>
                    AtFrontier(to_stm[i].transaction) \/ to_stm[i].transaction = Underway
    <3>1. Acceptable(Underway)'
      BY <2>1, <2>4 DEF Acceptable, NextAfter, coordinator
    <3>2. ASSUME NEW i \in 1 .. Len(to_stm'), IsCommand(i)'
          PROVE  AtFrontier(to_stm[i].transaction)' \/ to_stm'[i].transaction = Underway'
      <4>1. /\ AtFrontier(to_stm[i + d].transaction) \/ to_stm[i + d].transaction = Underway
            /\ to_stm'[i] = to_stm[i + d]
        BY <1>1, <2>4, <3>2 DEF IsCommand
      <4> QED BY <2>1, <4>1 DEF AtFrontier, coordinator
    <3> QED BY <1>5, <2>3, <3>1, <3>2 DEF UnderwayInv
  <2>5. CASE /\ AtFrontier(Underway)
             /\ \A i \in 1 .. Len(to_stm) : IsCommand(i) => to_stm[i].transaction = Underway
    <3>1. AtFrontier(Underway)'
      BY <2>1, <2>5 DEF AtFrontier, coordinator
    <3>2. ASSUME NEW i \in 1 .. Len(to_stm'), IsCommand(i)'
          PROVE  to_stm'[i].transaction = Underway'
      BY <1>1, <2>1, <2>5, <3>2 DEF IsCommand
    <3> QED BY <1>5, <2>3, <3>1, <3>2 DEF UnderwayInv
  <2> QED BY <2>1, <2>4, <2>5 DEF UnderwayInv
<1> QED BY <1>4, <1>5

\* A step that takes frames, and leaves both sessions as they are.
LEMMA QuietKeeps ==
  ASSUME RobotInv, StmLineShrinks, PiLineShrinks, ClientTypeOK', ClientInv',
         action' = NoAction,
         UNCHANGED <<coordinator, stm_epoch, link_state, epoch, next_sequence,
                     session_state, active_session_id>>,
         transaction' = None <=> transaction = None,
         transaction # None => Underway' = Underway
  PROVE  RobotInv'
<1>1. LifecycleInv'
  BY QuietPreserves, NoActionType DEF RobotInv
<1>2. RobotTypeOK'
  BY <1>1, StmLineIndex, PiLineIndex DEF RobotInv, RobotTypeOK, LifecycleInv
<1>3. OrderInv' /\ EpochInv' /\ StmInv'
  BY OrderKept, EpochKept, StmKept DEF RobotInv
<1>6. AgreeInv'
  <2>1. PICK d \in {0, 1} :
          \A i \in 1 .. Len(to_pi') : i + d \in 1 .. Len(to_pi) /\ to_pi'[i] = to_pi[i + d]
    BY PiLineIndex DEF RobotInv
  <2>2. \A i \in 1 .. Len(to_pi') : \E j \in 1 .. Len(to_pi) : to_pi'[i] = to_pi[j]
    BY <2>1
  <2> QED BY <2>2, AgreeKept DEF RobotInv
<1>4. transaction # None => transaction'.sequence = transaction.sequence
  <2>1. Underway.sequence = transaction.sequence /\ Underway'.sequence = transaction'.sequence
    BY DEF Underway
  <2> QED BY <2>1
<1>5. PlainAnswers' /\ ResponsesInv'
  BY <1>4, ResponsesKept DEF RobotInv
<1> QED BY <1>1, <1>2, <1>3, <1>5, <1>6 DEF RobotInv

(***************************************************************************)
(* The client                                                              *)
(***************************************************************************)

\* The client's variables are left alone.
LEMMA ClientIdle ==
  ASSUME ClientTypeOK, ClientInv, UNCHANGED <<client, epoch>>
  PROVE  /\ ClientTypeOK' /\ ClientInv'
         /\ UNCHANGED <<link_state, epoch, next_sequence, session_state, active_session_id>>
         /\ transaction' = transaction /\ Underway' = Underway
BY DEF client, clientSession, clientLink, ClientTypeOK, ClientInv, NextAfter, Underway

\* A connection ends, or the process with it.
LEMMA ClientDetached ==
  ASSUME ClientTypeOK, ClientInv, epoch' = None,
         link_state' = "Disconnected", awaited' = None,
         link_sequence' \in Sequences, next_sequence' \in Sequences,
         session_state' = "Inactive", active_session_id' = 0, transaction' = None
  PROVE  ClientTypeOK' /\ ClientInv'
BY LinkConstants DEF ClientTypeOK, ClientInv

\* LINK_SYNC is sent.
LEMMA ClientSynchronizes ==
  ASSUME ClientTypeOK, ClientInv, Synchronize, NEW token \in Tokens, epoch' = token
  PROVE  ClientTypeOK' /\ ClientInv'
<1>1. NextAfter(link_sequence) \in Sequences /\ link_sequence \in Sequences
  BY NextIsNewer, LinkConstants DEF ClientTypeOK
<1>2. ClientTypeOK'
  BY <1>1, LinkConstants DEF ClientTypeOK, Synchronize, SessionDropped
<1>3. ClientInv'
  BY LinkConstants DEF ClientInv, Synchronize, SessionDropped
<1> QED BY <1>2, <1>3

\* Its answer, a heartbeat and its answer concern the link alone.
LEMMA ClientLinkStep ==
  ASSUME ClientTypeOK, ClientInv, epoch' = epoch,
         \/ \E s \in Sequences : SyncAnswered(s) \/ HeartbeatAnswered(s)
         \/ HeartbeatMade
  PROVE  /\ ClientTypeOK' /\ ClientInv'
         /\ UNCHANGED <<next_sequence, session_state, active_session_id, transaction>>
         /\ Underway' = Underway
<1>1. NextAfter(link_sequence) \in Sequences /\ link_sequence \in Sequences
  BY NextIsNewer, LinkConstants DEF ClientTypeOK
<1>2. UNCHANGED clientSession /\ awaited' \in Sequences \cup {None} /\ link_sequence' \in Sequences
  BY <1>1 DEF SyncAnswered, HeartbeatAnswered, HeartbeatMade
<1>3. \/ link_state = "SyncPending" /\ link_state' = "Synchronized"
      \/ link_state = "Synchronized" /\ link_state' = link_state
  BY DEF SyncAnswered, HeartbeatAnswered, HeartbeatMade
<1>4. ClientTypeOK'
  BY <1>2, <1>3, LinkConstants DEF ClientTypeOK, clientSession
<1>5. ClientInv'
  BY <1>2, <1>3 DEF ClientInv, clientSession, NextAfter
<1> QED BY <1>2, <1>4, <1>5 DEF clientSession, Underway

\* A command is begun or repeated: it is under way with the number it is sent
\* with.
LEMMA ClientCommand ==
  ASSUME ClientTypeOK, ClientInv, epoch' = epoch,
         EndBegun \/ CommandRetried \/ \E id \in SessionIds : StartBegun(id)
  PROVE  /\ ClientTypeOK' /\ ClientInv'
         /\ link_state = "Synchronized" /\ UNCHANGED link_state
         /\ transaction' \in ClientTransactions /\ transaction' # None
         /\ \/ /\ transaction = None /\ transaction'.sequence = next_sequence
               /\ next_sequence' = NextAfter(next_sequence)
               /\ \/ session_state = "Inactive" /\ transaction'.command = "START_SESSION"
                  \/ /\ session_state = "Active" /\ transaction'.command = "END_SESSION"
                     /\ transaction'.session = active_session_id
            \/ /\ transaction # None /\ Underway' = Underway
               /\ transaction'.sequence = transaction.sequence
               /\ UNCHANGED <<next_sequence, session_state, active_session_id>>
<1>1. NextAfter(next_sequence) \in Sequences /\ next_sequence \in Sequences
  BY NextIsNewer, LinkConstants DEF ClientTypeOK
<1>2. CASE CommandRetried
  <2>1. transaction \in ClientTransactions /\ transaction # None
    BY <1>2 DEF CommandRetried, ClientTypeOK
  <2>2. /\ transaction' \in ClientTransactions
        /\ transaction'.sequence = transaction.sequence
        /\ transaction'.command = transaction.command
        /\ transaction'.session = transaction.session
    BY <1>2, <2>1, LinkConstants DEF CommandRetried, ClientTransactions
  <2>3. UNCHANGED <<next_sequence, session_state, active_session_id, clientLink>>
    BY <1>2 DEF CommandRetried
  <2>4. transaction' # None /\ link_state = "Synchronized"
    BY <2>1, <2>2, LinkConstants DEF ClientInv
  <2>5. ClientTypeOK'
    BY <2>2, <2>3 DEF ClientTypeOK, clientLink
  <2>6. ClientInv'
    BY <2>1, <2>2, <2>3, <2>4 DEF ClientInv, clientLink, NextAfter
  <2> QED BY <2>1, <2>2, <2>3, <2>4, <2>5, <2>6 DEF Underway, clientLink
<1>3. ASSUME NEW command \in LifecycleCommands, NEW id \in SessionIds,
             CommandBegun(command, id)
      PROVE  /\ transaction' \in ClientTransactions /\ transaction' # None /\ transaction = None
             /\ transaction'.sequence = next_sequence /\ transaction'.command = command
             /\ transaction'.session = id /\ next_sequence' = NextAfter(next_sequence)
             /\ link_state = "Synchronized" /\ UNCHANGED clientLink
  <2>1. /\ transaction' = [command |-> command, session |-> id, sequence |-> next_sequence,
                           acked |-> FALSE, retries |-> 0]
        /\ transaction = None /\ next_sequence' = NextAfter(next_sequence)
        /\ link_state = "Synchronized" /\ UNCHANGED clientLink
    BY <1>3 DEF CommandBegun
  <2>2. FALSE \in BOOLEAN /\ 0 \in 0 .. MaxRetries /\ next_sequence \in ClientSequences
    BY <1>1, LinkConstants
  <2>3. transaction' \in ClientTransactions
    BY <2>1, <2>2 DEF ClientTransactions
  <2> QED BY <2>1, <2>3, LinkConstants
<1>4. CASE EndBegun
  <2>1. /\ CommandBegun("END_SESSION", active_session_id) /\ active_session_id \in SessionIds
        /\ session_state = "Active" /\ session_state' = "EndPending"
        /\ UNCHANGED active_session_id /\ "END_SESSION" \in LifecycleCommands
    BY <1>4 DEF EndBegun, ClientTypeOK, LifecycleCommands
  <2>2. /\ transaction' \in ClientTransactions /\ transaction' # None /\ transaction = None
        /\ transaction'.sequence = next_sequence /\ transaction'.command = "END_SESSION"
        /\ transaction'.session = active_session_id
        /\ next_sequence' = NextAfter(next_sequence)
        /\ link_state = "Synchronized" /\ UNCHANGED clientLink
    BY <1>3, <2>1
  <2>3. ClientTypeOK'
    BY <1>1, <2>1, <2>2, LinkConstants DEF ClientTypeOK, clientLink
  <2>4. ClientInv'
    BY <2>1, <2>2 DEF ClientInv, clientLink, NextAfter
  <2> QED BY <2>1, <2>2, <2>3, <2>4 DEF clientLink
<1>5. CASE \E id \in SessionIds : StartBegun(id)
  <2>0. PICK id \in SessionIds : StartBegun(id)
    BY <1>5
  <2>1. /\ CommandBegun("START_SESSION", id)
        /\ session_state = "Inactive" /\ session_state' = "StartPending"
        /\ active_session_id' = 0 /\ "START_SESSION" \in LifecycleCommands
    BY <2>0 DEF StartBegun, LifecycleCommands
  <2>2. /\ transaction' \in ClientTransactions /\ transaction' # None /\ transaction = None
        /\ transaction'.sequence = next_sequence /\ transaction'.command = "START_SESSION"
        /\ transaction'.session = id
        /\ next_sequence' = NextAfter(next_sequence)
        /\ link_state = "Synchronized" /\ UNCHANGED clientLink
    BY <1>3, <2>1
  <2>3. ClientTypeOK'
    BY <1>1, <2>1, <2>2, LinkConstants DEF ClientTypeOK, clientLink
  <2>4. ClientInv'
    BY <2>1, <2>2 DEF ClientInv, clientLink, NextAfter
  <2> QED BY <2>1, <2>2, <2>3, <2>4 DEF clientLink
<1> QED BY <1>2, <1>4, <1>5

\* An ACK changes nothing but the flag.
LEMMA ClientAcked ==
  ASSUME ClientTypeOK, ClientInv, epoch' = epoch, NEW s, AckTaken(s)
  PROVE  /\ ClientTypeOK' /\ ClientInv'
         /\ UNCHANGED <<link_state, next_sequence, session_state, active_session_id>>
         /\ transaction # None /\ transaction' # None /\ Underway' = Underway
<1>1. transaction \in ClientTransactions /\ transaction # None
  BY DEF AckTaken, ClientTypeOK
<1>2. /\ transaction' \in ClientTransactions
      /\ transaction'.sequence = transaction.sequence
      /\ transaction'.command = transaction.command
      /\ transaction'.session = transaction.session
  BY <1>1 DEF AckTaken, ClientTransactions
<1>3. UNCHANGED <<next_sequence, session_state, active_session_id, clientLink>>
  BY DEF AckTaken
<1>4. transaction' # None
  BY <1>2, LinkConstants
<1>5. ClientTypeOK'
  BY <1>2, <1>3 DEF ClientTypeOK, clientLink
<1>6. ClientInv'
  BY <1>1, <1>2, <1>3, <1>4 DEF ClientInv, clientLink, NextAfter
<1> QED BY <1>1, <1>2, <1>3, <1>4, <1>5, <1>6 DEF Underway, clientLink

\* A response ends the command.
LEMMA ClientAnswered ==
  ASSUME ClientTypeOK, ClientInv, epoch' = epoch, NEW s, NEW c, NEW id, NEW r,
         ResponseTaken(s, c, id, r)
  PROVE  /\ ClientTypeOK' /\ ClientInv' /\ transaction # None /\ transaction' = None
         /\ UNCHANGED <<link_state, next_sequence>>
<1>1. transaction \in ClientTransactions /\ transaction # None /\ id \in SessionIds
  BY DEF ResponseTaken, ClientTypeOK, ClientTransactions
<1>2. transaction' = None /\ UNCHANGED <<next_sequence, clientLink>>
  BY DEF ResponseTaken
<1>3. \/ session_state' = "Active" /\ active_session_id' = id
      \/ session_state' = "Inactive" /\ active_session_id' = 0
  BY DEF ResponseTaken
<1>4. ClientTypeOK'
  BY <1>1, <1>2, <1>3, LinkConstants DEF ClientTypeOK, clientLink
<1>5. ClientInv'
  BY <1>1, <1>2, <1>3 DEF ClientInv, clientLink
<1> QED BY <1>1, <1>2, <1>4, <1>5 DEF clientLink

(***************************************************************************)
(* Steps of the Raspberry Pi and of the line                               *)
(***************************************************************************)

\* The invariant holds initially.
LEMMA InitRobotInv ==
  ASSUME RobotInit
  PROVE  RobotInv
<1>1. LifecycleInv
  BY InitEstablishes DEF RobotInit
<1>2. 1 % SequenceCount \in Sequences
  BY LinkConstants DEF Sequences, SequenceMod
<1>3. ClientTypeOK
  BY <1>2, LinkConstants DEF RobotInit, ClientInit, ClientTypeOK
<1>4. RobotTypeOK
  BY <1>1, <1>3, RobotLinkAssumption DEF RobotInit, RobotTypeOK, LifecycleInv
<1>5. ClientInv
  BY DEF RobotInit, ClientInit, ClientInv
<1>6. Len(to_stm) = 0 /\ Len(to_pi) = 0 /\ DOMAIN to_pi = {}
  BY DEF RobotInit
<1>7. OrderInv /\ EpochInv /\ StmInv /\ AgreeInv /\ ResponsesInv /\ PlainAnswers
  BY <1>6 DEF RobotInit, ClientInit, Init, OrderInv, EpochInv, StmInv, AgreeInv,
     ResponsesInv, PlainAnswers
<1> QED BY <1>1, <1>4, <1>5, <1>7 DEF RobotInv

\* A frame is lost, or is a velocity that is applied.
LEMMA LossKeeps ==
  ASSUME RobotInv, LostToStm \/ LostToPi \/ StmVelocity
  PROVE  RobotInv'
<1>1. /\ StmLineShrinks /\ PiLineShrinks /\ action' = NoAction
      /\ UNCHANGED <<client, epoch, coordinator, stm_epoch>>
  BY DEF LostToStm, LostToPi, StmVelocity, StmTakes, PiIdle, StmLineShrinks, PiLineShrinks
<1>2. ClientTypeOK /\ ClientInv
  BY DEF RobotInv, RobotTypeOK
<1>3. /\ ClientTypeOK' /\ ClientInv'
      /\ UNCHANGED <<link_state, epoch, next_sequence, session_state, active_session_id>>
      /\ transaction' = transaction /\ Underway' = Underway
  BY <1>1, <1>2, ClientIdle
<1> QED BY <1>1, <1>3, QuietKeeps

\* The Raspberry Pi gives its connection up, or restarts.
LEMMA DetachKeeps ==
  ASSUME RobotInv, PiDisconnect \/ PiRestart \/ PiReceiveUnsynchronized
  PROVE  RobotInv'
<1>1. ClientTypeOK /\ ClientInv /\ RobotTypeOK /\ LifecycleInv
  BY DEF RobotInv, RobotTypeOK
<1>2. 1 % SequenceCount \in Sequences
  BY LinkConstants DEF Sequences, SequenceMod
<1>3. /\ epoch' = None /\ link_state' = "Disconnected" /\ awaited' = None
      /\ session_state' = "Inactive" /\ active_session_id' = 0 /\ transaction' = None
      /\ link_sequence' \in Sequences /\ next_sequence' \in Sequences
  BY <1>1, <1>2, LinkConstants DEF PiDisconnect, PiRestart, PiReceiveUnsynchronized,
     Disconnect, SessionDropped, ClientTypeOK
<1>4. ClientTypeOK' /\ ClientInv'
  BY <1>1, <1>3, ClientDetached
<1>5. /\ StmLineShrinks /\ PiLineShrinks /\ action' = NoAction
      /\ UNCHANGED <<coordinator, stm_epoch>>
  BY DEF PiDisconnect, PiRestart, PiReceiveUnsynchronized, StmIdle, StmLineShrinks,
     PiLineShrinks, line
<1>6. LifecycleInv'
  BY <1>1, <1>5, QuietPreserves, NoActionType
<1>7. RobotTypeOK'
  BY <1>1, <1>3, <1>4, <1>5, <1>6, StmLineIndex, PiLineIndex DEF RobotTypeOK, LifecycleInv
<1>8. OrderInv' /\ StmInv'
  BY <1>1, <1>5, OrderKept, StmKept DEF RobotInv
<1>9. PlainAnswers'
  BY <1>1, <1>5, ResponsesKept DEF RobotInv
<1>10. EpochInv' /\ AgreeInv' /\ ResponsesInv'
  BY <1>3 DEF EpochInv, AgreeInv, ResponsesInv
<1> QED BY <1>4, <1>6, <1>7, <1>8, <1>9, <1>10 DEF RobotInv

\* LINK_SYNC_OK of this epoch is at the head of its line: all behind it is of
\* this epoch, and the STM32 has answered nothing else.
LEMMA SyncOkKeeps ==
  ASSUME RobotInv, PiReceive, SyncOkTaken(Head(to_pi))
  PROVE  RobotInv'
<1>1. ClientTypeOK /\ ClientInv /\ RobotTypeOK /\ LifecycleInv
  BY DEF RobotInv, RobotTypeOK
<1>2. /\ to_pi # <<>> /\ to_pi' = Tail(to_pi) /\ UNCHANGED <<epoch, to_stm>>
      /\ action' = NoAction /\ UNCHANGED <<coordinator, stm_epoch>>
      /\ Head(to_pi).kind = "LINK_SYNC_OK" /\ Head(to_pi).epoch = epoch
      /\ SyncAnswered(Head(to_pi).sequence)
  BY DEF PiReceive, StmIdle, SyncOkTaken
<1>3. /\ Len(to_pi) \in Nat \ {0} /\ Head(to_pi) = to_pi[1] /\ Head(to_pi) \in ToPi
      /\ to_pi' \in Seq(ToPi) /\ Len(to_pi') = Len(to_pi) - 1
      /\ \A i \in 1 .. Len(to_pi) - 1 : to_pi'[i] = to_pi[i + 1]
  BY <1>1, <1>2, TailOf DEF RobotTypeOK
<1>4. Head(to_pi).sequence \in Sequences
  BY <1>2, <1>3, ToPiFields
<1>5. /\ ClientTypeOK' /\ ClientInv'
      /\ UNCHANGED <<next_sequence, session_state, active_session_id, transaction>>
  BY <1>1, <1>2, <1>4, ClientLinkStep
<1>6. /\ link_state = "SyncPending" /\ link_state' = "Synchronized"
      /\ transaction = None /\ session_state = "Inactive" /\ PendingInv
  BY <1>1, <1>2 DEF SyncAnswered, ClientInv, RobotInv, EpochInv
<1>7. StmLineShrinks /\ PiLineShrinks
  BY <1>2 DEF StmLineShrinks, PiLineShrinks
<1>8. LifecycleInv'
  BY <1>1, <1>2, QuietPreserves, NoActionType
<1>9. RobotTypeOK'
  BY <1>1, <1>2, <1>5, <1>7, <1>8, StmLineIndex, PiLineIndex DEF RobotTypeOK, LifecycleInv
<1>10. OrderInv' /\ StmInv'
  BY <1>1, <1>2, <1>7, OrderKept, StmKept DEF RobotInv
<1>11. PlainAnswers'
  BY <1>1, <1>7, ResponsesKept DEF RobotInv
<1>12. /\ to_stm = <<>> /\ stm_epoch \in {epoch, None}
       /\ \A j \in 1 .. Len(to_pi) : to_pi[j].epoch = epoch
  <2>1. 1 \in 1 .. Len(to_pi) /\ to_pi[1].epoch = epoch
    BY <1>2, <1>3
  <2> QED BY <1>6, <2>1 DEF PendingInv
<1>13. \A j \in 1 .. Len(to_pi') : to_pi'[j].epoch = epoch /\ to_pi'[j].kind = "LINK_SYNC_OK"
  <2>1. ASSUME NEW j \in 1 .. Len(to_pi')
        PROVE  to_pi'[j].epoch = epoch /\ to_pi'[j].kind = "LINK_SYNC_OK"
    <3>1. j + 1 \in 1 .. Len(to_pi) /\ to_pi'[j] = to_pi[j + 1]
      BY <1>3
    <3> QED BY <1>6, <1>12, <3>1 DEF PendingInv
  <2> QED BY <2>1
<1>14. Len(to_stm') = 0
  BY <1>2, <1>12
<1>15. EpochInv'
  BY <1>2, <1>6, <1>12, <1>13, <1>14 DEF EpochInv, BarrierInv
<1>16. AgreeInv'
  <2>1. SUFFICES ASSUME stm_epoch = epoch PROVE RestInv'
    BY <1>2, <1>5, <1>6 DEF AgreeInv
  <2>2. Fresh
    BY <1>6, <2>1 DEF PendingInv
  <2> QED BY <1>2, <1>5, <1>6, <1>14, <2>2 DEF RestInv, Fresh, coordinator
<1>17. ResponsesInv'
  BY <1>5, <1>6, <1>13 DEF ResponsesInv, IsResponse
<1> QED BY <1>5, <1>8, <1>9, <1>10, <1>11, <1>15, <1>16, <1>17 DEF RobotInv

\* A response ends the command it is for.  If the STM32 still is in the epoch,
\* the response is the answer it holds, and describes the session it is in.
LEMMA ResponseKeeps ==
  ASSUME RobotInv, PiReceive, ResponseFrameTaken(Head(to_pi))
  PROVE  RobotInv'
<1>1. ClientTypeOK /\ ClientInv /\ RobotTypeOK /\ LifecycleInv
  BY DEF RobotInv, RobotTypeOK
<1> DEFINE f == Head(to_pi)
           a == f.answer
<1>2. /\ to_pi # <<>> /\ to_pi' = Tail(to_pi) /\ UNCHANGED <<epoch, to_stm>>
      /\ action' = NoAction /\ UNCHANGED <<coordinator, stm_epoch>>
      /\ f.kind = "MOTION_RESPONSE"
      /\ ResponseTaken(a.transaction.sequence, a.transaction.command,
                       a.transaction.motion_session_id, a.result)
  BY DEF PiReceive, StmIdle, ResponseFrameTaken
<1>3. /\ Len(to_pi) \in Nat \ {0} /\ f = to_pi[1] /\ f \in ToPi
      /\ to_pi' \in Seq(ToPi) /\ Len(to_pi') = Len(to_pi) - 1
      /\ \A i \in 1 .. Len(to_pi) - 1 : to_pi'[i] = to_pi[i + 1]
  BY <1>1, <1>2, TailOf DEF RobotTypeOK
<1>4. /\ ClientTypeOK' /\ ClientInv' /\ transaction # None /\ transaction' = None
      /\ UNCHANGED <<link_state, next_sequence>>
  BY <1>1, <1>2, ClientAnswered
<1>5. /\ a.transaction.sequence = transaction.sequence
      /\ a.transaction.command = transaction.command
      /\ a.transaction.motion_session_id = transaction.session
      /\ IF a.transaction.command = "START_SESSION" /\ a.result \in {"OK", "ALREADY_ACTIVE"}
           THEN session_state' = "Active" /\ active_session_id' = a.transaction.motion_session_id
           ELSE session_state' = "Inactive" /\ active_session_id' = 0
  BY <1>2 DEF ResponseTaken
<1>6. link_state = "Synchronized" /\ next_sequence = NextAfter(transaction.sequence)
  BY <1>1, <1>4 DEF ClientInv
<1>7. StmLineShrinks /\ PiLineShrinks
  BY <1>2 DEF StmLineShrinks, PiLineShrinks
<1>8. LifecycleInv'
  BY <1>1, <1>2, QuietPreserves, NoActionType
<1>9. RobotTypeOK'
  BY <1>1, <1>2, <1>4, <1>7, <1>8, StmLineIndex, PiLineIndex DEF RobotTypeOK, LifecycleInv
<1>10. OrderInv' /\ StmInv' /\ EpochInv'
  BY <1>1, <1>2, <1>4, <1>7, OrderKept, StmKept, EpochKept DEF RobotInv
<1>11. PlainAnswers'
  BY <1>1, <1>7, ResponsesKept DEF RobotInv
<1>12. ResponsesInv'
  <2>1. ASSUME NEW i \in 1 .. Len(to_pi'), IsResponse(i)'
        PROVE  NextAfter(AnswerSequence(i))' = next_sequence'
    <3>1. /\ i + 1 \in 1 .. Len(to_pi) /\ 1 \in 1 .. Len(to_pi) /\ 1 < i + 1
          /\ to_pi'[i] = to_pi[i + 1]
      BY <1>3
    <3>2. IsResponse(1) /\ IsResponse(i + 1) /\ AnswerSequence(1) = transaction.sequence
      BY <1>2, <1>3, <1>5, <2>1, <3>1 DEF IsResponse, AnswerSequence
    <3>3. AnswerSequence(i + 1) = transaction.sequence
      BY <1>4, <1>6, <3>1, <3>2 DEF RobotInv, ResponsesInv
    <3>4. AnswerSequence(i)' = transaction.sequence
      BY <3>1, <3>3 DEF AnswerSequence
    <3> QED BY <1>4, <1>6, <3>4 DEF NextAfter
  <2> QED BY <1>4, <2>1 DEF ResponsesInv
<1>13. AgreeInv'
  <2>1. SUFFICES ASSUME stm_epoch = epoch PROVE RestInv'
    BY <1>2, <1>4 DEF AgreeInv
  <2>2. UnderwayInv
    BY <1>4, <1>6, <2>1 DEF RobotInv, AgreeInv
  <2>3. terminal = a
    <3>1. 1 \in 1 .. Len(to_pi) /\ to_pi[1].kind = "MOTION_RESPONSE"
          /\ to_pi[1].answer.transaction.sequence = transaction.sequence
      BY <1>2, <1>3, <1>5
    <3>2. terminal = to_pi[1].answer
      BY <2>2, <3>1 DEF UnderwayInv
    <3> QED BY <1>3, <3>2
  <2>4. a \in Terminals /\ a # None
    BY <1>2, <1>3, ToPiFields, NoneAssumption
  <2> HIDE DEF a, f
  <2>5. stm_epoch # None /\ AnsweredInv
    BY <1>1, <1>6, <2>1 DEF ClientInv, RobotInv, StmInv
  <2>6. latest_sequence = transaction.sequence /\ pending = None /\ latest_sequence # None
    BY <1>1, <1>5, <2>3, <2>4, <2>5 DEF LifecycleInv, FrontierExplained, AnsweredFrontier,
       AnsweredInv, Fresh
  <2>7. ~Acceptable(Underway)
    <3>1. transaction.sequence \in Sequences
      BY <1>1, <1>4, LinkConstants DEF ClientTypeOK, ClientTransactions
    <3>2. NextAfter(transaction.sequence) # transaction.sequence
      BY <3>1, NextIsNewer
    <3> QED BY <2>6, <3>2 DEF Acceptable, Underway
  <2>8. /\ AtFrontier(Underway)
        /\ \A i \in 1 .. Len(to_stm) : IsCommand(i) => to_stm[i].transaction = Underway
    BY <2>2, <2>7 DEF UnderwayInv
  <2>9. \A i \in 1 .. Len(to_stm') : IsCommand(i)' => AtFrontier(to_stm[i].transaction)'
    BY <1>2, <2>8 DEF AtFrontier, IsCommand, coordinator
  <2>10. \/ session_state' = "Active" /\ state = "ACTIVE" /\ motion_session_id = active_session_id'
         \/ session_state' = "Inactive" /\ state = "NO_SESSION"
    BY <1>5, <2>3, <2>4, <2>5 DEF AnsweredInv
  <2>11. latest_sequence # None => next_sequence' = NextAfter(latest_sequence)
    BY <1>4, <1>6, <2>6
  <2> QED BY <1>2, <2>6, <2>9, <2>10, <2>11 DEF RestInv, NextAfter, coordinator
<1> QED BY <1>4, <1>8, <1>9, <1>10, <1>11, <1>12, <1>13 DEF RobotInv

\* Any frame the Raspberry Pi takes.
LEMMA ReceiveKeeps ==
  ASSUME RobotInv, PiReceive
  PROVE  RobotInv'
<1>1. ClientTypeOK /\ ClientInv /\ RobotTypeOK
  BY DEF RobotInv, RobotTypeOK
<1> DEFINE f == Head(to_pi)
<1>2. /\ to_pi # <<>> /\ to_pi' = Tail(to_pi) /\ UNCHANGED <<epoch, to_stm>>
      /\ action' = NoAction /\ UNCHANGED <<coordinator, stm_epoch>>
  BY DEF PiReceive, StmIdle
<1>3. StmLineShrinks /\ PiLineShrinks
  BY <1>2 DEF StmLineShrinks, PiLineShrinks
<1>4. f \in ToPi
  BY <1>1, <1>2, TailOf DEF RobotTypeOK
<1>5. CASE f.kind = "HEARTBEAT" /\ HeartbeatAnswered(f.sequence)
  <2>1. f.sequence \in Sequences
    BY <1>4, <1>5, ToPiFields
  <2>2. /\ ClientTypeOK' /\ ClientInv' /\ UNCHANGED link_state
        /\ UNCHANGED <<next_sequence, session_state, active_session_id, transaction>>
        /\ Underway' = Underway
    BY <1>1, <1>2, <1>5, <2>1, ClientLinkStep DEF HeartbeatAnswered
  <2> QED BY <1>2, <1>3, <2>2, QuietKeeps
<1>6. CASE f.kind = "MOTION_ACK" /\ AckTaken(f.sequence)
  <2>1. /\ ClientTypeOK' /\ ClientInv'
        /\ UNCHANGED <<link_state, next_sequence, session_state, active_session_id>>
        /\ transaction # None /\ transaction' # None /\ Underway' = Underway
    BY <1>1, <1>2, <1>6, ClientAcked
  <2> QED BY <1>2, <1>3, <2>1, QuietKeeps
<1> QED BY <1>5, <1>6, SyncOkKeeps, ResponseKeeps DEF PiReceive

\* A frame is sent to the STM32.
LEMMA SendIndex ==
  ASSUME RobotTypeOK, NEW x \in ToStm, PiSends(x)
  PROVE  /\ to_stm' \in Seq(ToStm) /\ Len(to_stm') <= ChannelBound
         /\ Len(to_stm) \in Nat /\ Len(to_stm') = Len(to_stm) + 1
         /\ \A i \in 1 .. Len(to_stm') :
              \/ i \in 1 .. Len(to_stm) /\ to_stm'[i] = to_stm[i]
              \/ i = Len(to_stm') /\ to_stm'[i] = x
<1>1. /\ to_stm \in Seq(ToStm) /\ to_stm' = Append(to_stm, x) /\ Len(to_stm) < ChannelBound
      /\ ChannelBound \in Nat
  BY RobotLinkAssumption DEF RobotTypeOK, PiSends
<1>2. /\ to_stm' \in Seq(ToStm) /\ Len(to_stm) \in Nat /\ Len(to_stm') = Len(to_stm) + 1
      /\ \A i \in 1 .. Len(to_stm) : to_stm'[i] = to_stm[i]
      /\ to_stm'[Len(to_stm) + 1] = x
  BY <1>1, AppendOf
<1> QED BY <1>1, <1>2

\* One that is no command leaves the commands alone.
LEMMA CommandsSent ==
  ASSUME RobotTypeOK, CommandsInv, UNCHANGED coordinator,
         NEW x \in ToStm, PiSends(x), x.kind # "MOTION_COMMAND"
  PROVE  CommandsInv'
<1>1. ASSUME NEW i \in 1 .. Len(to_stm'), IsCommand(i)'
      PROVE  i \in 1 .. Len(to_stm) /\ IsCommand(i) /\ to_stm'[i] = to_stm[i]
  BY <1>1, SendIndex DEF IsCommand
<1>2. ASSUME NEW i \in 1 .. Len(to_stm'), IsCommand(i)'
      PROVE  (AtFrontier(to_stm[i].transaction) \/ Acceptable(to_stm[i].transaction))'
  <2>1. AtFrontier(to_stm[i].transaction) \/ Acceptable(to_stm[i].transaction)
    BY <1>1, <1>2 DEF CommandsInv
  <2>2. to_stm'[i] = to_stm[i]
    BY <1>1, <1>2
  <2> QED BY <2>1, <2>2 DEF AtFrontier, Acceptable, NextAfter, coordinator
<1>3. ASSUME NEW i \in 1 .. Len(to_stm'), NEW j \in 1 .. Len(to_stm'), i < j,
             IsCommand(i)', IsCommand(j)', Acceptable(to_stm[i].transaction)'
      PROVE  to_stm'[j].transaction = to_stm'[i].transaction
  <2>1. /\ i \in 1 .. Len(to_stm) /\ IsCommand(i) /\ to_stm'[i] = to_stm[i]
        /\ j \in 1 .. Len(to_stm) /\ IsCommand(j) /\ to_stm'[j] = to_stm[j]
    BY <1>1, <1>3
  <2>2. Acceptable(to_stm[i].transaction)
    BY <1>3, <2>1 DEF Acceptable, NextAfter, coordinator
  <2> QED BY <1>3, <2>1, <2>2 DEF CommandsInv
<1> QED BY <1>2, <1>3 DEF CommandsInv

\* LINK_SYNC with a fresh token.
LEMMA SynchronizeKeeps ==
  ASSUME RobotInv, NEW token \in Tokens, PiSynchronize(token)
  PROVE  RobotInv'
<1>1. ClientTypeOK /\ ClientInv /\ RobotTypeOK /\ LifecycleInv
  BY DEF RobotInv, RobotTypeOK
<1> DEFINE x == LinkFrame("LINK_SYNC", link_sequence, token)
<1>2. /\ Synchronize /\ epoch' = token /\ PiSends(x) /\ UNCHANGED to_pi
      /\ action' = NoAction /\ UNCHANGED <<coordinator, stm_epoch>>
  BY DEF PiSynchronize, StmIdle
<1>3. x \in ToStm /\ x.kind = "LINK_SYNC" /\ x.epoch = token
  BY <1>1, LinkConstants DEF LinkFrame, ToStm, ClientTypeOK
<1> HIDE DEF x
<1>4. /\ token # stm_epoch
      /\ \A i \in 1 .. Len(to_stm) : to_stm[i].epoch # token
      /\ \A i \in 1 .. Len(to_pi) : to_pi[i].epoch # token
  <2>1. DOMAIN to_stm = 1 .. Len(to_stm) /\ DOMAIN to_pi = 1 .. Len(to_pi)
    BY <1>1 DEF RobotTypeOK
  <2>2. FreshToken(token)
    BY DEF PiSynchronize
  <2> QED BY <2>1, <2>2 DEF FreshToken, ToSet
<1>5. /\ to_stm' \in Seq(ToStm) /\ Len(to_stm') <= ChannelBound
      /\ Len(to_stm) \in Nat /\ Len(to_stm') = Len(to_stm) + 1
      /\ \A i \in 1 .. Len(to_stm') :
           \/ i \in 1 .. Len(to_stm) /\ to_stm'[i] = to_stm[i]
           \/ i = Len(to_stm') /\ to_stm'[i] = x
  BY <1>1, <1>2, <1>3, SendIndex
<1>6. ClientTypeOK' /\ ClientInv' /\ link_state' = "SyncPending"
  BY <1>1, <1>2, ClientSynchronizes DEF Synchronize
<1>7. LifecycleInv'
  BY <1>1, <1>2, QuietPreserves, NoActionType
<1>8. RobotTypeOK'
  BY <1>1, <1>2, <1>5, <1>6, <1>7 DEF RobotTypeOK, LifecycleInv
<1>9. OrderInv'
  <2>1. ASSUME NEW i \in 1 .. Len(to_stm'), NEW j \in 1 .. Len(to_stm'), i < j,
               to_stm'[i].kind = "LINK_SYNC"
        PROVE  to_stm'[j].kind = "LINK_SYNC"
    <3>1. i \in 1 .. Len(to_stm) /\ to_stm'[i] = to_stm[i]
      BY <1>5, <2>1
    <3> QED BY <1>3, <1>5, <2>1, <3>1 DEF RobotInv, OrderInv
  <2>2. ASSUME NEW i \in 1 .. Len(to_stm'), to_stm'[i].kind # "LINK_SYNC"
        PROVE  stm_epoch' \in {to_stm'[i].epoch, None}
    BY <1>2, <1>3, <1>5, <2>2 DEF RobotInv, OrderInv
  <2> QED BY <2>1, <2>2 DEF OrderInv
<1>10. PendingInv'
  <2>1. \A i \in 1 .. Len(to_stm') :
          to_stm'[i].epoch = token => i = Len(to_stm') /\ to_stm'[i].kind = "LINK_SYNC"
    BY <1>3, <1>4, <1>5
  <2> QED BY <1>2, <1>4, <2>1 DEF PendingInv
<1>11. StmInv'
  <2>1. stm_epoch # None => AnsweredInv'
    BY <1>2 DEF RobotInv, StmInv, AnsweredInv, Fresh, coordinator
  <2>2. stm_epoch # None => CommandsInv'
    BY <1>1, <1>2, <1>3, CommandsSent DEF RobotInv, StmInv
  <2> QED BY <1>2, <2>1, <2>2 DEF RobotInv, StmInv, coordinator
<1>12. PlainAnswers'
  BY <1>2 DEF RobotInv, PlainAnswers
<1>13. EpochInv' /\ AgreeInv' /\ ResponsesInv'
  BY <1>6, <1>10 DEF EpochInv, AgreeInv, ResponsesInv
<1> QED BY <1>6, <1>7, <1>8, <1>9, <1>11, <1>12, <1>13 DEF RobotInv

\* A frame of the epoch is sent while the client is synchronized.
LEMMA SendKeepsEpoch ==
  ASSUME RobotTypeOK, OrderInv, EpochInv, link_state = "Synchronized",
         UNCHANGED <<link_state, epoch, stm_epoch, to_pi>>,
         NEW x \in ToStm, PiSends(x), x.kind # "LINK_SYNC", x.epoch = epoch
  PROVE  OrderInv' /\ EpochInv'
<1>1. BarrierInv
  BY DEF EpochInv
<1>2. \A i \in 1 .. Len(to_stm') : to_stm'[i].epoch = epoch /\ to_stm'[i].kind # "LINK_SYNC"
  BY <1>1, SendIndex DEF BarrierInv
<1>3. OrderInv'
  BY <1>1, <1>2 DEF OrderInv, BarrierInv
<1>4. EpochInv'
  BY <1>1, <1>2 DEF EpochInv, BarrierInv
<1> QED BY <1>3, <1>4

\* A heartbeat or a velocity.
LEMMA HeartbeatVelocityKeeps ==
  ASSUME RobotInv, PiHeartbeat \/ PiVelocity
  PROVE  RobotInv'
<1>1. ClientTypeOK /\ ClientInv /\ RobotTypeOK /\ LifecycleInv
  BY DEF RobotInv, RobotTypeOK
<1>2. /\ action' = NoAction /\ UNCHANGED <<coordinator, stm_epoch, epoch, to_pi>>
  BY DEF PiHeartbeat, PiVelocity, StmIdle
<1>3. link_state = "Synchronized" /\ UNCHANGED link_state
  BY <1>1 DEF PiHeartbeat, PiVelocity, HeartbeatMade, ClientInv, client, clientLink
<1>4. epoch \in Tokens
  BY <1>1, <1>3 DEF RobotTypeOK, ClientInv
<1>5. PICK x \in ToStm : PiSends(x) /\ x.kind \in {"HEARTBEAT", "WHEEL_VELOCITY"} /\ x.epoch = epoch
  <2>1. CASE PiHeartbeat
    <3>1. LinkFrame("HEARTBEAT", link_sequence, epoch) \in ToStm
      BY <1>1, <1>4, LinkConstants DEF LinkFrame, ToStm, ClientTypeOK
    <3> QED BY <2>1, <3>1 DEF PiHeartbeat, LinkFrame
  <2>2. CASE PiVelocity
    <3>1. [kind |-> "WHEEL_VELOCITY", session |-> active_session_id, epoch |-> epoch] \in ToStm
      BY <1>1, <1>4 DEF ToStm, ClientTypeOK
    <3> QED BY <2>2, <3>1 DEF PiVelocity
  <2> QED BY <2>1, <2>2
<1>6. /\ ClientTypeOK' /\ ClientInv'
      /\ UNCHANGED <<next_sequence, session_state, active_session_id, transaction>>
      /\ Underway' = Underway
  BY <1>1, <1>2, ClientLinkStep, ClientIdle DEF PiHeartbeat, PiVelocity
<1>7. LifecycleInv'
  BY <1>1, <1>2, QuietPreserves, NoActionType
<1>8. RobotTypeOK'
  BY <1>1, <1>2, <1>5, <1>6, <1>7, SendIndex DEF RobotTypeOK, LifecycleInv
<1>9. OrderInv' /\ EpochInv'
  BY <1>1, <1>2, <1>3, <1>5, SendKeepsEpoch DEF RobotInv
<1>10. StmInv'
  <2>1. stm_epoch # None => AnsweredInv'
    BY <1>2 DEF RobotInv, StmInv, AnsweredInv, Fresh, coordinator
  <2>2. stm_epoch # None => CommandsInv'
    BY <1>1, <1>2, <1>5, CommandsSent DEF RobotInv, StmInv
  <2> QED BY <1>2, <2>1, <2>2 DEF RobotInv, StmInv, coordinator
<1>11. \A i \in 1 .. Len(to_stm') :
         IsCommand(i)' => i \in 1 .. Len(to_stm) /\ IsCommand(i) /\ to_stm'[i] = to_stm[i]
  BY <1>1, <1>5, SendIndex DEF IsCommand
<1>12. AgreeInv'
  <2>1. SUFFICES ASSUME stm_epoch = epoch
                 PROVE  /\ transaction = None => RestInv'
                        /\ transaction # None => UnderwayInv'
    BY <1>2, <1>3, <1>6 DEF AgreeInv
  <2>2. ASSUME transaction = None
        PROVE  RestInv'
    <3>1. RestInv
      BY <1>3, <2>1, <2>2 DEF RobotInv, AgreeInv
    <3>2. \A i \in 1 .. Len(to_stm') : IsCommand(i)' => AtFrontier(to_stm[i].transaction)'
      BY <1>2, <1>11, <3>1 DEF RestInv, AtFrontier, coordinator
    <3> QED BY <1>2, <1>6, <3>1, <3>2 DEF RestInv, NextAfter, coordinator
  <2>3. ASSUME transaction # None
        PROVE  UnderwayInv'
    <3>1. UnderwayInv
      BY <1>3, <2>1, <2>3 DEF RobotInv, AgreeInv
    <3>2. \A i \in 1 .. Len(to_pi') :
            /\ to_pi'[i].kind = "MOTION_RESPONSE"
            /\ to_pi'[i].answer.transaction.sequence = transaction'.sequence
            => terminal' = to_pi'[i].answer
      BY <1>2, <1>6, <3>1 DEF UnderwayInv, coordinator
    <3>3. CASE /\ Acceptable(Underway)
               /\ \A i \in 1 .. Len(to_stm) :
                    IsCommand(i) =>
                      AtFrontier(to_stm[i].transaction) \/ to_stm[i].transaction = Underway
      <4>1. Acceptable(Underway)'
        BY <1>2, <1>6, <3>3 DEF Acceptable, NextAfter, coordinator
      <4>2. \A i \in 1 .. Len(to_stm') :
              IsCommand(i)' =>
                AtFrontier(to_stm[i].transaction)' \/ to_stm'[i].transaction = Underway'
        BY <1>2, <1>6, <1>11, <3>3 DEF AtFrontier, coordinator
      <4> QED BY <3>2, <4>1, <4>2 DEF UnderwayInv
    <3>4. CASE /\ AtFrontier(Underway)
               /\ \A i \in 1 .. Len(to_stm) : IsCommand(i) => to_stm[i].transaction = Underway
      <4>1. AtFrontier(Underway)'
        BY <1>2, <1>6, <3>4 DEF AtFrontier, coordinator
      <4>2. \A i \in 1 .. Len(to_stm') : IsCommand(i)' => to_stm'[i].transaction = Underway'
        BY <1>6, <1>11, <3>4
      <4> QED BY <3>2, <4>1, <4>2 DEF UnderwayInv
    <3> QED BY <3>1, <3>3, <3>4 DEF UnderwayInv
  <2> QED BY <2>2, <2>3
<1>13. PlainAnswers' /\ ResponsesInv'
  BY <1>1, <1>2, <1>3, <1>6, ResponsesKept DEF RobotInv, PiLineShrinks
<1> QED BY <1>6, <1>7, <1>8, <1>9, <1>10, <1>12, <1>13 DEF RobotInv

\* A command is not both the newest and the next.
LEMMA Exclusive ==
  ASSUME NEW c \in Transactions, Acceptable(c)
  PROVE  ~AtFrontier(c)
<1>1. c.sequence \in Sequences
  BY DEF Transactions
<1>2. NextAfter(c.sequence) # c.sequence /\ c.sequence # None
  BY <1>1, NextIsNewer, LinkConstants
<1> QED BY <1>2 DEF Acceptable, AtFrontier

\* What is on the line when a command was just sent.
UnderwaySent ==
  \/ /\ Acceptable(Underway)'
     /\ \A i \in 1 .. Len(to_stm') :
          IsCommand(i)' => AtFrontier(to_stm[i].transaction)' \/ to_stm'[i].transaction = Underway'
     /\ \A i, j \in 1 .. Len(to_stm') :
          i < j /\ IsCommand(i)' /\ IsCommand(j)' /\ to_stm'[i].transaction = Underway'
            => to_stm'[j].transaction = Underway'
  \/ /\ AtFrontier(Underway)'
     /\ \A i \in 1 .. Len(to_stm') : IsCommand(i)' => to_stm'[i].transaction = Underway'

\* A command that is sent anew comes after repetitions of the newest, one that
\* is repeated after itself.
LEMMA CommandSent ==
  ASSUME RobotInv, PiCommand, stm_epoch = epoch
  PROVE  UnderwaySent
<1>1. ClientTypeOK /\ ClientInv /\ RobotTypeOK /\ CommandsInv /\ AnsweredInv /\ epoch # None
  <2>1. ClientTypeOK /\ ClientInv /\ RobotTypeOK
    BY DEF RobotInv, RobotTypeOK
  <2>2. link_state = "Synchronized" /\ epoch # None
    BY <2>1, ClientCommand DEF PiCommand, ClientInv
  <2> QED BY <2>1, <2>2 DEF RobotInv, StmInv
<1>2. /\ UNCHANGED <<coordinator, stm_epoch, epoch, to_pi>>
      /\ EndBegun \/ CommandRetried \/ \E id \in SessionIds : StartBegun(id)
      /\ PiSends(CommandFrame)
  BY DEF PiCommand, StmIdle
<1>3. link_state = "Synchronized" /\ transaction' \in ClientTransactions
  BY <1>1, <1>2, ClientCommand
<1>4. PICK u \in Transactions : u = Underway'
  BY <1>3, LinkConstants DEF ClientTransactions, Underway, Transactions, Commands,
     LifecycleCommands
<1>5. CommandFrame \in ToStm /\ CommandFrame.transaction = u
  BY <1>1, <1>4 DEF CommandFrame, ToStm, Underway, RobotTypeOK
<1>6. /\ Len(to_stm) \in Nat /\ Len(to_stm') = Len(to_stm) + 1
      /\ \A i \in 1 .. Len(to_stm') :
           \/ i \in 1 .. Len(to_stm) /\ to_stm'[i] = to_stm[i]
           \/ i = Len(to_stm') /\ to_stm'[i].transaction = u
  BY <1>1, <1>2, <1>5, SendIndex
<1>7. u.sequence = transaction'.sequence /\ u.command = transaction'.command
      /\ u.motion_session_id = transaction'.session
  BY <1>4 DEF Underway
<1>8. CASE transaction = None
  <2>1. RestInv
    BY <1>3, <1>8 DEF RobotInv, AgreeInv
  <2>2. /\ u.sequence = next_sequence
        /\ \/ session_state = "Inactive" /\ u.command = "START_SESSION"
           \/ /\ session_state = "Active" /\ u.command = "END_SESSION"
              /\ u.motion_session_id = active_session_id
    BY <1>1, <1>2, <1>7, <1>8, ClientCommand
  <2>3. Acceptable(u)
    BY <2>1, <2>2 DEF RestInv, Acceptable
  <2>4. Acceptable(Underway)'
    BY <1>2, <1>4, <2>3 DEF Acceptable, NextAfter, coordinator
  <2>5. ASSUME NEW i \in 1 .. Len(to_stm), IsCommand(i)
        PROVE  AtFrontier(to_stm[i].transaction) /\ to_stm[i].transaction # u
    <3>1. AtFrontier(to_stm[i].transaction)
      BY <2>1, <2>5 DEF RestInv
    <3>2. ~AtFrontier(u)
      BY <2>3, Exclusive
    <3> QED BY <3>1, <3>2
  <2>6. ASSUME NEW i \in 1 .. Len(to_stm'), IsCommand(i)'
        PROVE  \/ /\ AtFrontier(to_stm[i].transaction)' /\ to_stm'[i].transaction # u
                  /\ i \in 1 .. Len(to_stm)
               \/ to_stm'[i].transaction = u /\ i = Len(to_stm')
    <3>1. CASE i \in 1 .. Len(to_stm) /\ to_stm'[i] = to_stm[i]
      <4>1. AtFrontier(to_stm[i].transaction) /\ to_stm[i].transaction # u
        BY <2>5, <2>6, <3>1 DEF IsCommand
      <4> QED BY <1>2, <3>1, <4>1 DEF AtFrontier, coordinator
    <3> QED BY <1>6, <3>1
  <2>7. \A i, j \in 1 .. Len(to_stm') :
          i < j /\ IsCommand(i)' /\ IsCommand(j)' /\ to_stm'[i].transaction = Underway'
            => to_stm'[j].transaction = Underway'
    BY <1>4, <1>6, <2>6
  <2> QED BY <1>4, <2>4, <2>6, <2>7 DEF UnderwaySent
<1>9. CASE transaction # None
  <2>1. UnderwayInv
    BY <1>3, <1>9 DEF RobotInv, AgreeInv
  <2>2. u = Underway
    BY <1>1, <1>2, <1>4, <1>9, ClientCommand
  <2>3. CASE /\ Acceptable(Underway)
             /\ \A i \in 1 .. Len(to_stm) :
                  IsCommand(i) =>
                    AtFrontier(to_stm[i].transaction) \/ to_stm[i].transaction = Underway
    <3>1. Acceptable(Underway)'
      BY <1>2, <1>4, <2>2, <2>3 DEF Acceptable, NextAfter, coordinator
    <3>2. ASSUME NEW i \in 1 .. Len(to_stm'), IsCommand(i)'
          PROVE  AtFrontier(to_stm[i].transaction)' \/ to_stm'[i].transaction = Underway'
      <4>1. CASE i \in 1 .. Len(to_stm) /\ to_stm'[i] = to_stm[i]
        <5>1. AtFrontier(to_stm[i].transaction) \/ to_stm[i].transaction = u
          BY <2>2, <2>3, <3>2, <4>1 DEF IsCommand
        <5> QED BY <1>2, <1>4, <4>1, <5>1 DEF AtFrontier, coordinator
      <4> QED BY <1>4, <1>6, <4>1
    <3>3. ASSUME NEW i \in 1 .. Len(to_stm'), NEW j \in 1 .. Len(to_stm'), i < j,
                 IsCommand(i)', IsCommand(j)', to_stm'[i].transaction = u
          PROVE  to_stm'[j].transaction = u
      <4>1. i \in 1 .. Len(to_stm) /\ to_stm'[i] = to_stm[i] /\ IsCommand(i)
        BY <1>6, <3>3 DEF IsCommand
      <4>2. CASE j \in 1 .. Len(to_stm) /\ to_stm'[j] = to_stm[j]
        <5>1. IsCommand(j) /\ Acceptable(to_stm[i].transaction)
          BY <2>2, <2>3, <3>3, <4>1, <4>2 DEF IsCommand
        <5> QED BY <1>1, <3>3, <4>1, <4>2, <5>1 DEF CommandsInv
      <4> QED BY <1>6, <4>2
    <3> QED BY <1>4, <3>1, <3>2, <3>3 DEF UnderwaySent
  <2>4. CASE /\ AtFrontier(Underway)
             /\ \A i \in 1 .. Len(to_stm) : IsCommand(i) => to_stm[i].transaction = Underway
    <3>1. AtFrontier(Underway)'
      BY <1>2, <1>4, <2>2, <2>4 DEF AtFrontier, coordinator
    <3>2. \A i \in 1 .. Len(to_stm') : IsCommand(i)' => to_stm'[i].transaction = Underway'
      BY <1>4, <1>6, <2>2, <2>4 DEF IsCommand
    <3> QED BY <3>1, <3>2 DEF UnderwaySent
  <2> QED BY <2>1, <2>3, <2>4 DEF UnderwayInv
<1> QED BY <1>8, <1>9

\* No answer on the line has the number of a command that was not sent yet.
LEMMA NotAnsweredYet ==
  ASSUME RobotInv, link_state = "Synchronized", transaction = None,
         NEW i \in 1 .. Len(to_pi), IsResponse(i)
  PROVE  NextAfter(AnswerSequence(i)) = next_sequence /\ AnswerSequence(i) # next_sequence
<1>1. NextAfter(AnswerSequence(i)) = next_sequence
  BY DEF RobotInv, ResponsesInv
<1>2. to_pi[i] \in ToPi
  BY DEF RobotInv, RobotTypeOK
<1>3. AnswerSequence(i) \in Sequences
  BY <1>2, ToPiFields DEF IsResponse, AnswerSequence, Terminals, Transactions
<1> QED BY <1>1, <1>3, NextIsNewer

\* A command or its repetition.
LEMMA CommandKeeps ==
  ASSUME RobotInv, PiCommand
  PROVE  RobotInv'
<1>1. ClientTypeOK /\ ClientInv /\ RobotTypeOK /\ LifecycleInv
  BY DEF RobotInv, RobotTypeOK
<1>2. /\ action' = NoAction /\ UNCHANGED <<coordinator, stm_epoch, epoch, to_pi>>
      /\ EndBegun \/ CommandRetried \/ \E id \in SessionIds : StartBegun(id)
      /\ PiSends(CommandFrame)
  BY DEF PiCommand, StmIdle
<1>3. /\ ClientTypeOK' /\ ClientInv'
      /\ link_state = "Synchronized" /\ UNCHANGED link_state
      /\ transaction' \in ClientTransactions /\ transaction' # None
  BY <1>1, <1>2, ClientCommand
<1>4. epoch \in Tokens /\ epoch # None
  BY <1>1, <1>3 DEF RobotTypeOK, ClientInv
<1>5. CommandFrame \in ToStm /\ CommandFrame.kind # "LINK_SYNC" /\ CommandFrame.epoch = epoch
  BY <1>3, <1>4, LinkConstants DEF CommandFrame, ToStm, ClientTransactions, Transactions,
     Commands, LifecycleCommands
<1>6. LifecycleInv'
  BY <1>1, <1>2, QuietPreserves, NoActionType
<1>7. RobotTypeOK'
  BY <1>1, <1>2, <1>3, <1>5, <1>6, SendIndex DEF RobotTypeOK, LifecycleInv
<1>8. OrderInv' /\ EpochInv'
  BY <1>1, <1>2, <1>3, <1>5, SendKeepsEpoch DEF RobotInv
<1>9. stm_epoch = epoch => UnderwaySent
  BY CommandSent
<1>10. stm_epoch # None => stm_epoch = epoch
  BY <1>3 DEF RobotInv, EpochInv, BarrierInv
<1>11. StmInv'
  <2>1. stm_epoch # None => AnsweredInv'
    BY <1>2 DEF RobotInv, StmInv, AnsweredInv, Fresh, coordinator
  <2>2. ASSUME stm_epoch = epoch
        PROVE  CommandsInv'
    <3>0. PICK u \in Transactions : u = Underway'
      BY <1>3, LinkConstants DEF ClientTransactions, Underway, Transactions, Commands,
         LifecycleCommands
    <3>1. ASSUME NEW i \in 1 .. Len(to_stm'), IsCommand(i)'
          PROVE  (AtFrontier(to_stm[i].transaction) \/ Acceptable(to_stm[i].transaction))'
      <4>1. CASE to_stm'[i].transaction = Underway'
        <5>1. Acceptable(Underway)' \/ AtFrontier(Underway)'
          BY <1>9, <2>2 DEF UnderwaySent
        <5> QED BY <4>1, <5>1 DEF Acceptable, AtFrontier
      <4>2. CASE to_stm'[i].transaction # Underway'
        BY <1>9, <2>2, <3>1, <4>2 DEF UnderwaySent
      <4> QED BY <4>1, <4>2
    <3>2. ASSUME NEW i \in 1 .. Len(to_stm'), NEW j \in 1 .. Len(to_stm'), i < j,
                 IsCommand(i)', IsCommand(j)', Acceptable(to_stm[i].transaction)'
          PROVE  to_stm'[j].transaction = to_stm'[i].transaction
      <4>1. to_stm'[i].transaction \in Transactions
        <5>1. to_stm'[i] \in ToStm
          BY <1>7 DEF RobotTypeOK
        <5> QED BY <3>2, <5>1, ToStmFields DEF IsCommand
      <4>2. PICK c \in Transactions : c = to_stm'[i].transaction
        BY <4>1
      <4>3. Acceptable(c)
        BY <1>2, <3>2, <4>2 DEF Acceptable, NextAfter, coordinator
      <4>4. ~AtFrontier(c)
        BY <4>3, Exclusive
      <4>5. ~AtFrontier(to_stm[i].transaction)'
        BY <1>2, <4>2, <4>4 DEF AtFrontier, coordinator
      <4>6. to_stm'[i].transaction = Underway' /\ to_stm'[j].transaction = Underway'
        BY <1>9, <2>2, <3>2, <4>5 DEF UnderwaySent
      <4> QED BY <4>6
    <3> QED BY <3>1, <3>2 DEF CommandsInv
  <2> QED BY <1>2, <1>10, <2>1, <2>2 DEF RobotInv, StmInv, coordinator
<1>12. PlainAnswers'
  BY <1>2 DEF RobotInv, PlainAnswers
<1>13. CASE transaction = None
  <2>1. transaction'.sequence = next_sequence
    BY <1>1, <1>2, <1>13, ClientCommand
  <2>2. ASSUME NEW i \in 1 .. Len(to_pi'), IsResponse(i)'
        PROVE  /\ NextAfter(AnswerSequence(i))' = transaction'.sequence
               /\ AnswerSequence(i)' # transaction'.sequence
    <3>1. i \in 1 .. Len(to_pi) /\ IsResponse(i) /\ AnswerSequence(i)' = AnswerSequence(i)
      BY <1>2, <2>2 DEF IsResponse, AnswerSequence
    <3>2. NextAfter(AnswerSequence(i)) = next_sequence /\ AnswerSequence(i) # next_sequence
      BY <1>3, <1>13, <3>1, NotAnsweredYet
    <3> QED BY <2>1, <3>1, <3>2 DEF NextAfter
  <2>3. ResponsesInv'
    BY <1>3, <2>2 DEF ResponsesInv
  <2>4. \A i \in 1 .. Len(to_pi') :
          /\ to_pi'[i].kind = "MOTION_RESPONSE"
          /\ to_pi'[i].answer.transaction.sequence = transaction'.sequence
          => terminal' = to_pi'[i].answer
    BY <2>2 DEF IsResponse, AnswerSequence
  <2>5. AgreeInv'
    BY <1>2, <1>3, <1>9, <2>4 DEF AgreeInv, UnderwaySent, UnderwayInv
  <2> QED BY <1>3, <1>6, <1>7, <1>8, <1>11, <1>12, <2>3, <2>5 DEF RobotInv
<1>14. CASE transaction # None
  <2>1. transaction'.sequence = transaction.sequence /\ UNCHANGED next_sequence
    BY <1>1, <1>2, <1>14, ClientCommand
  <2>2. ResponsesInv'
    BY <1>1, <1>2, <1>3, <1>14, <2>1, ResponsesKept DEF RobotInv, PiLineShrinks
  <2>3. AgreeInv'
    <3>1. ASSUME stm_epoch = epoch
          PROVE  \A i \in 1 .. Len(to_pi') :
                   /\ to_pi'[i].kind = "MOTION_RESPONSE"
                   /\ to_pi'[i].answer.transaction.sequence = transaction'.sequence
                   => terminal' = to_pi'[i].answer
      BY <1>2, <1>3, <1>14, <2>1, <3>1 DEF RobotInv, AgreeInv, UnderwayInv, coordinator
    <3> QED BY <1>2, <1>3, <1>9, <3>1 DEF AgreeInv, UnderwaySent, UnderwayInv
  <2> QED BY <1>3, <1>6, <1>7, <1>8, <1>11, <1>12, <2>2, <2>3 DEF RobotInv
<1> QED BY <1>13, <1>14

(***************************************************************************)
(* Steps of the STM32                                                      *)
(***************************************************************************)

\* The STM32 sent heartbeats, ACKs or one answer, with the history of an epoch.
Answering(token, answer) ==
  /\ to_pi' \in Seq(ToPi) /\ Len(to_pi') \in Nat /\ Len(to_pi') <= ChannelBound
  /\ Len(to_pi) \in Nat /\ Len(to_pi) <= Len(to_pi')
  /\ \A i \in 1 .. Len(to_pi') :
       \/ i \in 1 .. Len(to_pi) /\ to_pi'[i] = to_pi[i]
       \/ /\ i > Len(to_pi) /\ to_pi'[i].epoch = token
          /\ to_pi'[i].kind # "LINK_SYNC_OK"
          /\ to_pi'[i].kind = "MOTION_RESPONSE" => answer # None /\ to_pi'[i].answer = answer

\* Frames that are sent come after those on the line.
LEMMA SendsIndex ==
  ASSUME RobotTypeOK, NEW frames \in Seq(ToPi), StmSends(frames)
  PROVE  /\ to_pi' \in Seq(ToPi) /\ Len(to_pi') \in Nat /\ Len(to_pi') <= ChannelBound
         /\ Len(to_pi) \in Nat /\ Len(frames) \in Nat /\ Len(to_pi') = Len(to_pi) + Len(frames)
         /\ \A i \in 1 .. Len(to_pi') :
              \/ i \in 1 .. Len(to_pi) /\ to_pi'[i] = to_pi[i]
              \/ /\ i > Len(to_pi) /\ i - Len(to_pi) \in 1 .. Len(frames)
                 /\ to_pi'[i] = frames[i - Len(to_pi)]
<1>1. /\ to_pi \in Seq(ToPi) /\ to_pi' = to_pi \o frames
      /\ Len(to_pi) + Len(frames) <= ChannelBound
  BY DEF RobotTypeOK, StmSends
<1>2. /\ to_pi' \in Seq(ToPi) /\ Len(to_pi) \in Nat /\ Len(frames) \in Nat
      /\ Len(to_pi') = Len(to_pi) + Len(frames)
      /\ \A i \in 1 .. Len(to_pi) : to_pi'[i] = to_pi[i]
      /\ \A i \in Len(to_pi) + 1 .. Len(to_pi) + Len(frames) :
           to_pi'[i] = frames[i - Len(to_pi)]
  BY <1>1, ConcatOf
<1>3. ASSUME NEW i \in 1 .. Len(to_pi')
      PROVE  \/ i \in 1 .. Len(to_pi) /\ to_pi'[i] = to_pi[i]
             \/ /\ i > Len(to_pi) /\ i - Len(to_pi) \in 1 .. Len(frames)
                /\ to_pi'[i] = frames[i - Len(to_pi)]
  BY <1>2
<1> QED BY <1>1, <1>2, <1>3

\* The frames of an action: an ACK, an answer, both or none.
LEMMA ActionFramesOf ==
  ASSUME action' \in Actions, NEW token \in Tokens
  PROVE  /\ ActionFrames(token) \in Seq(ToPi)
         /\ \A k \in 1 .. Len(ActionFrames(token)) :
              /\ ActionFrames(token)[k].epoch = token
              /\ ActionFrames(token)[k].kind # "LINK_SYNC_OK"
              /\ ActionFrames(token)[k].kind = "MOTION_RESPONSE" =>
                   /\ action'.response # None
                   /\ ActionFrames(token)[k].answer = action'.response
<1> DEFINE a == LinkFrame("MOTION_ACK", action'.ack.sequence, token)
           r == [kind |-> "MOTION_RESPONSE", answer |-> action'.response, epoch |-> token]
<1>1. action'.ack \in Transactions \cup {None} /\ action'.response \in Terminals \cup {None}
  BY DEF Actions
<1>2. action'.ack # None =>
        a \in ToPi /\ a.epoch = token /\ a.kind = "MOTION_ACK"
  BY <1>1 DEF LinkFrame, ToPi, Transactions
<1>3. action'.response # None =>
        /\ r \in ToPi /\ r.epoch = token /\ r.kind = "MOTION_RESPONSE"
        /\ r.answer = action'.response
  BY <1>1 DEF ToPi
<1>4. ActionFrames(token) =
        (IF action'.ack = None THEN <<>> ELSE <<a>>)
        \o (IF action'.response = None THEN <<>> ELSE <<r>>)
  BY DEF ActionFrames
<1> HIDE DEF a, r
<1>5. CASE action'.ack = None /\ action'.response = None
  <2>1. ActionFrames(token) = <<>>
    BY <1>4, <1>5
  <2> QED BY <2>1
<1>6. CASE action'.ack # None /\ action'.response = None
  <2>1. ActionFrames(token) = <<a>>
    BY <1>4, <1>6
  <2>2. <<a>> \in Seq(ToPi) /\ Len(<<a>>) = 1 /\ <<a>>[1] = a
    BY <1>2, <1>6
  <2> QED BY <1>2, <1>6, <2>1, <2>2
<1>7. CASE action'.ack = None /\ action'.response # None
  <2>1. ActionFrames(token) = <<r>>
    BY <1>4, <1>7
  <2>2. <<r>> \in Seq(ToPi) /\ Len(<<r>>) = 1 /\ <<r>>[1] = r
    BY <1>3, <1>7
  <2> QED BY <1>3, <1>7, <2>1, <2>2
<1>8. CASE action'.ack # None /\ action'.response # None
  <2>1. ActionFrames(token) = <<a>> \o <<r>>
    BY <1>4, <1>8
  <2>2. /\ <<a>> \in Seq(ToPi) /\ Len(<<a>>) = 1 /\ <<a>>[1] = a
        /\ <<r>> \in Seq(ToPi) /\ Len(<<r>>) = 1 /\ <<r>>[1] = r
    BY <1>2, <1>3, <1>8
  <2>3. /\ <<a>> \o <<r>> \in Seq(ToPi) /\ Len(<<a>> \o <<r>>) = 2
        /\ (<<a>> \o <<r>>)[1] = a /\ (<<a>> \o <<r>>)[2] = r
    BY <2>2, ConcatOf
  <2> QED BY <1>2, <1>3, <1>8, <2>1, <2>3
<1> QED BY <1>5, <1>6, <1>7, <1>8

\* The action the coordinator returned is sent.
LEMMA SendsAction ==
  ASSUME RobotTypeOK, action' \in Actions, NEW token \in Tokens, StmSends(ActionFrames(token))
  PROVE  Answering(token, action'.response)
<1> DEFINE frames == ActionFrames(token)
<1>1. /\ frames \in Seq(ToPi)
      /\ \A k \in 1 .. Len(frames) :
           /\ frames[k].epoch = token /\ frames[k].kind # "LINK_SYNC_OK"
           /\ frames[k].kind = "MOTION_RESPONSE" =>
                action'.response # None /\ frames[k].answer = action'.response
  BY ActionFramesOf
<1>2. StmSends(frames)
  OBVIOUS
<1> HIDE DEF frames
<1>3. /\ to_pi' \in Seq(ToPi) /\ Len(to_pi') \in Nat /\ Len(to_pi') <= ChannelBound
      /\ Len(to_pi) \in Nat /\ Len(frames) \in Nat /\ Len(to_pi') = Len(to_pi) + Len(frames)
      /\ \A i \in 1 .. Len(to_pi') :
           \/ i \in 1 .. Len(to_pi) /\ to_pi'[i] = to_pi[i]
           \/ /\ i > Len(to_pi) /\ i - Len(to_pi) \in 1 .. Len(frames)
              /\ to_pi'[i] = frames[i - Len(to_pi)]
  BY <1>1, <1>2, SendsIndex
<1> QED BY <1>1, <1>3 DEF Answering

\* One frame is sent.
LEMMA SendsOne ==
  ASSUME RobotTypeOK, NEW f \in ToPi, StmSends(<<f>>), f.kind # "LINK_SYNC_OK",
         NEW answer, f.kind = "MOTION_RESPONSE" => answer # None /\ f.answer = answer
  PROVE  Answering(f.epoch, answer)
<1>1. <<f>> \in Seq(ToPi) /\ Len(<<f>>) = 1 /\ <<f>>[1] = f
  OBVIOUS
<1>2. /\ to_pi' \in Seq(ToPi) /\ Len(to_pi') \in Nat /\ Len(to_pi') <= ChannelBound
      /\ Len(to_pi) \in Nat /\ Len(to_pi') = Len(to_pi) + 1
      /\ \A i \in 1 .. Len(to_pi') :
           \/ i \in 1 .. Len(to_pi) /\ to_pi'[i] = to_pi[i]
           \/ /\ i > Len(to_pi) /\ i - Len(to_pi) \in 1 .. 1
              /\ to_pi'[i] = <<f>>[i - Len(to_pi)]
  BY <1>1, SendsIndex
<1>3. \A i \in 1 .. Len(to_pi') :
        \/ i \in 1 .. Len(to_pi) /\ to_pi'[i] = to_pi[i]
        \/ i > Len(to_pi) /\ to_pi'[i] = f
  BY <1>1, <1>2
<1> QED BY <1>2, <1>3 DEF Answering

\* What the STM32 sends while a LINK_SYNC is awaited is of an older epoch, and
\* what it sends afterwards of the new one.
LEMMA SentEpoch ==
  ASSUME RobotTypeOK, ClientInv, EpochInv, StmLineShrinks,
         NEW token, NEW answer, Answering(token, answer),
         UNCHANGED <<link_state, epoch>>, stm_epoch' \in {stm_epoch, None},
         link_state = "SyncPending" =>
           token # epoch /\ (to_stm # <<>> \/ stm_epoch \notin {epoch, None}),
         link_state = "Synchronized" => token = epoch
  PROVE  EpochInv'
<1>1. PICK d \in {0, 1} :
        /\ Len(to_stm) = Len(to_stm') + d
        /\ \A i \in 1 .. Len(to_stm') :
             i + d \in 1 .. Len(to_stm) /\ to_stm'[i] = to_stm[i + d]
  BY StmLineIndex
<1>2. Len(to_stm) \in Nat /\ Len(to_stm') \in Nat
  BY StmLineIndex
<1>3. \A i \in 1 .. Len(to_pi') :
        (i \in 1 .. Len(to_pi) /\ to_pi'[i] = to_pi[i]) \/ to_pi'[i].epoch = token
  BY DEF Answering
<1>4. ASSUME link_state = "SyncPending"
      PROVE  PendingInv'
  <2>1. /\ PendingInv /\ epoch # None /\ token # epoch
        /\ to_stm # <<>> \/ stm_epoch \notin {epoch, None}
    BY <1>4 DEF EpochInv, ClientInv
  <2>2. ASSUME NEW i \in 1 .. Len(to_stm'), to_stm'[i].epoch = epoch
        PROVE  i = Len(to_stm') /\ to_stm'[i].kind = "LINK_SYNC"
    BY <1>1, <1>2, <2>1, <2>2 DEF PendingInv
  <2>3. stm_epoch' # epoch
    BY <2>1 DEF PendingInv
  <2>4. \A i \in 1 .. Len(to_pi) : to_pi[i].epoch # epoch
    BY <2>1 DEF PendingInv
  <2>5. \A i \in 1 .. Len(to_pi') : to_pi'[i].epoch # epoch
    BY <1>3, <2>1, <2>4
  <2> QED BY <2>2, <2>3, <2>5 DEF PendingInv
<1>5. ASSUME link_state = "Synchronized"
      PROVE  BarrierInv'
  <2>1. BarrierInv /\ token = epoch
    BY <1>5 DEF EpochInv
  <2> QED BY <1>1, <1>3, <2>1 DEF BarrierInv
<1> QED BY <1>4, <1>5 DEF EpochInv

\* An answer may follow those on the line to the Raspberry Pi.
AnswerFits(answer) ==
  link_state = "Synchronized" =>
    /\ transaction = None => NextAfter(answer.transaction.sequence) = next_sequence
    /\ transaction # None =>
         \/ answer.transaction.sequence = transaction.sequence
         \/ /\ NextAfter(answer.transaction.sequence) = transaction.sequence
            /\ \A i \in 1 .. Len(to_pi) : IsResponse(i) => AnswerSequence(i) # transaction.sequence

\* The answers on the line stay plain and in order.
LEMMA SentResponses ==
  ASSUME RobotTypeOK, ResponsesInv, PlainAnswers,
         NEW token, NEW answer, Answering(token, answer),
         UNCHANGED <<link_state, next_sequence, transaction>>,
         answer # None => AnswerFits(answer) /\ answer.result \in {"OK", "STOP_FAILED"}
  PROVE  PlainAnswers' /\ ResponsesInv'
<1>1. DOMAIN to_pi = 1 .. Len(to_pi) /\ DOMAIN to_pi' = 1 .. Len(to_pi')
  BY DEF RobotTypeOK, Answering
<1>2. PlainAnswers'
  BY <1>1 DEF PlainAnswers, Answering
<1>3. ASSUME NEW i \in 1 .. Len(to_pi'), IsResponse(i)'
      PROVE  \/ /\ i \in 1 .. Len(to_pi) /\ IsResponse(i)
                /\ AnswerSequence(i)' = AnswerSequence(i)
             \/ /\ i > Len(to_pi) /\ answer # None
                /\ AnswerSequence(i)' = answer.transaction.sequence
  BY <1>3 DEF Answering, IsResponse, AnswerSequence
<1>4. SUFFICES ASSUME link_state = "Synchronized" PROVE ResponsesInv'
  BY <1>2 DEF ResponsesInv
<1>5. Len(to_pi) \in Nat
  BY DEF Answering
<1>6. CASE transaction = None
  <2>1. ASSUME NEW i \in 1 .. Len(to_pi'), IsResponse(i)'
        PROVE  NextAfter(AnswerSequence(i))' = next_sequence'
    <3>1. PICK s : s = AnswerSequence(i)'
      OBVIOUS
    <3>2. NextAfter(s) = next_sequence
      BY <1>3, <1>4, <1>6, <2>1, <3>1 DEF ResponsesInv, AnswerFits
    <3> QED BY <3>1, <3>2 DEF NextAfter
  <2> QED BY <1>6, <2>1 DEF ResponsesInv
<1>7. CASE transaction # None
  <2>1. ASSUME NEW i \in 1 .. Len(to_pi'), IsResponse(i)'
        PROVE  \/ AnswerSequence(i)' = transaction'.sequence
               \/ NextAfter(AnswerSequence(i))' = transaction'.sequence
    <3>1. PICK s : s = AnswerSequence(i)'
      OBVIOUS
    <3>2. s = transaction.sequence \/ NextAfter(s) = transaction.sequence
      BY <1>3, <1>4, <1>7, <2>1, <3>1 DEF ResponsesInv, AnswerFits
    <3> QED BY <3>1, <3>2 DEF NextAfter
  <2>2. ASSUME NEW i \in 1 .. Len(to_pi'), NEW j \in 1 .. Len(to_pi'), i < j,
               IsResponse(i)', IsResponse(j)', AnswerSequence(i)' = transaction'.sequence
        PROVE  AnswerSequence(j)' = transaction'.sequence
    <3>1. CASE j \in 1 .. Len(to_pi)
      <4>1. /\ i \in 1 .. Len(to_pi) /\ IsResponse(i) /\ AnswerSequence(i)' = AnswerSequence(i)
            /\ IsResponse(j) /\ AnswerSequence(j)' = AnswerSequence(j)
        BY <1>3, <1>5, <2>2, <3>1
      <4> QED BY <1>4, <1>7, <2>2, <3>1, <4>1 DEF ResponsesInv
    <3>2. CASE j \notin 1 .. Len(to_pi)
      <4>1. answer # None /\ AnswerSequence(j)' = answer.transaction.sequence
        BY <1>3, <2>2, <3>2
      <4>2. AnswerFits(answer)
        BY <4>1
      <4>3. CASE i \in 1 .. Len(to_pi)
        <5>1. IsResponse(i) /\ AnswerSequence(i) = transaction.sequence
          BY <1>3, <1>5, <2>2, <4>3
        <5> QED BY <1>4, <1>7, <4>1, <4>2, <4>3, <5>1 DEF AnswerFits
      <4>4. CASE i \notin 1 .. Len(to_pi)
        BY <1>3, <2>2, <4>1, <4>4
      <4> QED BY <4>3, <4>4
    <3> QED BY <3>1, <3>2
  <2> QED BY <1>7, <2>1, <2>2 DEF ResponsesInv
<1> QED BY <1>6, <1>7

\* The frame the STM32 takes.
LEMMA TakenFrame ==
  ASSUME RobotInv, NEW kind, StmTakes(kind)
  PROVE  /\ to_stm # <<>> /\ StmLineShrinks /\ UNCHANGED <<client, epoch>>
         /\ Head(to_stm) \in ToStm /\ Head(to_stm).kind = kind
         /\ 1 \in 1 .. Len(to_stm) /\ to_stm[1] = Head(to_stm)
         /\ Head(to_stm).epoch \in Tokens
         /\ kind # "LINK_SYNC" =>
              /\ stm_epoch \in {Head(to_stm).epoch, None}
              /\ link_state = "SyncPending" => Head(to_stm).epoch # epoch
              /\ link_state = "Synchronized" => Head(to_stm).epoch = epoch
<1>1. to_stm # <<>> /\ StmLineShrinks /\ UNCHANGED <<client, epoch>> /\ Head(to_stm).kind = kind
  BY DEF StmTakes, StmLineShrinks, PiIdle
<1>2. Head(to_stm) \in ToStm /\ 1 \in 1 .. Len(to_stm) /\ to_stm[1] = Head(to_stm)
  BY <1>1, TailOf DEF RobotInv, RobotTypeOK
<1>3. Head(to_stm).epoch \in Tokens
  BY <1>2, ToStmFields
<1>4. kind # "LINK_SYNC" =>
        /\ stm_epoch \in {Head(to_stm).epoch, None}
        /\ link_state = "SyncPending" => Head(to_stm).epoch # epoch
        /\ link_state = "Synchronized" => Head(to_stm).epoch = epoch
  BY <1>1, <1>2 DEF RobotInv, OrderInv, EpochInv, PendingInv, BarrierInv
<1> QED BY <1>1, <1>2, <1>3, <1>4

\* A heartbeat is answered.
LEMMA HeartbeatAnswerKeeps ==
  ASSUME RobotInv, StmHeartbeat
  PROVE  RobotInv'
<1>1. ClientTypeOK /\ ClientInv /\ RobotTypeOK /\ LifecycleInv
  BY DEF RobotInv, RobotTypeOK
<1>2. StmTakes("HEARTBEAT") /\ action' = NoAction /\ UNCHANGED <<coordinator, stm_epoch>>
  BY DEF StmHeartbeat
<1>3. /\ to_stm # <<>> /\ StmLineShrinks /\ UNCHANGED <<client, epoch>>
      /\ Head(to_stm) \in ToStm /\ Head(to_stm).kind = "HEARTBEAT"
      /\ Head(to_stm).epoch \in Tokens
      /\ link_state = "SyncPending" => Head(to_stm).epoch # epoch
      /\ link_state = "Synchronized" => Head(to_stm).epoch = epoch
  BY <1>2, TakenFrame
<1>4. PICK kind \in {"HEARTBEAT", "HEARTBEAT_UNSYNCHRONIZED"} :
        StmSends(<<LinkFrame(kind, Head(to_stm).sequence, Head(to_stm).epoch)>>)
  BY DEF StmHeartbeat
<1>5. PICK f : f = LinkFrame(kind, Head(to_stm).sequence, Head(to_stm).epoch)
  OBVIOUS
<1>6. f \in ToPi /\ f.kind = kind /\ f.epoch = Head(to_stm).epoch /\ StmSends(<<f>>)
  BY <1>3, <1>4, <1>5, ToStmFields DEF LinkFrame, ToPi
<1>7. Answering(Head(to_stm).epoch, None)
  <2>1. f.kind # "LINK_SYNC_OK" /\ f.kind # "MOTION_RESPONSE"
    BY <1>6
  <2> QED BY <1>1, <1>6, <2>1, SendsOne
<1>8. /\ ClientTypeOK' /\ ClientInv'
      /\ UNCHANGED <<link_state, epoch, next_sequence, session_state, active_session_id>>
      /\ transaction' = transaction /\ Underway' = Underway
  BY <1>1, <1>3, ClientIdle
<1>9. LifecycleInv'
  BY <1>1, <1>2, QuietPreserves, NoActionType
<1>10. RobotTypeOK'
  BY <1>1, <1>2, <1>3, <1>7, <1>8, <1>9, StmLineIndex DEF RobotTypeOK, LifecycleInv, Answering
<1>11. OrderInv' /\ StmInv'
  BY <1>1, <1>2, <1>3, OrderKept, StmKept DEF RobotInv
<1>12. EpochInv'
  BY <1>1, <1>2, <1>3, <1>7, <1>8, SentEpoch DEF RobotInv
<1>13. PlainAnswers' /\ ResponsesInv'
  BY <1>1, <1>7, <1>8, SentResponses DEF RobotInv
<1>14. AgreeInv'
  <2>1. \A i \in 1 .. Len(to_pi') :
          to_pi'[i].kind = "MOTION_RESPONSE" => \E j \in 1 .. Len(to_pi) : to_pi'[i] = to_pi[j]
    BY <1>7 DEF Answering
  <2> QED BY <1>1, <1>2, <1>3, <1>8, <2>1, AgreeKept DEF RobotInv
<1> QED BY <1>8, <1>9, <1>10, <1>11, <1>12, <1>13, <1>14 DEF RobotInv

\* The STM32 loses its link or restarts.
LEMMA UnsynchronizeKeeps ==
  ASSUME RobotInv, StmLinkLost \/ StmRestart
  PROVE  RobotInv'
<1>1. ClientTypeOK /\ ClientInv /\ RobotTypeOK /\ LifecycleInv
  BY DEF RobotInv, RobotTypeOK
<1>2. /\ stm_epoch' = None /\ UNCHANGED <<client, epoch, line>> /\ active_operation_id' = 0
  BY DEF StmLinkLost, StmRestart, PiIdle, Reset, reset
<1>3. LifecycleInv'
  <2>1. CASE StmLinkLost
    BY <1>1, <2>1, ResetPreserves DEF StmLinkLost
  <2>2. CASE StmRestart
    <3>1. 0 \in OperationIds
      BY OperationAssumption DEF OperationIds
    <3> QED BY <1>1, <2>2, <3>1, NoActionType, SessionAssumption
            DEF StmRestart, LifecycleInv, receiver_reset, TypeOK, ReceiverTypeOK, States,
                OperationOwnership, FrontierExplained
  <2> QED BY <2>1, <2>2
<1>4. /\ ClientTypeOK' /\ ClientInv'
      /\ UNCHANGED <<link_state, epoch, next_sequence, session_state, active_session_id>>
      /\ transaction' = transaction /\ Underway' = Underway
  BY <1>1, <1>2, ClientIdle
<1>5. StmLineShrinks /\ PiLineShrinks
  BY <1>2 DEF StmLineShrinks, PiLineShrinks, line
<1>6. RobotTypeOK'
  BY <1>1, <1>2, <1>3, <1>4, <1>5, StmLineIndex, PiLineIndex DEF RobotTypeOK, LifecycleInv
<1>7. OrderInv' /\ EpochInv'
  BY <1>1, <1>2, <1>4, <1>5, OrderKept, EpochKept DEF RobotInv
<1>8. StmInv'
  BY <1>2 DEF StmInv
<1>9. AgreeInv'
  <2>1. link_state = "Synchronized" => epoch # None
    BY <1>1 DEF ClientInv
  <2> QED BY <1>2, <1>4, <2>1 DEF AgreeInv
<1>10. PlainAnswers' /\ ResponsesInv'
  BY <1>1, <1>4, <1>5, ResponsesKept DEF RobotInv
<1> QED BY <1>3, <1>4, <1>6, <1>7, <1>8, <1>9, <1>10 DEF RobotInv

\* LINK_SYNC begins an epoch: what is left on the line to the STM32 are other
\* LINK_SYNCs, and if it is the one the client waits for, nothing is left.
LEMMA LinkSyncKeeps ==
  ASSUME RobotInv, StmLinkSync
  PROVE  RobotInv'
<1>1. ClientTypeOK /\ ClientInv /\ RobotTypeOK /\ LifecycleInv
  BY DEF RobotInv, RobotTypeOK
<1>2. /\ StmTakes("LINK_SYNC") /\ Reset /\ stm_epoch' = Head(to_stm).epoch
      /\ StmSends(<<LinkFrame("LINK_SYNC_OK", Head(to_stm).sequence, Head(to_stm).epoch)>>)
  BY DEF StmLinkSync
<1>3. /\ to_stm # <<>> /\ StmLineShrinks /\ UNCHANGED <<client, epoch>>
      /\ Head(to_stm) \in ToStm /\ Head(to_stm).kind = "LINK_SYNC"
      /\ 1 \in 1 .. Len(to_stm) /\ to_stm[1] = Head(to_stm) /\ Head(to_stm).epoch \in Tokens
  BY <1>2, TakenFrame
<1>4. /\ Len(to_stm) \in Nat \ {0} /\ to_stm' \in Seq(ToStm) /\ Len(to_stm') = Len(to_stm) - 1
      /\ \A i \in 1 .. Len(to_stm) - 1 : to_stm'[i] = to_stm[i + 1]
  BY <1>1, <1>2, TailOf DEF RobotTypeOK, StmTakes
<1>5. PICK f : f = LinkFrame("LINK_SYNC_OK", Head(to_stm).sequence, Head(to_stm).epoch)
  OBVIOUS
<1>6. f \in ToPi /\ f.kind = "LINK_SYNC_OK" /\ f.epoch = Head(to_stm).epoch /\ StmSends(<<f>>)
  BY <1>2, <1>3, <1>5, ToStmFields DEF LinkFrame, ToPi
<1>7. /\ to_pi' \in Seq(ToPi) /\ Len(to_pi') <= ChannelBound
      /\ Len(to_pi) \in Nat /\ Len(to_pi') = Len(to_pi) + 1
      /\ \A i \in 1 .. Len(to_pi') :
           \/ i \in 1 .. Len(to_pi) /\ to_pi'[i] = to_pi[i]
           \/ i = Len(to_pi') /\ to_pi'[i] = f
  <2>1. <<f>> \in Seq(ToPi) /\ Len(<<f>>) = 1 /\ <<f>>[1] = f
    BY <1>6
  <2>2. /\ to_pi' \in Seq(ToPi) /\ Len(to_pi') <= ChannelBound
        /\ Len(to_pi) \in Nat /\ Len(to_pi') = Len(to_pi) + 1
        /\ \A i \in 1 .. Len(to_pi') :
             \/ i \in 1 .. Len(to_pi) /\ to_pi'[i] = to_pi[i]
             \/ /\ i > Len(to_pi) /\ i - Len(to_pi) \in 1 .. 1
                /\ to_pi'[i] = <<f>>[i - Len(to_pi)]
    BY <1>1, <1>6, <2>1, SendsIndex
  <2> QED BY <2>1, <2>2
<1>8. /\ ClientTypeOK' /\ ClientInv'
      /\ UNCHANGED <<link_state, epoch, next_sequence, session_state, active_session_id>>
  BY <1>1, <1>3, ClientIdle
<1>9. LifecycleInv'
  BY <1>1, <1>2, ResetPreserves
<1>10. RobotTypeOK'
  BY <1>1, <1>2, <1>3, <1>7, <1>8, <1>9, StmLineIndex DEF RobotTypeOK, LifecycleInv
<1>11. \A i \in 1 .. Len(to_stm') : to_stm'[i].kind = "LINK_SYNC"
  <2>1. ASSUME NEW i \in 1 .. Len(to_stm')
        PROVE  to_stm'[i].kind = "LINK_SYNC"
    <3>1. i + 1 \in 1 .. Len(to_stm) /\ 1 < i + 1 /\ to_stm'[i] = to_stm[i + 1]
      BY <1>4
    <3> QED BY <1>3, <3>1 DEF RobotInv, OrderInv
  <2> QED BY <2>1
<1>12. OrderInv'
  BY <1>11 DEF OrderInv
<1>13. link_state # "Synchronized"
  BY <1>3 DEF RobotInv, EpochInv, BarrierInv
<1>14. Fresh'
  BY <1>2 DEF Fresh, Reset, reset, receiver_reset
<1>15. ASSUME link_state = "SyncPending"
       PROVE  PendingInv'
  <2>1. PendingInv
    BY <1>15 DEF RobotInv, EpochInv
  <2>2. ASSUME NEW i \in 1 .. Len(to_stm'), to_stm'[i].epoch = epoch
        PROVE  i = Len(to_stm') /\ to_stm'[i].kind = "LINK_SYNC"
    BY <1>4, <2>1, <2>2 DEF PendingInv
  <2>3. ASSUME stm_epoch' = epoch
        PROVE  to_stm' = <<>>
    <3>1. 1 = Len(to_stm)
      BY <1>2, <1>3, <2>1, <2>3 DEF PendingInv
    <3>2. to_stm' \in Seq(ToStm) /\ Len(to_stm') = Len(to_stm) - 1
      BY <1>4
    <3>3. Len(to_stm') = 0
      BY <3>1, <3>2
    <3> QED BY <3>2, <3>3, EmptyLine
  <2>4. \A i \in 1 .. Len(to_pi) : to_pi[i].epoch # epoch
    BY <1>3, <2>1 DEF PendingInv
  <2>5. ASSUME NEW i \in 1 .. Len(to_pi'), to_pi'[i].epoch = epoch
        PROVE  /\ to_pi'[i].kind = "LINK_SYNC_OK"
               /\ to_stm' = <<>> /\ stm_epoch' \in {epoch, None}
               /\ \A j \in i .. Len(to_pi') : to_pi'[j].epoch = epoch
    <3>1. i = Len(to_pi') /\ to_pi'[i] = f
      BY <1>7, <2>4, <2>5
    <3>2. stm_epoch' = epoch
      BY <1>2, <1>6, <2>5, <3>1
    <3>3. \A j \in i .. Len(to_pi') : j = i
      BY <1>7, <3>1
    <3>4. \A j \in i .. Len(to_pi') : to_pi'[j].epoch = epoch
      BY <2>5, <3>3
    <3> QED BY <1>6, <2>3, <3>1, <3>2, <3>4
  <2> QED BY <1>8, <1>14, <2>2, <2>3, <2>5 DEF PendingInv
<1>16. EpochInv' /\ AgreeInv' /\ ResponsesInv'
  BY <1>8, <1>13, <1>15 DEF EpochInv, AgreeInv, ResponsesInv
<1>17. StmInv'
  <2>1. AnsweredInv'
    BY <1>14 DEF AnsweredInv, Fresh
  <2>2. CommandsInv'
    BY <1>11 DEF CommandsInv, IsCommand
  <2>3. stm_epoch' # None
    BY <1>2, <1>3, LinkConstants
  <2> QED BY <2>1, <2>2, <2>3 DEF StmInv
<1>18. PlainAnswers'
  <2>1. DOMAIN to_pi = 1 .. Len(to_pi) /\ DOMAIN to_pi' = 1 .. Len(to_pi')
    BY <1>1, <1>7 DEF RobotTypeOK
  <2> QED BY <1>6, <1>7, <2>1 DEF RobotInv, PlainAnswers
<1> QED BY <1>8, <1>9, <1>10, <1>12, <1>16, <1>17, <1>18 DEF RobotInv

\* The answer the STM32 holds is to the command under way, or to the one before.
LEMMA TerminalFits ==
  ASSUME RobotInv, stm_epoch # None, terminal # None
  PROVE  AnswerFits(terminal) /\ terminal.result \in {"OK", "STOP_FAILED"}
<1>1. AnsweredInv /\ LifecycleInv /\ ClientInv
  BY DEF RobotInv, StmInv
<1>2. terminal.transaction.sequence = latest_sequence
  BY <1>1 DEF LifecycleInv, FrontierExplained, AnsweredFrontier
<1>3. latest_sequence \in Sequences
  <2>1. terminal \in Terminals
    BY <1>1 DEF LifecycleInv, TypeOK, ReceiverTypeOK
  <2> QED BY <1>2, <2>1 DEF Terminals, Transactions
<1>4. latest_sequence # None /\ NextAfter(latest_sequence) # latest_sequence
  BY <1>3, NextIsNewer, LinkConstants
<1>5. ASSUME link_state = "Synchronized"
      PROVE  /\ transaction = None => NextAfter(latest_sequence) = next_sequence
             /\ transaction # None =>
                  \/ latest_sequence = transaction.sequence
                  \/ /\ NextAfter(latest_sequence) = transaction.sequence
                     /\ \A i \in 1 .. Len(to_pi) :
                          IsResponse(i) => AnswerSequence(i) # transaction.sequence
  <2>1. stm_epoch = epoch
    BY <1>5 DEF RobotInv, EpochInv, BarrierInv
  <2>2. CASE transaction = None
    BY <1>4, <1>5, <2>1, <2>2 DEF RobotInv, AgreeInv, RestInv
  <2>3. CASE transaction # None
    <3>1. UnderwayInv
      BY <1>5, <2>1, <2>3 DEF RobotInv, AgreeInv
    <3>2. Underway.sequence = transaction.sequence
      BY DEF Underway
    <3>3. CASE AtFrontier(Underway)
      BY <2>3, <3>2, <3>3 DEF AtFrontier
    <3>4. CASE Acceptable(Underway)
      <4>1. NextAfter(latest_sequence) = transaction.sequence
        BY <1>4, <3>2, <3>4 DEF Acceptable
      <4>2. ASSUME NEW i \in 1 .. Len(to_pi), IsResponse(i)
            PROVE  AnswerSequence(i) # transaction.sequence
        BY <1>2, <1>4, <3>1, <4>1, <4>2 DEF UnderwayInv, IsResponse, AnswerSequence
      <4> QED BY <2>3, <4>1, <4>2
    <3> QED BY <3>1, <3>3, <3>4 DEF UnderwayInv
  <2> QED BY <2>2, <2>3
<1> QED BY <1>1, <1>2, <1>5 DEF AnswerFits, AnsweredInv

\* A repetition of the newest command is answered as before, or dropped.
LEMMA RetryAnswerKeeps ==
  ASSUME RobotInv, StmCommand, ~HandleNew(Head(to_stm).transaction)
  PROVE  RobotInv'
<1>1. ClientTypeOK /\ ClientInv /\ RobotTypeOK /\ LifecycleInv
  BY DEF RobotInv, RobotTypeOK
<1>2. /\ StmTakes("MOTION_COMMAND") /\ stm_epoch # None /\ UNCHANGED stm_epoch
      /\ handle_transaction(Head(to_stm).transaction)
      /\ StmSends(ActionFrames(Head(to_stm).epoch))
  BY DEF StmCommand, stm_synchronized
<1>3. /\ to_stm # <<>> /\ StmLineShrinks /\ UNCHANGED <<client, epoch>>
      /\ Head(to_stm) \in ToStm /\ Head(to_stm).kind = "MOTION_COMMAND"
      /\ Head(to_stm).epoch \in Tokens
      /\ link_state = "SyncPending" => Head(to_stm).epoch # epoch
      /\ link_state = "Synchronized" => Head(to_stm).epoch = epoch
  BY <1>2, TakenFrame
<1>4. Head(to_stm).transaction \in Transactions
  BY <1>3, ToStmFields
<1>5. LifecycleInv'
  BY <1>1, <1>2, <1>4, HandlePreserves
<1>6. UNCHANGED coordinator /\ action'.response \in {None, terminal}
  BY <1>2, ActionFields DEF handle_transaction, HandlePendingRetry, HandleCompletedRetry,
     HandleIgnored, NoAction
<1>7. Answering(Head(to_stm).epoch, action'.response)
  BY <1>1, <1>2, <1>3, <1>5, SendsAction DEF LifecycleInv, TypeOK
<1>8. /\ ClientTypeOK' /\ ClientInv'
      /\ UNCHANGED <<link_state, epoch, next_sequence, session_state, active_session_id>>
      /\ transaction' = transaction /\ Underway' = Underway
  BY <1>1, <1>3, ClientIdle
<1>9. RobotTypeOK'
  BY <1>1, <1>2, <1>3, <1>5, <1>7, <1>8, StmLineIndex DEF RobotTypeOK, LifecycleInv, Answering
<1>10. OrderInv' /\ StmInv'
  BY <1>1, <1>2, <1>3, <1>6, OrderKept, StmKept DEF RobotInv
<1>11. EpochInv'
  BY <1>1, <1>2, <1>3, <1>7, <1>8, SentEpoch DEF RobotInv
<1>12. PlainAnswers' /\ ResponsesInv'
  <2>1. PICK answer : answer = action'.response
    OBVIOUS
  <2>2. answer # None => AnswerFits(answer) /\ answer.result \in {"OK", "STOP_FAILED"}
    BY <1>2, <1>6, <2>1, TerminalFits
  <2>3. Answering(Head(to_stm).epoch, answer)
    BY <1>7, <2>1
  <2> QED BY <1>1, <1>8, <2>2, <2>3, SentResponses DEF RobotInv
<1>13. AgreeInv'
  <2>1. \A i \in 1 .. Len(to_pi') :
          to_pi'[i].kind = "MOTION_RESPONSE" =>
            \/ \E j \in 1 .. Len(to_pi) : to_pi'[i] = to_pi[j]
            \/ to_pi'[i].answer = terminal
    BY <1>6, <1>7 DEF Answering
  <2> QED BY <1>1, <1>2, <1>3, <1>6, <1>8, <2>1, AgreeKept DEF RobotInv
<1> QED BY <1>5, <1>8, <1>9, <1>10, <1>11, <1>12, <1>13 DEF RobotInv

\* A command that is new to the STM32 is one with nothing in its way: it begins
\* the stop of the wheels.
LEMMA NewCommand ==
  ASSUME LifecycleInv, NEW c \in Transactions, AtFrontier(c) \/ Acceptable(c), HandleNew(c)
  PROVE  /\ Acceptable(c)
         /\ latest_sequence' = c.sequence /\ pending' = c /\ terminal' = None
         /\ active_operation_id' # 0
         /\ action'.response = None
<1>1. c.sequence \in Sequences
  BY DEF Transactions
<1>2. c.sequence # None /\ motion_sequence_classify(c.sequence, c.sequence) = "SAME"
  BY <1>1, NextIsNewer, LinkConstants
<1>3. ASSUME AtFrontier(c)
      PROVE  FALSE
  <2>1. classify(c) = ClassifySame(c)
    BY <1>2, <1>3 DEF AtFrontier, classify
  <2>2. ClassifySame(c) # "NEW"
    BY DEF ClassifySame
  <2> QED BY <2>1, <2>2 DEF HandleNew
<1>4. Acceptable(c)
  BY <1>3
<1>5. handle_start_no_session(c) \/ handle_end_active(c)
  BY <1>4 DEF Acceptable, HandleNew, handle_start_already_active,
     handle_start_replacing_active, handle_end_session_mismatch, handle_end_no_session,
     handle_start_while_starting, handle_end_while_starting, handle_start_while_ending,
     handle_end_while_ending, handle_invalid_command
<1>6. BeginEnsureStopped(c)
  BY <1>5 DEF handle_start_no_session, handle_end_active
<1>7. FreshOperationId # 0
  BY FreshOperationIdType DEF LifecycleInv, TypeOK
<1> QED BY <1>4, <1>6, <1>7, ActionFields DEF BeginEnsureStopped, begin_pending

\* A new command is accepted: those behind it on the line are its repetitions,
\* and it is the one the client waits for.
LEMMA NewCommandKeeps ==
  ASSUME RobotInv, StmCommand, HandleNew(Head(to_stm).transaction)
  PROVE  RobotInv'
<1>1. ClientTypeOK /\ ClientInv /\ RobotTypeOK /\ LifecycleInv
  BY DEF RobotInv, RobotTypeOK
<1>2. /\ StmTakes("MOTION_COMMAND") /\ stm_epoch # None /\ UNCHANGED stm_epoch
      /\ handle_transaction(Head(to_stm).transaction)
      /\ StmSends(ActionFrames(Head(to_stm).epoch))
  BY DEF StmCommand, stm_synchronized
<1>3. /\ to_stm # <<>> /\ StmLineShrinks /\ UNCHANGED <<client, epoch>>
      /\ Head(to_stm) \in ToStm /\ Head(to_stm).kind = "MOTION_COMMAND"
      /\ 1 \in 1 .. Len(to_stm) /\ to_stm[1] = Head(to_stm)
      /\ Head(to_stm).epoch \in Tokens
      /\ link_state = "SyncPending" => Head(to_stm).epoch # epoch
      /\ link_state = "Synchronized" => Head(to_stm).epoch = epoch
  BY <1>2, TakenFrame
<1>4. PICK c \in Transactions : c = Head(to_stm).transaction
  BY <1>3, ToStmFields
<1>5. /\ Len(to_stm) \in Nat \ {0} /\ Len(to_stm') = Len(to_stm) - 1
      /\ \A i \in 1 .. Len(to_stm) - 1 : to_stm'[i] = to_stm[i + 1]
  BY <1>1, <1>2, TailOf DEF RobotTypeOK, StmTakes
<1>6. LifecycleInv'
  BY <1>1, <1>2, <1>4, HandlePreserves
<1>7. CommandsInv
  BY <1>2 DEF RobotInv, StmInv
<1>8. IsCommand(1) /\ (AtFrontier(c) \/ Acceptable(c))
  BY <1>3, <1>4, <1>7 DEF CommandsInv, IsCommand
<1>9. /\ Acceptable(c) /\ ~AtFrontier(c)
      /\ latest_sequence' = c.sequence /\ pending' = c /\ terminal' = None
      /\ active_operation_id' # 0 /\ action'.response = None
  BY <1>1, <1>4, <1>8, NewCommand, Exclusive
<1>10. Answering(Head(to_stm).epoch, None)
  BY <1>1, <1>2, <1>3, <1>6, <1>9, SendsAction DEF LifecycleInv, TypeOK
<1>11. /\ ClientTypeOK' /\ ClientInv'
       /\ UNCHANGED <<link_state, epoch, next_sequence, session_state, active_session_id>>
       /\ transaction' = transaction /\ Underway' = Underway
  BY <1>1, <1>3, ClientIdle
<1>12. RobotTypeOK'
  BY <1>1, <1>2, <1>3, <1>6, <1>10, <1>11, StmLineIndex DEF RobotTypeOK, LifecycleInv, Answering
<1>13. OrderInv'
  BY <1>1, <1>2, <1>3, OrderKept DEF RobotInv
<1>14. EpochInv'
  BY <1>1, <1>2, <1>3, <1>10, <1>11, SentEpoch DEF RobotInv
<1>15. PlainAnswers' /\ ResponsesInv'
  BY <1>1, <1>10, <1>11, SentResponses DEF RobotInv
<1>16. c.sequence \in Sequences /\ c.sequence # None
  BY LinkConstants DEF Transactions
<1>17. ASSUME NEW i \in 1 .. Len(to_stm'), IsCommand(i)'
       PROVE  to_stm'[i].transaction = c
  <2>1. i + 1 \in 1 .. Len(to_stm) /\ 1 < i + 1 /\ to_stm'[i] = to_stm[i + 1]
    BY <1>5
  <2>2. IsCommand(i + 1) /\ Acceptable(to_stm[1].transaction)
    BY <1>3, <1>4, <1>9, <1>17, <2>1 DEF IsCommand
  <2> QED BY <1>3, <1>4, <1>7, <1>8, <2>1, <2>2 DEF CommandsInv
<1>18. StmInv'
  <2>1. AnsweredInv'
    BY <1>9, <1>16 DEF AnsweredInv
  <2>2. \A i \in 1 .. Len(to_stm') : IsCommand(i)' => AtFrontier(to_stm[i].transaction)'
    BY <1>9, <1>17 DEF AtFrontier
  <2>3. CommandsInv'
    BY <1>17, <2>2 DEF CommandsInv
  <2> QED BY <1>2, <2>1, <2>3 DEF StmInv
<1>19. AgreeInv'
  <2>1. SUFFICES ASSUME link_state = "Synchronized", stm_epoch = epoch
                 PROVE  transaction # None /\ UnderwayInv'
    BY <1>2, <1>11 DEF AgreeInv
  <2>2. transaction # None
    BY <1>3, <1>4, <1>8, <1>9, <2>1 DEF RobotInv, AgreeInv, RestInv
  <2>3. UnderwayInv
    BY <2>1, <2>2 DEF RobotInv, AgreeInv
  <2>4. c = Underway
    BY <1>3, <1>4, <1>8, <1>9, <2>3 DEF UnderwayInv
  <2>5. c = Underway' /\ c.sequence = transaction.sequence
    BY <1>11, <2>4 DEF Underway
  <2>6. AtFrontier(Underway)'
    BY <1>9, <2>5 DEF AtFrontier
  <2>7. ASSUME NEW i \in 1 .. Len(to_pi'), IsResponse(i)'
        PROVE  AnswerSequence(i)' # transaction'.sequence
    <3>1. i \in 1 .. Len(to_pi) /\ to_pi'[i] = to_pi[i]
      BY <1>10, <2>7 DEF Answering, IsResponse
    <3>2. SUFFICES ASSUME to_pi[i].answer.transaction.sequence = transaction.sequence
                   PROVE  FALSE
      BY <1>11, <3>1 DEF AnswerSequence
    <3>3. to_pi[i] \in ToPi /\ to_pi[i].kind = "MOTION_RESPONSE"
      BY <1>1, <2>7, <3>1 DEF RobotTypeOK, IsResponse
    <3>4. terminal = to_pi[i].answer /\ to_pi[i].answer \in Terminals
      BY <2>3, <3>1, <3>2, <3>3, ToPiFields DEF UnderwayInv
    <3>5. latest_sequence = c.sequence
      BY <1>1, <2>5, <3>2, <3>4, NoneAssumption
         DEF LifecycleInv, FrontierExplained, AnsweredFrontier
    <3>6. NextAfter(c.sequence) # c.sequence
      BY <1>16, NextIsNewer
    <3> QED BY <1>9, <1>16, <3>5, <3>6 DEF Acceptable
  <2>8. \A i \in 1 .. Len(to_pi') :
          /\ to_pi'[i].kind = "MOTION_RESPONSE"
          /\ to_pi'[i].answer.transaction.sequence = transaction'.sequence
          => terminal' = to_pi'[i].answer
    BY <2>7 DEF IsResponse, AnswerSequence
  <2> QED BY <1>17, <2>2, <2>5, <2>6, <2>8 DEF UnderwayInv
<1> QED BY <1>6, <1>11, <1>12, <1>13, <1>14, <1>15, <1>18, <1>19 DEF RobotInv

\* While the wheels are being stopped, the pending command is the newest, and if
\* the client is in the epoch it is the one under way and not answered.
LEMMA PendingIsUnderway ==
  ASSUME RobotInv, active_operation_id # 0
  PROVE  /\ stm_epoch \in Tokens /\ pending \in Transactions /\ pending # None
         /\ terminal = None /\ latest_sequence = pending.sequence /\ latest_sequence # None
         /\ \A i \in 1 .. Len(to_stm) : IsCommand(i) => to_stm[i].transaction = pending
         /\ link_state = "SyncPending" => stm_epoch # epoch
         /\ link_state = "Synchronized" =>
              /\ stm_epoch = epoch /\ transaction # None /\ pending = Underway
              /\ \A i \in 1 .. Len(to_pi) :
                   IsResponse(i) => AnswerSequence(i) # transaction.sequence
<1>1. LifecycleInv /\ RobotTypeOK /\ ClientInv
  BY DEF RobotInv
<1>2. stm_epoch # None /\ AnsweredInv /\ CommandsInv
  BY DEF RobotInv, StmInv
<1>3. stm_epoch \in Tokens
  BY <1>1, <1>2 DEF RobotTypeOK
<1>4. pending # None /\ pending \in Transactions
  BY <1>1 DEF LifecycleInv, OperationOwnership, TypeOK, ReceiverTypeOK
<1>5. terminal = None /\ latest_sequence # None
  BY <1>2, <1>4 DEF AnsweredInv, Fresh
<1>6. latest_sequence = pending.sequence
  BY <1>1, <1>5 DEF LifecycleInv, FrontierExplained, AnsweredFrontier, PendingFrontier
<1>7. \A i \in 1 .. Len(to_stm) : IsCommand(i) => to_stm[i].transaction = pending
  BY <1>2, <1>4, <1>5 DEF CommandsInv, Acceptable, AtFrontier
<1>8. link_state = "SyncPending" => stm_epoch # epoch
  BY <1>4 DEF RobotInv, EpochInv, PendingInv, Fresh
<1>9. ASSUME link_state = "Synchronized"
      PROVE  /\ stm_epoch = epoch /\ transaction # None /\ pending = Underway
             /\ \A i \in 1 .. Len(to_pi) :
                  IsResponse(i) => AnswerSequence(i) # transaction.sequence
  <2>1. stm_epoch = epoch
    BY <1>2, <1>9 DEF RobotInv, EpochInv, BarrierInv
  <2>2. transaction # None
    BY <1>4, <1>9, <2>1 DEF RobotInv, AgreeInv, RestInv
  <2>3. UnderwayInv
    BY <1>9, <2>1, <2>2 DEF RobotInv, AgreeInv
  <2>4. pending = Underway
    BY <1>4, <1>5, <2>3 DEF UnderwayInv, Acceptable, AtFrontier
  <2>5. ASSUME NEW i \in 1 .. Len(to_pi), IsResponse(i)
        PROVE  AnswerSequence(i) # transaction.sequence
    <3>1. to_pi[i] \in ToPi /\ to_pi[i].kind = "MOTION_RESPONSE"
      BY <1>1, <2>5 DEF RobotTypeOK, IsResponse
    <3>2. to_pi[i].answer # None
      BY <3>1, ToPiFields, NoneAssumption
    <3> QED BY <1>5, <2>3, <3>1, <3>2 DEF UnderwayInv, AnswerSequence
  <2> QED BY <2>1, <2>2, <2>4, <2>5
<1> QED BY <1>3, <1>4, <1>5, <1>6, <1>7, <1>8, <1>9

\* The wheels are at rest: the pending command is answered OK.
LEMMA StoppedKeeps ==
  ASSUME RobotInv, StmStopped
  PROVE  RobotInv'
<1>1. ClientTypeOK /\ ClientInv /\ RobotTypeOK /\ LifecycleInv
  BY DEF RobotInv, RobotTypeOK
<1>2. /\ active_operation_id # 0 /\ complete_operation(active_operation_id, "SUCCESS")
      /\ StmSends(ActionFrames(stm_epoch)) /\ UNCHANGED <<client, epoch, stm_epoch, to_stm>>
  BY DEF StmStopped, PiIdle
<1>3. /\ stm_epoch \in Tokens /\ pending \in Transactions /\ pending # None
      /\ terminal = None /\ latest_sequence = pending.sequence /\ latest_sequence # None
      /\ \A i \in 1 .. Len(to_stm) : IsCommand(i) => to_stm[i].transaction = pending
      /\ link_state = "SyncPending" => stm_epoch # epoch
      /\ link_state = "Synchronized" =>
           /\ stm_epoch = epoch /\ transaction # None /\ pending = Underway
           /\ \A i \in 1 .. Len(to_pi) :
                IsResponse(i) => AnswerSequence(i) # transaction.sequence
  BY <1>2, PendingIsUnderway
<1>4. PICK c \in Transactions : c = pending
  BY <1>3
<1>5. LifecycleInv'
  <2>1. active_operation_id \in OperationIds /\ "SUCCESS" \in OperationResults
    BY <1>1 DEF LifecycleInv, TypeOK, OperationResults
  <2> QED BY <1>1, <1>2, <2>1, CompletePreserves
<1>6. CompleteAwaited(active_operation_id, "SUCCESS")
  <2>1. CompletionAwaited(active_operation_id)
    BY <1>1, <1>2, <1>3 DEF CompletionAwaited, LifecycleInv, OperationOwnership
  <2> QED BY <1>2, <2>1 DEF complete_operation, CompleteIgnored
<1>7. PICK answer \in Terminals :
        answer = Terminal(c, "OK") /\ answer.transaction = c /\ answer.result = "OK"
  BY TerminalType DEF Results
<1>8. /\ pending' = None /\ terminal' = answer /\ UNCHANGED latest_sequence
      /\ action'.response = answer /\ answer # None
  <2>1. CompletionResult("SUCCESS") = "OK"
    BY DEF CompletionResult
  <2> QED BY <1>3, <1>4, <1>6, <1>7, <2>1, ActionFields, NoneAssumption
          DEF CompleteAwaited, complete_pending
<1>9. \/ /\ c.command = "START_SESSION" /\ state' = "ACTIVE"
         /\ motion_session_id' = c.motion_session_id
      \/ c.command = "END_SESSION" /\ state' = "NO_SESSION"
  BY <1>1, <1>3, <1>4, <1>6 DEF LifecycleInv, OperationOwnership, CompleteAwaited,
     CompletionAwaited
<1>10. Answering(stm_epoch, answer)
  BY <1>1, <1>2, <1>3, <1>5, <1>8, SendsAction DEF LifecycleInv, TypeOK
<1>11. /\ ClientTypeOK' /\ ClientInv'
       /\ UNCHANGED <<link_state, epoch, next_sequence, session_state, active_session_id>>
       /\ transaction' = transaction /\ Underway' = Underway
  BY <1>1, <1>2, ClientIdle
<1>12. StmLineShrinks
  BY <1>2 DEF StmLineShrinks
<1>13. RobotTypeOK'
  BY <1>1, <1>2, <1>5, <1>10, <1>11 DEF RobotTypeOK, LifecycleInv, Answering
<1>14. OrderInv'
  BY <1>1, <1>2, <1>12, OrderKept DEF RobotInv
<1>15. EpochInv'
  <2>1. stm_epoch # None
    BY <1>3, LinkConstants
  <2> QED BY <1>1, <1>2, <1>3, <1>10, <1>11, <1>12, <2>1, SentEpoch DEF RobotInv
<1>16. PlainAnswers' /\ ResponsesInv'
  <2>1. AnswerFits(answer)
    BY <1>3, <1>4, <1>7 DEF AnswerFits, Underway
  <2> QED BY <1>1, <1>7, <1>10, <1>11, <2>1, SentResponses DEF RobotInv
<1>17. \A i \in 1 .. Len(to_stm') : IsCommand(i)' => to_stm'[i].transaction = c
  BY <1>2, <1>3, <1>4 DEF IsCommand
<1>18. StmInv'
  <2>1. AnsweredInv'
    BY <1>3, <1>7, <1>8, <1>9 DEF AnsweredInv
  <2>2. \A i \in 1 .. Len(to_stm') : IsCommand(i)' => AtFrontier(to_stm[i].transaction)'
    BY <1>3, <1>4, <1>7, <1>8, <1>17 DEF AtFrontier
  <2>3. CommandsInv'
    BY <1>17, <2>2 DEF CommandsInv
  <2>4. stm_epoch' # None
    BY <1>2, <1>3, LinkConstants
  <2> QED BY <2>1, <2>3, <2>4 DEF StmInv
<1>19. AgreeInv'
  <2>1. SUFFICES ASSUME link_state = "Synchronized" PROVE transaction # None /\ UnderwayInv'
    BY <1>11 DEF AgreeInv
  <2>2. c = Underway' /\ transaction # None
    BY <1>3, <1>4, <1>11, <2>1
  <2>3. AtFrontier(Underway)'
    BY <1>3, <1>4, <1>7, <1>8, <2>2 DEF AtFrontier
  <2>4. \A i \in 1 .. Len(to_pi') :
          /\ to_pi'[i].kind = "MOTION_RESPONSE"
          /\ to_pi'[i].answer.transaction.sequence = transaction'.sequence
          => terminal' = to_pi'[i].answer
    BY <1>3, <1>8, <1>10, <1>11, <2>1 DEF Answering, IsResponse, AnswerSequence
  <2> QED BY <1>17, <2>2, <2>3, <2>4 DEF UnderwayInv
<1> QED BY <1>5, <1>11, <1>13, <1>14, <1>15, <1>16, <1>18, <1>19 DEF RobotInv

\* They are not: the pending command is answered STOP_FAILED, and the STM32
\* leaves the epoch.
LEMMA StopFailedKeeps ==
  ASSUME RobotInv, StmStopFailed
  PROVE  RobotInv'
<1>1. ClientTypeOK /\ ClientInv /\ RobotTypeOK /\ LifecycleInv
  BY DEF RobotInv, RobotTypeOK
<1>2. /\ active_operation_id # 0 /\ Reset /\ stm_epoch' = None
      /\ StmSends(<<[kind |-> "MOTION_RESPONSE", epoch |-> stm_epoch,
                     answer |-> Terminal(pending, "STOP_FAILED")]>>)
      /\ UNCHANGED <<client, epoch, to_stm>>
  BY DEF StmStopFailed, PiIdle
<1>3. /\ stm_epoch \in Tokens /\ pending \in Transactions
      /\ link_state = "SyncPending" => stm_epoch # epoch
      /\ link_state = "Synchronized" =>
           stm_epoch = epoch /\ transaction # None /\ pending = Underway
  BY <1>2, PendingIsUnderway
<1>4. PICK answer \in Terminals :
        /\ answer = Terminal(pending, "STOP_FAILED")
        /\ answer.transaction = pending /\ answer.result = "STOP_FAILED"
  BY <1>3, TerminalType DEF Results
<1>5. PICK f : f = [kind |-> "MOTION_RESPONSE", epoch |-> stm_epoch, answer |-> answer]
  OBVIOUS
<1>6. /\ f \in ToPi /\ f.kind = "MOTION_RESPONSE" /\ f.epoch = stm_epoch /\ f.answer = answer
      /\ StmSends(<<f>>)
  BY <1>2, <1>3, <1>4, <1>5 DEF ToPi
<1>7. Answering(stm_epoch, answer)
  <2>1. answer # None /\ f.kind # "LINK_SYNC_OK"
    BY <1>4, <1>6, NoneAssumption
  <2> QED BY <1>1, <1>6, <2>1, SendsOne
<1>8. LifecycleInv'
  BY <1>1, <1>2, ResetPreserves
<1>9. /\ ClientTypeOK' /\ ClientInv'
      /\ UNCHANGED <<link_state, epoch, next_sequence, session_state, active_session_id>>
      /\ transaction' = transaction /\ Underway' = Underway
  BY <1>1, <1>2, ClientIdle
<1>10. StmLineShrinks
  BY <1>2 DEF StmLineShrinks
<1>11. RobotTypeOK'
  BY <1>1, <1>2, <1>7, <1>8, <1>9 DEF RobotTypeOK, LifecycleInv, Answering
<1>12. OrderInv'
  BY <1>1, <1>2, <1>10, OrderKept DEF RobotInv
<1>13. EpochInv'
  <2>1. stm_epoch # None
    BY <1>3, LinkConstants
  <2> QED BY <1>1, <1>2, <1>3, <1>7, <1>9, <1>10, <2>1, SentEpoch DEF RobotInv
<1>14. PlainAnswers' /\ ResponsesInv'
  <2>1. AnswerFits(answer)
    BY <1>3, <1>4 DEF AnswerFits, Underway
  <2> QED BY <1>1, <1>4, <1>7, <1>9, <2>1, SentResponses DEF RobotInv
<1>15. StmInv'
  BY <1>2 DEF StmInv, Reset, reset
<1>16. AgreeInv'
  <2>1. link_state = "Synchronized" => epoch # None
    BY <1>1 DEF ClientInv
  <2> QED BY <1>2, <1>9, <2>1 DEF AgreeInv
<1> QED BY <1>8, <1>9, <1>11, <1>12, <1>13, <1>14, <1>15, <1>16 DEF RobotInv

(***************************************************************************)
(* The theorems                                                            *)
(***************************************************************************)

\* Every step of the two computers and of the line keeps the invariant.
LEMMA RobotNextKeeps ==
  ASSUME RobotInv, [RobotNext]_robot
  PROVE  RobotInv'
<1>1. CASE LostToStm \/ LostToPi \/ StmVelocity
  BY <1>1, LossKeeps
<1>2. CASE PiDisconnect \/ PiRestart \/ PiReceiveUnsynchronized
  BY <1>2, DetachKeeps
<1>3. CASE PiReceive
  BY <1>3, ReceiveKeeps
<1>4. CASE \E token \in Tokens : PiSynchronize(token)
  BY <1>4, SynchronizeKeeps
<1>5. CASE PiHeartbeat \/ PiVelocity
  BY <1>5, HeartbeatVelocityKeeps
<1>6. CASE PiCommand
  BY <1>6, CommandKeeps
<1>7. CASE StmLinkSync
  BY <1>7, LinkSyncKeeps
<1>8. CASE StmHeartbeat
  BY <1>8, HeartbeatAnswerKeeps
<1>9. CASE StmCommand
  BY <1>9, RetryAnswerKeeps, NewCommandKeeps
<1>10. CASE StmStopped
  BY <1>10, StoppedKeeps
<1>11. CASE StmStopFailed
  BY <1>11, StopFailedKeeps
<1>12. CASE StmLinkLost \/ StmRestart
  BY <1>12, UnsynchronizeKeeps
<1>13. CASE UNCHANGED robot
  <2>1. UNCHANGED <<client, epoch, coordinator, action, stm_epoch, to_stm, to_pi>>
    BY <1>13 DEF robot, vars, line
  <2>2. LifecycleInv'
    BY <2>1, QuietPreserves DEF RobotInv, LifecycleInv, TypeOK
  <2>3. StmLineShrinks /\ PiLineShrinks
    BY <2>1 DEF StmLineShrinks, PiLineShrinks
  <2>4. RobotTypeOK /\ ClientTypeOK /\ ClientInv
    BY DEF RobotInv, RobotTypeOK
  <2>5. /\ ClientTypeOK' /\ ClientInv'
        /\ UNCHANGED <<link_state, epoch, next_sequence, session_state, active_session_id>>
        /\ transaction' = transaction /\ Underway' = Underway
    BY <2>1, <2>4, ClientIdle
  <2>6. RobotTypeOK'
    BY <2>1, <2>2, <2>4, <2>5 DEF RobotTypeOK, LifecycleInv
  <2>7. OrderInv' /\ EpochInv' /\ StmInv'
    BY <2>1, <2>3, <2>4, <2>5, OrderKept, EpochKept, StmKept DEF RobotInv
  <2>8. PlainAnswers' /\ ResponsesInv'
    BY <2>3, <2>4, <2>5, ResponsesKept DEF RobotInv
  <2>9. AgreeInv'
    BY <2>1, <2>3, <2>4, <2>5, AgreeKept DEF RobotInv
  <2> QED BY <2>2, <2>5, <2>6, <2>7, <2>8, <2>9 DEF RobotInv
<1> QED
  BY <1>1, <1>2, <1>3, <1>4, <1>5, <1>6, <1>7, <1>8, <1>9, <1>10, <1>11, <1>12, <1>13
     DEF RobotNext, Pi, Stm

\* The inductive invariant holds of the two computers.
LEMMA RobotInvariant == RobotSpec => []RobotInv
<1>1. RobotInit => RobotInv
  BY InitRobotInv
<1>2. RobotInv /\ [RobotNext]_robot => RobotInv'
  BY RobotNextKeeps
<1> QED BY <1>1, <1>2, PTL DEF RobotSpec

\* The barrier LINK_SYNC makes: whatever frames are lost and however often the
\* two computers reconnect and restart (stm32_link_session.cpp,
\* uart_link_manager.c), once the client is synchronized nothing on the line is
\* of an earlier epoch, and neither is the STM32's session.
THEOREM BarrierHolds == RobotSpec => []EpochBarrier
<1>1. RobotInv => EpochBarrier
  <2>1. RobotInv => DOMAIN to_stm = 1 .. Len(to_stm) /\ DOMAIN to_pi = 1 .. Len(to_pi)
    BY DEF RobotInv, RobotTypeOK
  <2> QED BY <2>1 DEF RobotInv, EpochInv, BarrierInv, EpochBarrier
<1> QED BY <1>1, RobotInvariant, PTL

\* Types of everything on the line; and one lifecycle command at a time
\* (stm32_motion_session.cpp) is answered OK or STOP_FAILED, never with one of
\* the answers motion_lifecycle_coordinator.c has for two commands at once.
THEOREM LinePlain == RobotSpec => []LineInv
<1>1. RobotInv => LineInv
  BY DEF RobotInv, LineInv
<1> QED BY <1>1, RobotInvariant, PTL

\* While both are synchronized, stm32_motion_session.cpp and
\* motion_lifecycle_coordinator.c hold the same session, up to the command that
\* is under way.
THEOREM SessionsAlwaysAgree == RobotSpec => []SessionsAgree
<1>1. ASSUME RobotInv
      PROVE  SessionsAgree
  <2>1. SUFFICES ASSUME link_state = "Synchronized", stm_epoch # None PROVE SessionsAgree
    BY DEF SessionsAgree, stm_synchronized
  <2>2. ClientInv /\ LifecycleInv /\ AnsweredInv /\ stm_epoch = epoch
    BY <1>1, <2>1 DEF RobotInv, StmInv, EpochInv, BarrierInv
  <2>3. session_state \in {"Inactive", "StartPending", "Active", "EndPending"}
    BY <1>1 DEF RobotInv, RobotTypeOK, ClientTypeOK
  <2>4. CASE transaction = None
    <3>1. RestInv /\ session_state \in {"Inactive", "Active"}
      BY <1>1, <2>1, <2>2, <2>3, <2>4 DEF RobotInv, AgreeInv, ClientInv
    <3> QED BY <3>1 DEF RestInv, SessionsAgree
  <2>5. CASE transaction # None
    <3>1. UnderwayInv
      BY <1>1, <2>1, <2>2, <2>5 DEF RobotInv, AgreeInv
    <3>2. /\ Underway.command = transaction.command
          /\ Underway.motion_session_id = transaction.session
      BY DEF Underway
    <3>3. \/ /\ session_state = "StartPending" /\ Underway.command = "START_SESSION"
          \/ /\ session_state = "EndPending" /\ Underway.command = "END_SESSION"
             /\ transaction.session = active_session_id
      BY <2>2, <2>5, <3>2 DEF ClientInv
    <3>4. CASE Acceptable(Underway)
      BY <3>2, <3>3, <3>4 DEF Acceptable, SessionsAgree
    <3>5. CASE AtFrontier(Underway) /\ pending = Underway /\ pending # None
      BY <2>2, <3>2, <3>3, <3>5 DEF LifecycleInv, OperationOwnership, SessionsAgree
    <3>6. CASE terminal # None /\ terminal.transaction = Underway
      BY <2>2, <3>2, <3>3, <3>6 DEF AnsweredInv, SessionsAgree
    <3>7. Underway # None
      <4>1. transaction \in ClientTransactions
        BY <1>1, <2>5 DEF RobotInv, RobotTypeOK, ClientTypeOK
      <4>2. Underway \in Transactions
        BY <4>1, LinkConstants DEF ClientTransactions, Underway, Transactions, Commands,
           LifecycleCommands
      <4> QED BY <4>2, NoneAssumption
    <3> QED BY <3>1, <3>4, <3>5, <3>6, <3>7 DEF UnderwayInv, AtFrontier
  <2> QED BY <2>4, <2>5
<1> QED BY <1>1, RobotInvariant, PTL

=============================================================================
