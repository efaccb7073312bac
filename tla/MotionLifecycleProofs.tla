----------------------- MODULE MotionLifecycleProofs ------------------------
(***************************************************************************)
(* Proofs about the lifecycle coordinator, on its own and closed with its  *)
(* partners, for every sequence number space, set of sessions and          *)
(* operation identifier space.                                             *)
(***************************************************************************)
EXTENDS MotionLifecycleHistory, TLAPS

\* The inductive invariant of the coordinator.
LifecycleInv == TypeOK /\ OperationOwnership /\ FrontierExplained

\* begin_new_operation hands out a valid, non-zero identifier.
LEMMA FreshOperationIdType ==
  ASSUME next_operation_id \in OperationIds
  PROVE  FreshOperationId \in OperationIds \ {0}
BY OperationAssumption DEF FreshOperationId, OperationIds

\* The actions the coordinator builds are well typed.
LEMMA ActionType ==
  ASSUME NEW ack \in Transactions \cup {None}, NEW response \in Terminals \cup {None},
         NEW id \in OperationIds
  PROVE  MakeAction(ack, response, id) \in Actions
BY DEF MakeAction, Actions

\* The empty action is well typed.
LEMMA NoActionType == NoAction \in Actions
<1>1. 0 \in OperationIds
  BY OperationAssumption DEF OperationIds
<1> QED
  BY <1>1, ActionType DEF NoAction

\* A cached answer is well typed and holds what it was made of.
LEMMA TerminalType ==
  ASSUME NEW t \in Transactions, NEW r \in Results
  PROVE  /\ Terminal(t, r) \in Terminals
         /\ Terminal(t, r).transaction = t
         /\ Terminal(t, r).result = r
BY DEF Terminal, Terminals

\* The three kinds of handler preserve the invariant.
LEMMA BeginPreserves ==
  ASSUME LifecycleInv, NEW t \in Transactions, BeginEnsureStopped(t),
         motion_session_id' = t.motion_session_id,
         \/ state' = "STARTING" /\ t.command = "START_SESSION"
         \/ state' = "ENDING" /\ t.command = "END_SESSION"
  PROVE  LifecycleInv'
<1>1. FreshOperationId \in OperationIds \ {0}
  BY FreshOperationIdType DEF LifecycleInv, TypeOK
<1>2. action' \in Actions
  BY <1>1, ActionType DEF BeginEnsureStopped
<1>3. /\ pending' = t /\ terminal' = None /\ latest_sequence' = t.sequence
      /\ active_operation_id' = FreshOperationId
      /\ next_operation_id' = FreshOperationId
  BY DEF BeginEnsureStopped, begin_pending
<1>4. t.sequence \in Sequences /\ t.motion_session_id \in MotionSessionIds /\ t # None
  BY NoneAssumption DEF Transactions
<1>5. TypeOK'
  BY <1>1, <1>2, <1>3, <1>4 DEF TypeOK, ReceiverTypeOK, States
<1>6. OperationOwnership'
  BY <1>1, <1>3, <1>4 DEF OperationOwnership
<1>7. FrontierExplained'
  <2>1. t.sequence # None
    BY <1>4, NoneIsNoNumber, SequenceAssumption DEF Sequences, SequenceMod
  <2>2. PendingFrontier'
    BY <1>3, <1>4 DEF PendingFrontier
  <2> QED
    BY <1>3, <2>1, <2>2 DEF FrontierExplained
<1> QED
  BY <1>5, <1>6, <1>7 DEF LifecycleInv

\* Answering at once preserves the invariant.
LEMMA AnswerNowPreserves ==
  ASSUME LifecycleInv, NEW t \in Transactions, NEW r \in Results, AnswerNow(t, r)
  PROVE  LifecycleInv'
<1>1. /\ latest_sequence' = t.sequence
      /\ terminal' = Terminal(t, r)
      /\ UNCHANGED <<pending, state, motion_session_id, next_operation_id,
                     active_operation_id>>
  BY DEF AnswerNow, record_immediate_terminal
<1>2. t.sequence \in Sequences /\ terminal' \in Terminals
  BY <1>1, TerminalType DEF Transactions
<1>3. action' \in Actions
  <2>1. 0 \in OperationIds
    BY OperationAssumption DEF OperationIds
  <2> QED
    BY <2>1, ActionType, TerminalType DEF AnswerNow
<1>4. TypeOK'
  BY <1>1, <1>2, <1>3 DEF LifecycleInv, TypeOK, ReceiverTypeOK
<1>5. OperationOwnership'
  BY <1>1 DEF LifecycleInv, OperationOwnership
<1>6. FrontierExplained'
  <2>1. t.sequence # None
    BY <1>2, NoneIsNoNumber, SequenceAssumption DEF Sequences, SequenceMod
  <2>2. AnsweredFrontier'
    BY <1>1, <1>2, TerminalType, NoneAssumption DEF AnsweredFrontier
  <2> QED
    BY <1>1, <2>1, <2>2 DEF FrontierExplained
<1> QED
  BY <1>4, <1>5, <1>6 DEF LifecycleInv

\* Taking over the stop in progress preserves the invariant.
LEMMA SupersedePreserves ==
  ASSUME LifecycleInv, NEW t \in Transactions, Supersede(t),
         state \in {"STARTING", "ENDING"},
         motion_session_id' = t.motion_session_id,
         \/ state' = "STARTING" /\ t.command = "START_SESSION"
         \/ state' = "ENDING" /\ t.command = "END_SESSION"
  PROVE  LifecycleInv'
<1>1. /\ pending' = t /\ terminal' = None /\ latest_sequence' = t.sequence
      /\ UNCHANGED <<next_operation_id, active_operation_id>>
  BY DEF Supersede, begin_pending
<1>2. pending \in Transactions /\ active_operation_id # 0
  BY DEF LifecycleInv, TypeOK, ReceiverTypeOK, OperationOwnership
<1>3. t.sequence \in Sequences /\ t.motion_session_id \in MotionSessionIds /\ t # None
  BY NoneAssumption DEF Transactions
<1>4. action' \in Actions
  <2>1. 0 \in OperationIds
    BY OperationAssumption DEF OperationIds
  <2>2. Terminal(pending, "SUPERSEDED") \in Terminals
    BY <1>2, TerminalType DEF Results
  <2> QED
    BY <2>1, <2>2, ActionType DEF Supersede
<1>5. TypeOK'
  BY <1>1, <1>3, <1>4 DEF LifecycleInv, TypeOK, ReceiverTypeOK, States
<1>6. OperationOwnership'
  BY <1>1, <1>2, <1>3 DEF OperationOwnership
<1>7. FrontierExplained'
  <2>1. t.sequence # None
    BY <1>3, NoneIsNoNumber, SequenceAssumption DEF Sequences, SequenceMod
  <2>2. PendingFrontier'
    BY <1>1, <1>3 DEF PendingFrontier
  <2> QED
    BY <1>1, <2>1, <2>2 DEF FrontierExplained
<1> QED
  BY <1>5, <1>6, <1>7 DEF LifecycleInv

\* A NEW transaction is handled by exactly the three kinds of handler.
LEMMA HandleNewPreserves ==
  ASSUME LifecycleInv, NEW t \in Transactions, HandleNew(t)
  PROVE  LifecycleInv'
<1> USE DEF Results
<1>1. CASE handle_start_no_session(t)
  BY <1>1, BeginPreserves DEF handle_start_no_session
<1>2. CASE handle_start_already_active(t)
  BY <1>2, AnswerNowPreserves DEF handle_start_already_active
<1>3. CASE handle_start_replacing_active(t)
  BY <1>3, BeginPreserves DEF handle_start_replacing_active
<1>4. CASE handle_end_active(t)
  BY <1>4, BeginPreserves DEF handle_end_active
<1>5. CASE handle_end_session_mismatch(t)
  BY <1>5, AnswerNowPreserves DEF handle_end_session_mismatch
<1>6. CASE handle_end_no_session(t)
  BY <1>6, AnswerNowPreserves DEF handle_end_no_session
<1>7. CASE handle_start_while_starting(t)
  BY <1>7, SupersedePreserves DEF handle_start_while_starting
<1>8. CASE handle_end_while_starting(t)
  BY <1>8, SupersedePreserves DEF handle_end_while_starting
<1>9. CASE handle_start_while_ending(t)
  BY <1>9, AnswerNowPreserves DEF handle_start_while_ending
<1>10. CASE handle_end_while_ending(t)
  BY <1>10, SupersedePreserves DEF handle_end_while_ending
<1>11. CASE handle_invalid_command(t)
  BY <1>11, AnswerNowPreserves DEF handle_invalid_command
<1> QED
  BY <1>1, <1>2, <1>3, <1>4, <1>5, <1>6, <1>7, <1>8, <1>9, <1>10, <1>11
     DEF HandleNew

\* A step that only sets the returned action preserves the invariant.
LEMMA QuietPreserves ==
  ASSUME LifecycleInv, UNCHANGED coordinator, action' \in Actions
  PROVE  LifecycleInv'
BY DEF LifecycleInv, coordinator, TypeOK, ReceiverTypeOK, OperationOwnership,
       FrontierExplained, AnsweredFrontier, PendingFrontier

\* handle_transaction preserves the invariant, whatever the classification.
LEMMA HandlePreserves ==
  ASSUME LifecycleInv, NEW t \in Transactions, handle_transaction(t)
  PROVE  LifecycleInv'
<1>0. 0 \in OperationIds
  BY OperationAssumption DEF OperationIds
<1>1. CASE HandleNew(t)
  BY <1>1, HandleNewPreserves
<1>2. CASE HandlePendingRetry(t)
  <2>1. action' \in Actions
    BY <1>0, <1>2, ActionType DEF HandlePendingRetry
  <2> QED
    BY <1>2, <2>1, QuietPreserves DEF HandlePendingRetry
<1>3. CASE HandleCompletedRetry(t)
  <2>1. terminal # None
    <3>1. AnsweredFrontier
      BY <1>3 DEF HandleCompletedRetry, classify, ClassifySame
    <3> QED
      BY <3>1 DEF AnsweredFrontier
  <2>2. terminal \in Terminals /\ terminal.transaction \in Transactions
    BY <2>1 DEF LifecycleInv, TypeOK, ReceiverTypeOK, Terminals
  <2>3. action' \in Actions
    BY <1>0, <1>3, <2>2, ActionType DEF HandleCompletedRetry
  <2> QED
    BY <1>3, <2>3, QuietPreserves DEF HandleCompletedRetry
<1>4. CASE HandleIgnored(t)
  BY <1>4, NoActionType, QuietPreserves DEF HandleIgnored
<1> QED
  BY <1>1, <1>2, <1>3, <1>4 DEF handle_transaction

\* complete_operation preserves the invariant, awaited or not.
LEMMA CompletePreserves ==
  ASSUME LifecycleInv, NEW id \in OperationIds, NEW result \in OperationResults,
         complete_operation(id, result)
  PROVE  LifecycleInv'
<1>0. 0 \in OperationIds
  BY OperationAssumption DEF OperationIds
<1>1. CASE CompleteIgnored(id)
  BY <1>1, NoActionType, QuietPreserves DEF CompleteIgnored
<1>2. CASE CompleteAwaited(id, result)
  <2> DEFINE r == CompletionResult(result)
  <2>1. r \in Results
    BY DEF CompletionResult, Results
  <2>2. pending \in Transactions
    BY <1>2 DEF CompleteAwaited, CompletionAwaited, LifecycleInv, TypeOK, ReceiverTypeOK
  <2>3. Terminal(pending, r) \in Terminals /\ Terminal(pending, r).transaction = pending
    BY <2>1, <2>2, TerminalType
  <2>4. /\ pending' = None /\ active_operation_id' = 0
        /\ UNCHANGED <<latest_sequence, next_operation_id>>
        /\ terminal' = IF pending.sequence = latest_sequence
                         THEN Terminal(pending, r) ELSE terminal
        /\ action' = MakeAction(None, Terminal(pending, r), 0)
    BY <1>2 DEF CompleteAwaited, complete_pending
  <2>5. \/ state' = "ACTIVE" /\ motion_session_id' = motion_session_id
        \/ state' = "NO_SESSION" /\ motion_session_id' = 0
    BY <1>2 DEF CompleteAwaited
  <2>6. action' \in Actions
    BY <1>0, <2>3, <2>4, ActionType
  <2> HIDE DEF r
  <2>7. TypeOK'
    BY <1>0, <2>3, <2>4, <2>5, <2>6, SessionAssumption
       DEF LifecycleInv, TypeOK, ReceiverTypeOK, States
  <2>8. OperationOwnership'
    BY <2>4, <2>5 DEF OperationOwnership
  <2>9. FrontierExplained'
    <3>1. Terminal(pending, r) # None
      BY <2>3, NoneAssumption
    <3>2. latest_sequence # None
      BY <2>2, NoneAssumption DEF LifecycleInv, FrontierExplained
    <3>3. CASE pending.sequence = latest_sequence
      <4>1. AnsweredFrontier'
        BY <2>3, <2>4, <3>1, <3>3 DEF AnsweredFrontier
      <4> QED
        BY <2>4, <3>2, <4>1 DEF FrontierExplained
    <3>4. CASE pending.sequence # latest_sequence
      <4>1. AnsweredFrontier
        BY <3>2, <3>4 DEF LifecycleInv, FrontierExplained, PendingFrontier
      <4>2. AnsweredFrontier'
        BY <2>4, <3>4, <4>1 DEF AnsweredFrontier
      <4> QED
        BY <2>4, <3>2, <4>2 DEF FrontierExplained
    <3> QED
      BY <3>3, <3>4
  <2> QED
    BY <2>7, <2>8, <2>9 DEF LifecycleInv
<1> QED
  BY <1>1, <1>2 DEF complete_operation

\* reset preserves the invariant.
LEMMA ResetPreserves ==
  ASSUME LifecycleInv, Reset
  PROVE  LifecycleInv'
<1>1. 0 \in OperationIds
  BY OperationAssumption DEF OperationIds
<1> QED
  BY <1>1, NoActionType, SessionAssumption
     DEF LifecycleInv, Reset, reset, receiver_reset, TypeOK, ReceiverTypeOK, States,
         OperationOwnership, FrontierExplained

\* init establishes the invariant.
LEMMA InitEstablishes ==
  ASSUME Init
  PROVE  LifecycleInv
<1>1. 0 \in OperationIds
  BY OperationAssumption DEF OperationIds
<1> QED
  BY <1>1, NoActionType, SessionAssumption
     DEF LifecycleInv, Init, receiver_init, TypeOK, ReceiverTypeOK, States,
         OperationOwnership, FrontierExplained

\* Every step of the coordinator preserves its invariant.
LEMMA NextPreserves ==
  ASSUME LifecycleInv, [Next]_vars
  PROVE  LifecycleInv'
<1>1. CASE \E t \in Transactions : handle_transaction(t)
  BY <1>1, HandlePreserves
<1>2. CASE \E id \in OperationIds, result \in OperationResults :
             complete_operation(id, result)
  BY <1>2, CompletePreserves
<1>3. CASE Reset
  BY <1>3, ResetPreserves
<1>4. CASE Return
  BY <1>4, NoActionType, QuietPreserves DEF Return
<1>5. CASE UNCHANGED vars
  <2>1. action' \in Actions
    BY <1>5 DEF vars, LifecycleInv, TypeOK
  <2> QED
    BY <1>5, <2>1, QuietPreserves DEF vars
<1> QED
  BY <1>1, <1>2, <1>3, <1>4, <1>5 DEF Next

\* The coordinator keeps its types, its pending transaction, its stop operation
\* and its state in step, and its sequence frontier explained, whatever
\* transactions, completions and resets it is given.
THEOREM CoordinatorInvariant ==
  Spec => [](TypeOK /\ OperationOwnership /\ FrontierExplained)
<1>1. Init => LifecycleInv
  BY InitEstablishes
<1>2. LifecycleInv /\ [Next]_vars => LifecycleInv'
  BY NextPreserves
<1>3. LifecycleInv => TypeOK /\ OperationOwnership /\ FrontierExplained
  BY DEF LifecycleInv
<1> QED
  BY <1>1, <1>2, <1>3, PTL DEF Spec

\* What a NEW transaction does, by kind of handler.
LEMMA NewKinds ==
  ASSUME LifecycleInv, NEW t \in Transactions, HandleNew(t)
  PROVE  \/ BeginEnsureStopped(t) /\ pending = None
         \/ \E r \in Results : AnswerNow(t, r) /\ t # pending
         \/ Supersede(t) /\ pending \in Transactions
<1> USE DEF Results, LifecycleInv, OperationOwnership
<1>0. pending # None => pending \in Transactions
  BY DEF TypeOK, ReceiverTypeOK
<1>1. CASE \/ handle_start_no_session(t)
           \/ handle_start_replacing_active(t)
           \/ handle_end_active(t)
  BY <1>1 DEF handle_start_no_session, handle_start_replacing_active, handle_end_active
<1>2. CASE \/ handle_start_already_active(t)
           \/ handle_end_session_mismatch(t)
           \/ handle_end_no_session(t)
           \/ handle_start_while_ending(t)
           \/ handle_invalid_command(t)
  <2>1. t # None
    BY NoneAssumption
  <2>2. t # pending
    BY <1>2, <2>1 DEF handle_start_already_active, handle_end_session_mismatch,
       handle_end_no_session, handle_start_while_ending, handle_invalid_command
  <2>3. \E r \in Results : AnswerNow(t, r)
    BY <1>2 DEF handle_start_already_active, handle_end_session_mismatch,
       handle_end_no_session, handle_start_while_ending, handle_invalid_command
  <2> QED
    BY <2>2, <2>3
<1>3. CASE \/ handle_start_while_starting(t)
           \/ handle_end_while_starting(t)
           \/ handle_end_while_ending(t)
  BY <1>0, <1>3 DEF handle_start_while_starting, handle_end_while_starting,
     handle_end_while_ending
<1> QED
  BY <1>1, <1>2, <1>3 DEF HandleNew

\* The returned action, field by field.
LEMMA ActionFields ==
  ASSUME NEW ack, NEW response, NEW id
  PROVE  /\ MakeAction(ack, response, id).ack = ack
         /\ MakeAction(ack, response, id).response = response
         /\ MakeAction(ack, response, id).operation_id = id
BY DEF MakeAction

\* Only BeginEnsureStopped hands out an operation; nothing else moves
\* next_operation_id.
LEMMA ReceiveOperation ==
  ASSUME LifecycleInv, NEW t \in Transactions, handle_transaction(t)
  PROVE  \/ /\ action'.operation_id = FreshOperationId
            /\ next_operation_id' = FreshOperationId
            /\ active_operation_id' = FreshOperationId
         \/ /\ action'.operation_id = 0
            /\ UNCHANGED <<next_operation_id, active_operation_id>>
<1>1. CASE HandleNew(t)
  <2>1. CASE BeginEnsureStopped(t)
    BY <2>1, ActionFields DEF BeginEnsureStopped
  <2>2. CASE \E r \in Results : AnswerNow(t, r)
    BY <2>2, ActionFields DEF AnswerNow
  <2>3. CASE Supersede(t)
    BY <2>3, ActionFields DEF Supersede
  <2> QED
    BY <1>1, <2>1, <2>2, <2>3, NewKinds
<1>2. CASE HandlePendingRetry(t) \/ HandleCompletedRetry(t) \/ HandleIgnored(t)
  BY <1>2, ActionFields DEF HandlePendingRetry, HandleCompletedRetry, HandleIgnored,
     NoAction, coordinator
<1> QED
  BY <1>1, <1>2 DEF handle_transaction

(***************************************************************************)
(* The coordinator with its partners: the answers it gives and the         *)
(* operations it awaits, for an unreliable peer and executor               *)
(***************************************************************************)

\* A cached answer to the watched transaction is the verdict it was given.
VerdictCached ==
  terminal # None /\ terminal.transaction = watched => verdict = terminal.result

VerdictInv ==
  /\ watched \in Transactions
  /\ verdict \in Verdicts
  /\ OpenIffPending
  /\ VerdictCached
  /\ AnswersAlike

\* The identifier of an operation tells how many were handed out since, as
\* long as it is younger than the identifier space.
OutstandingInv ==
  /\ outstanding \subseteq Operations
  /\ active_operation_id \in {0, next_operation_id}
  /\ \A o \in outstanding :
       /\ next_operation_id \in {o.id + o.age, o.id + o.age - (OperationMod - 1)}
       /\ o.age = 0 /\ active_operation_id # 0 => o.current

HistoryInv == LifecycleInv /\ VerdictInv /\ OutstandingInv

\* A transaction accepted as new keeps the verdict on the watched one right.
LEMMA AcceptPreservesVerdict ==
  ASSUME LifecycleInv, VerdictInv, NEW t \in Transactions, HandleNew(t),
         ObserveAccepted(t), UNCHANGED watched
  PROVE  VerdictInv'
<1> USE DEF VerdictInv, Answers
<1>0. watched # None /\ None \notin Terminals
  BY NoneAssumption
<1>1. CASE BeginEnsureStopped(t) /\ pending = None
  <2>1. /\ pending' = t /\ terminal' = None
        /\ action' = MakeAction(t, None, FreshOperationId)
    BY <1>1 DEF BeginEnsureStopped, begin_pending
  <2>2. action'.response = None
    BY <2>1, ActionFields
  <2>3. verdict' = IF t = watched THEN "open" ELSE verdict
    BY <2>1, <2>2 DEF ObserveAccepted
  <2>4. verdict' \in Verdicts /\ OpenIffPending'
    BY <1>0, <1>1, <2>1, <2>3 DEF OpenIffPending, Verdicts
  <2> QED
    BY <2>1, <2>2, <2>4 DEF VerdictCached, AnswersAlike
<1>2. CASE \E r \in Results : AnswerNow(t, r) /\ t # pending
  <2> PICK r \in Results : AnswerNow(t, r) /\ t # pending
    BY <1>2
  <2>1. /\ pending' = pending /\ terminal' = Terminal(t, r)
        /\ action' = MakeAction(t, Terminal(t, r), 0)
    BY DEF AnswerNow, record_immediate_terminal
  <2>2. action'.response = Terminal(t, r)
    BY <2>1, ActionFields
  <2>3. /\ Terminal(t, r) # None /\ Terminal(t, r).transaction = t
        /\ Terminal(t, r).result = r
    BY <1>0, TerminalType
  <2>4. verdict' = IF t = watched THEN r ELSE verdict
    BY <2>1, <2>2, <2>3 DEF ObserveAccepted
  <2>5. r # "open" /\ r \in Verdicts
    BY DEF Results, Verdicts
  <2>6. verdict' \in Verdicts /\ OpenIffPending'
    BY <1>0, <2>1, <2>4, <2>5 DEF OpenIffPending
  <2>7. VerdictCached' /\ AnswersAlike'
    BY <2>1, <2>2, <2>3, <2>4 DEF VerdictCached, AnswersAlike
  <2> QED
    BY <2>6, <2>7
<1>3. CASE Supersede(t) /\ pending \in Transactions
  <2>1. /\ pending' = t /\ terminal' = None
        /\ action' = MakeAction(t, Terminal(pending, "SUPERSEDED"), 0)
    BY <1>3 DEF Supersede, begin_pending
  <2>2. action'.response = Terminal(pending, "SUPERSEDED") /\ action'.ack = t
    BY <2>1, ActionFields
  <2>3. /\ Terminal(pending, "SUPERSEDED") # None
        /\ Terminal(pending, "SUPERSEDED").transaction = pending
        /\ Terminal(pending, "SUPERSEDED").result = "SUPERSEDED"
    BY <1>0, <1>3, TerminalType DEF Results
  <2>4. verdict' = CASE t = watched -> "open"
                     [] t # watched /\ pending = watched -> "SUPERSEDED"
                     [] OTHER -> verdict
    BY <2>1, <2>2, <2>3 DEF ObserveAccepted, OpenIffPending
  <2>5. verdict' \in Verdicts /\ OpenIffPending'
    BY <1>0, <2>1, <2>4 DEF OpenIffPending, Verdicts, Results
  <2>6. VerdictCached' /\ AnswersAlike'
    BY <2>1, <2>2, <2>3, <2>4 DEF VerdictCached, AnswersAlike
  <2> QED
    BY <2>5, <2>6
<1> QED
  BY <1>1, <1>2, <1>3, NewKinds

\* So does a retry or an ignored transaction, which changes no verdict.
LEMMA RetryPreservesVerdict ==
  ASSUME LifecycleInv, VerdictInv, NEW t \in Transactions, handle_transaction(t),
         classify(t) # "NEW", UNCHANGED <<verdict, watched>>
  PROVE  VerdictInv'
<1> USE DEF VerdictInv, Answers
<1>1. UNCHANGED coordinator
  BY DEF handle_transaction, HandleNew, HandlePendingRetry, HandleCompletedRetry,
         HandleIgnored
<1>2. action'.response \in {None, terminal}
  BY ActionFields DEF handle_transaction, HandleNew, HandlePendingRetry,
     HandleCompletedRetry, HandleIgnored, NoAction
<1>3. AnswersAlike'
  BY <1>1, <1>2 DEF AnswersAlike, VerdictCached, coordinator
<1> QED
  BY <1>1, <1>3 DEF OpenIffPending, VerdictCached, coordinator

\* Receiving any transaction keeps the verdict on the watched one right.
LEMMA ReceivePreservesVerdict ==
  ASSUME LifecycleInv, VerdictInv, NEW t \in Transactions, ReceiveTransaction(t)
  PROVE  VerdictInv'
<1>1. CASE classify(t) = "NEW"
  <2>1. HandleNew(t) /\ ObserveAccepted(t) /\ UNCHANGED watched
    BY <1>1 DEF ReceiveTransaction, handle_transaction, HandlePendingRetry, HandleCompletedRetry,
                HandleIgnored
  <2> QED
    BY <2>1, AcceptPreservesVerdict
<1>2. CASE classify(t) # "NEW"
  BY <1>2, RetryPreservesVerdict DEF ReceiveTransaction
<1> QED
  BY <1>1, <1>2

\* So does a completion, which answers the pending transaction.
LEMMA CompletePreservesVerdict ==
  ASSUME LifecycleInv, VerdictInv, NEW o \in outstanding, NEW result \in OperationResults,
         Complete(o, result)
  PROVE  VerdictInv'
<1> USE DEF VerdictInv, Answers
<1>0. watched # None /\ None \notin Terminals
  BY NoneAssumption
<1>1. CASE CompleteIgnored(o.id)
  <2>1. action'.response = None
    BY <1>1, ActionFields DEF CompleteIgnored, NoAction
  <2> QED
    BY <1>1, <2>1 DEF Complete, CompleteIgnored, OpenIffPending, VerdictCached,
       AnswersAlike, coordinator
<1>2. CASE CompleteAwaited(o.id, result)
  <2> DEFINE r == CompletionResult(result)
  <2>1. r \in Results
    BY DEF CompletionResult, Results
  <2>2. pending \in Transactions
    BY <1>2 DEF CompleteAwaited, CompletionAwaited, LifecycleInv, TypeOK, ReceiverTypeOK
  <2>3. /\ Terminal(pending, r) # None /\ Terminal(pending, r).transaction = pending
        /\ Terminal(pending, r).result = r
    BY <1>0, <2>1, <2>2, TerminalType
  <2>4. /\ pending' = None
        /\ terminal' \in {terminal, Terminal(pending, r)}
        /\ action' = MakeAction(None, Terminal(pending, r), 0)
    BY <1>2 DEF CompleteAwaited, complete_pending
  <2>5. action'.response = Terminal(pending, r)
    BY <2>4, ActionFields
  <2> HIDE DEF r
  <2>6. verdict' = IF pending = watched THEN r ELSE verdict
    BY <2>3, <2>5 DEF Complete
  <2>7. r # "open" /\ r \in Verdicts
    BY <2>1 DEF Results, Verdicts
  <2>8. verdict' \in Verdicts /\ OpenIffPending' /\ UNCHANGED watched
    BY <1>0, <2>4, <2>6, <2>7 DEF OpenIffPending, Complete
  <2>9. VerdictCached'
    <3>1. terminal # None /\ terminal.transaction = watched => pending # watched
      BY <2>2 DEF VerdictCached, OpenIffPending, Terminals, Results, LifecycleInv, TypeOK,
         ReceiverTypeOK
    <3> QED
      BY <2>3, <2>4, <2>6, <2>8, <3>1 DEF VerdictCached
  <2>10. AnswersAlike'
    BY <2>3, <2>5, <2>6, <2>8 DEF AnswersAlike
  <2> QED
    BY <2>8, <2>9, <2>10
<1> QED
  BY <1>1, <1>2 DEF Complete, complete_operation

\* So does a reset, which forgets every verdict.
LEMMA EpochPreservesVerdict ==
  ASSUME VerdictInv, StartEpoch
  PROVE  VerdictInv'
<1>1. action'.response = None
  BY ActionFields DEF StartEpoch, Reset, NoAction
<1>2. pending' = None /\ terminal' = None /\ verdict' = "none" /\ watched' = watched
  BY DEF StartEpoch, Reset, reset, receiver_reset
<1>3. watched # None
  BY NoneAssumption DEF VerdictInv
<1> QED
  BY <1>1, <1>2, <1>3
     DEF VerdictInv, OpenIffPending, VerdictCached, AnswersAlike, Answers, Verdicts

\* The awaited operation is the newest after any transaction.
LEMMA ReceivePreservesOutstanding ==
  ASSUME LifecycleInv, OutstandingInv, NEW t \in Transactions, ReceiveTransaction(t)
  PROVE  OutstandingInv'
<1> USE OperationAssumption DEF OutstandingInv, Operations, OperationIds
<1>1. next_operation_id \in OperationIds /\ FreshOperationId \in OperationIds \ {0}
  BY FreshOperationIdType DEF LifecycleInv, TypeOK
<1>2. CASE /\ action'.operation_id = 0
           /\ UNCHANGED <<next_operation_id, active_operation_id>>
  BY <1>2 DEF ReceiveTransaction, ObserveOperation
<1>3. CASE /\ action'.operation_id = FreshOperationId
           /\ next_operation_id' = FreshOperationId
           /\ active_operation_id' = FreshOperationId
  <2> DEFINE newest == Operation(FreshOperationId, 0, TRUE)
  <2>1. outstanding' = Aged \cup {newest}
    BY <1>1, <1>3 DEF ReceiveTransaction, ObserveOperation
  <2>2. newest \in Operations /\ newest.id = FreshOperationId /\ newest.age = 0 /\ newest.current
    BY <1>1 DEF Operation
  <2>3. ASSUME NEW o \in Aged
        PROVE  /\ o \in Operations /\ o.age # 0
               /\ FreshOperationId \in {o.id + o.age, o.id + o.age - (OperationMod - 1)}
    <3>1. PICK p \in outstanding : p.age < OperationMod - 2 /\ o = Operation(p.id, p.age + 1, p.current)
      BY <2>3 DEF Aged
    <3>2. o.id = p.id /\ o.age = p.age + 1 /\ o.current = p.current
      BY <3>1 DEF Operation
    <3>3. p \in Operations
      OBVIOUS
    <3>4. o \in Operations
      BY <3>1, <3>3 DEF Operation
    <3> QED
      BY <1>1, <3>1, <3>2, <3>3, <3>4 DEF FreshOperationId
  <2> HIDE DEF newest
  <2>4. ASSUME NEW o \in outstanding'
        PROVE  /\ o \in Operations
               /\ FreshOperationId \in {o.id + o.age, o.id + o.age - (OperationMod - 1)}
               /\ o.age = 0 => o.current
    <3>1. CASE o \in Aged
      BY <2>3, <3>1
    <3>2. CASE o = newest
      BY <1>1, <2>2, <3>2
    <3> QED
      BY <2>1, <3>1, <3>2
  <2>5. outstanding' \subseteq Operations
    BY <2>4
  <2> QED
    BY <1>3, <2>4, <2>5
<1> QED
  BY <1>2, <1>3, ReceiveOperation DEF ReceiveTransaction

\* A completion hands out no operation.
LEMMA CompletePreservesOutstanding ==
  ASSUME OutstandingInv, NEW o \in outstanding, NEW result \in OperationResults,
         Complete(o, result)
  PROVE  OutstandingInv'
<1>1. /\ UNCHANGED <<outstanding, next_operation_id>>
      /\ active_operation_id' \in {0, active_operation_id}
  BY DEF Complete, complete_operation, CompleteAwaited, CompleteIgnored, coordinator
<1> QED
  BY <1>1 DEF OutstandingInv

\* A reset awaits nothing.
LEMMA EpochPreservesOutstanding ==
  ASSUME OutstandingInv, StartEpoch
  PROVE  OutstandingInv'
<1>1. UNCHANGED next_operation_id /\ active_operation_id' = 0
  BY DEF StartEpoch, Reset, reset
<1>2. ASSUME NEW o \in outstanding'
      PROVE  \E p \in outstanding : o = Operation(p.id, p.age, FALSE)
  BY <1>2 DEF StartEpoch
<1>3. ASSUME NEW o \in outstanding'
      PROVE  /\ o \in Operations
             /\ next_operation_id \in {o.id + o.age, o.id + o.age - (OperationMod - 1)}
  <2>1. PICK p \in outstanding : o = Operation(p.id, p.age, FALSE)
    BY <1>2
  <2>2. p \in Operations
    BY DEF OutstandingInv
  <2> QED
    BY <2>1, <2>2 DEF OutstandingInv, Operation, Operations
<1> QED
  BY <1>1, <1>3 DEF OutstandingInv

\* Every step of the closed system preserves the invariant.
LEMMA HistoryNextPreserves ==
  ASSUME HistoryInv, [HistoryNext]_historyVars
  PROVE  HistoryInv'
<1> USE DEF HistoryInv
<1>1. ASSUME NEW t \in Transactions, ReceiveTransaction(t)
      PROVE  HistoryInv'
  BY <1>1, HandlePreserves, ReceivePreservesVerdict, ReceivePreservesOutstanding
     DEF ReceiveTransaction
<1>2. ASSUME NEW o \in outstanding, NEW result \in OperationResults, Complete(o, result)
      PROVE  HistoryInv'
  <2>1. o.id \in OperationIds
    BY DEF OutstandingInv, Operations
  <2>2. LifecycleInv'
    BY <1>2, <2>1, CompletePreserves DEF Complete
  <2> QED
    BY <1>2, <2>2, CompletePreservesVerdict, CompletePreservesOutstanding
<1>3. CASE StartEpoch
  BY <1>3, ResetPreserves, EpochPreservesVerdict, EpochPreservesOutstanding
     DEF StartEpoch
<1>4. CASE UNCHANGED historyVars
  <2>1. action' \in Actions /\ UNCHANGED coordinator
    BY <1>4 DEF historyVars, LifecycleInv, TypeOK
  <2>2. LifecycleInv'
    BY <2>1, QuietPreserves
  <2>3. VerdictInv'
    BY <1>4 DEF historyVars, coordinator, VerdictInv, OpenIffPending, VerdictCached,
       AnswersAlike, Answers
  <2>4. OutstandingInv'
    BY <1>4 DEF historyVars, coordinator, OutstandingInv
  <2> QED
    BY <2>2, <2>3, <2>4
<1> QED
  BY <1>1, <1>2, <1>3, <1>4 DEF HistoryNext

\* The inductive invariant holds in every state of the closed system.
LEMMA HistoryInvariant == HistorySpec => []HistoryInv
<1>1. HistoryInit => HistoryInv
  <2> SUFFICES ASSUME HistoryInit PROVE HistoryInv
    OBVIOUS
  <2>1. LifecycleInv
    BY InitEstablishes DEF HistoryInit
  <2>2. VerdictInv
    <3>1. action.response = None /\ pending = None /\ terminal = None
      BY ActionFields DEF HistoryInit, Init, receiver_init, NoAction
    <3>2. watched \in Transactions /\ watched # None
      BY WatchableAssumption, NoneAssumption DEF HistoryInit
    <3> QED
      BY <3>1, <3>2 DEF HistoryInit, VerdictInv, OpenIffPending, VerdictCached,
         AnswersAlike, Answers, Verdicts
  <2>3. OutstandingInv
    BY DEF HistoryInit, Init, OutstandingInv
  <2> QED
    BY <2>1, <2>2, <2>3 DEF HistoryInv
<1>2. HistoryInv /\ [HistoryNext]_historyVars => HistoryInv'
  BY HistoryNextPreserves
<1> QED
  BY <1>1, <1>2, PTL DEF HistorySpec

\* Types of coordinator and history.
THEOREM HistoryTypes == HistorySpec => []HistoryTypeOK
<1>1. HistoryInv => HistoryTypeOK
  BY DEF HistoryInv, LifecycleInv, VerdictInv, OutstandingInv, HistoryTypeOK
<1> QED
  BY <1>1, HistoryInvariant, PTL

\* An accepted START_SESSION or END_SESSION is unanswered exactly while it is
\* pending: none is dropped and none is answered early.
THEOREM AcceptedIsAnswered == HistorySpec => []OpenIffPending
<1>1. HistoryInv => OpenIffPending
  BY DEF HistoryInv, VerdictInv
<1> QED
  BY <1>1, HistoryInvariant, PTL

\* A frontier that is explained is recognised: the transaction that explains it
\* classifies as a retry of the answered or of the pending one.
LEMMA FrontierRecognised ==
  ASSUME LifecycleInv
  PROVE  NewestRecognised
<1> SUFFICES ASSUME latest_sequence # None
             PROVE  \E t \in Transactions : t.sequence = latest_sequence /\ Recognised(t)
  BY DEF NewestRecognised
<1>1. latest_sequence \in Sequences
  BY DEF LifecycleInv, TypeOK, ReceiverTypeOK
<1>2. motion_sequence_classify(latest_sequence, latest_sequence) = "SAME"
  <2>1. /\ SequenceMod \in Nat \ {0} /\ latest_sequence \in Nat
        /\ latest_sequence - latest_sequence + SequenceMod = SequenceMod
    BY <1>1, SequenceAssumption DEF Sequences, SequenceMod
  <2>2. SequenceMod % SequenceMod = 0
    BY <2>1
  <2> QED
    BY <2>1, <2>2 DEF motion_sequence_classify
<1>3. CASE AnsweredFrontier
  <2> DEFINE t == terminal.transaction
  <2>1. t \in Transactions /\ t.sequence = latest_sequence
    BY <1>3 DEF AnsweredFrontier, LifecycleInv, TypeOK, ReceiverTypeOK, Terminals
  <2>2. classify(t) = "COMPLETED_RETRY"
    BY <1>2, <1>3, <2>1 DEF classify, ClassifySame
  <2> QED
    BY <2>1, <2>2 DEF Recognised
<1>4. CASE ~AnsweredFrontier /\ PendingFrontier
  <2>1. pending \in Transactions /\ pending.sequence = latest_sequence
    BY <1>4 DEF PendingFrontier, LifecycleInv, TypeOK, ReceiverTypeOK
  <2>2. classify(pending) = "PENDING_RETRY"
    BY <1>2, <1>4, <2>1 DEF classify, ClassifySame
  <2> QED
    BY <2>1, <2>2 DEF Recognised
<1> QED
  BY <1>3, <1>4 DEF LifecycleInv, FrontierExplained

\* The newest transaction is always recognised when it is repeated, and all
\* answers to one accepted transaction agree, retries included.
THEOREM AnswersNeverDiffer == HistorySpec => []AnswersAgree
<1>1. HistoryInv => AnswersAgree
  BY FrontierRecognised DEF HistoryInv, VerdictInv, AnswersAgree
<1> QED
  BY <1>1, HistoryInvariant, PTL

\* A completion that is late, repeated, or from before a reset is never the
\* one the coordinator awaits, for every size of the identifier space.
THEOREM StaleCompletionNeverAwaited == HistorySpec => []AwaitedIsNewest
<1>1. HistoryInv => AwaitedIsNewest
  <2> SUFFICES ASSUME HistoryInv, NEW o \in outstanding, o.id = active_operation_id
               PROVE  o.age = 0 /\ o.current
    BY DEF AwaitedIsNewest
  <2>1. o \in Operations /\ active_operation_id = next_operation_id /\ o.id # 0
    BY DEF HistoryInv, OutstandingInv, Operations
  <2>2. next_operation_id \in {o.id + o.age, o.id + o.age - (OperationMod - 1)}
    BY DEF HistoryInv, OutstandingInv
  <2>3. o.age = 0
    BY <2>1, <2>2, OperationAssumption DEF Operations, OperationIds
  <2> QED
    BY <2>1, <2>3 DEF HistoryInv, OutstandingInv
<1> QED
  BY <1>1, HistoryInvariant, PTL

=============================================================================
