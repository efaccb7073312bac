----------------------- MODULE MotionLifecycleHistory -----------------------
(***************************************************************************)
(* The lifecycle coordinator closed with its two partners: a peer that     *)
(* sends, repeats and reorders transactions, and an executor of            *)
(* ENSURE_STOPPED operations that may report a completion late, twice, or  *)
(* after the coordinator was reset.                                        *)
(*                                                                         *)
(* History variables record what the coordinator has promised:             *)
(*   - the fate of one arbitrary transaction, chosen initially;            *)
(*   - every operation handed out, until its identifier can come around    *)
(*     again (age counts the operations handed out since).                 *)
(***************************************************************************)
EXTENDS MotionLifecycleCoordinator

CONSTANT Watchable  \* the transactions that may be chosen for observation

ASSUME WatchableAssumption == Watchable \subseteq Transactions

VARIABLES
  watched,     \* the observed transaction
  verdict,     \* "none", "open" (accepted, unanswered), or its result
  outstanding  \* operations whose completion may still be reported

historyVars == <<coordinator, action, watched, verdict, outstanding>>

Verdicts == {"none", "open"} \cup Results

\* current: handed out since the last reset.
Operations ==
  [id : OperationIds \ {0}, age : 0 .. OperationMod - 2, current : BOOLEAN]

Operation(id, age, current) == [id |-> id, age |-> age, current |-> current]

HistoryTypeOK ==
  /\ TypeOK
  /\ watched \in Transactions
  /\ verdict \in Verdicts
  /\ outstanding \subseteq Operations

HistoryInit ==
  /\ Init
  /\ watched \in Watchable
  /\ verdict = "none"
  /\ outstanding = {}

Answers(t, a) == a.response # None /\ a.response.transaction = t

\* An operation handed out makes the earlier ones older; one as old as the
\* identifier space is forgotten.
Aged ==
  {Operation(o.id, o.age + 1, o.current) :
     o \in {p \in outstanding : p.age < OperationMod - 2}}

ObserveOperation ==
  outstanding' =
    IF action'.operation_id = 0
      THEN outstanding
      ELSE Aged \cup {Operation(action'.operation_id, 0, TRUE)}

\* Transaction t, accepted as new, opens a verdict; an answer closes it.
ObserveAccepted(t) ==
  verdict' =
    CASE t = watched /\ t = pending' -> "open"
      [] t = watched /\ t # pending' -> action'.response.result
      [] t # watched /\ verdict = "open" /\ Answers(watched, action') ->
           action'.response.result
      [] OTHER -> verdict

ReceiveTransaction(t) ==
  /\ handle_transaction(t)
  /\ ObserveOperation
  /\ IF classify(t) = "NEW" THEN ObserveAccepted(t) ELSE UNCHANGED verdict
  /\ UNCHANGED watched

Complete(o, result) ==
  /\ complete_operation(o.id, result)
  /\ verdict' = IF Answers(watched, action') THEN action'.response.result ELSE verdict
  /\ UNCHANGED <<watched, outstanding>>

StartEpoch ==
  /\ Reset
  /\ verdict' = "none"
  /\ outstanding' = {Operation(o.id, o.age, FALSE) : o \in outstanding}
  /\ UNCHANGED watched

HistoryNext ==
  \/ \E t \in Transactions : ReceiveTransaction(t)
  \/ \E o \in outstanding, result \in OperationResults : Complete(o, result)
  \/ StartEpoch

HistorySpec == HistoryInit /\ [][HistoryNext]_historyVars

(***************************************************************************)
(* Properties                                                              *)
(***************************************************************************)

\* An accepted transaction is unanswered exactly while it is the pending one:
\* superseding, completing, interleaved immediate answers and resets never
\* drop a START_SESSION or END_SESSION unanswered, and never leave an
\* answered one pending (motion_reliable_receiver.c, all handlers).
OpenIffPending == (verdict = "open") <=> (pending = watched)

\* Repeated now, t would be recognised, and acknowledged or answered again.
Recognised(t) == classify(t) \in {"PENDING_RETRY", "COMPLETED_RETRY"}

\* The newest transaction is recognised when it comes again, though an older one
\* was completed after it (motion_reliable_receiver_complete_pending keeps the
\* newer cached answer).
NewestRecognised ==
  latest_sequence # None =>
    \E t \in Transactions : t.sequence = latest_sequence /\ Recognised(t)

\* All responses sent for one accepted transaction carry the same result: the
\* cached answer of a retry agrees with the first answer.  The exception is a
\* pending transaction whose sequence number came all the way around and was
\* accepted anew: the old incarnation is answered SUPERSEDED.
AnswersAlike ==
  Answers(watched, action) =>
    \/ action.response.result = verdict
    \/ verdict = "open" /\ action.response.result = "SUPERSEDED" /\ action.ack = watched

\* A retransmission of the newest transaction is answered, and every answer to a
\* transaction is the same: a completion neither displaces the answer of a newer
\* transaction nor changes its own (motion_reliable_receiver.c).
AnswersAgree == NewestRecognised /\ AnswersAlike

\* Only the newest operation, handed out since the last reset, is ever
\* awaited: a completion that is late, repeated or from before a reset cannot
\* complete a later START_SESSION or END_SESSION
\* (motion_lifecycle_coordinator_reset keeps next_operation_id).
AwaitedIsNewest ==
  \A o \in outstanding :
    o.id = active_operation_id => o.age = 0 /\ o.current

=============================================================================
