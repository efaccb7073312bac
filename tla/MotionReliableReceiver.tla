----------------------- MODULE MotionReliableReceiver -----------------------
(***************************************************************************)
(* The receiver half of the reliable motion command protocol               *)
(* (protocol/motion_reliable_receiver.c, motion_sequence.c,                *)
(* motion_transaction.c).  It remembers the newest sequence number it      *)
(* accepted (the frontier), the transaction still being worked on, and     *)
(* the last transaction that was answered with its result, and classifies  *)
(* every incoming transaction against them.                                *)
(*                                                                         *)
(* Sequence numbers are uint16 in the code: 2 * SequenceHalf stands for    *)
(* 2^16, so that wrap-around happens on small instances.                   *)
(***************************************************************************)
EXTENDS Optional

CONSTANTS
  SequenceHalf,      \* half of the sequence number space (0x8000)
  MotionSessionIds   \* session identifiers a command may carry, 0 included

VARIABLES
  latest_sequence,   \* newest accepted sequence number, or None
  pending,           \* accepted transaction not answered yet, or None
  terminal           \* last answered transaction and its result, or None

receiver == <<latest_sequence, pending, terminal>>

SequenceMod == 2 * SequenceHalf
Sequences == 0 .. SequenceMod - 1
Commands == {"START_SESSION", "END_SESSION", "UNKNOWN"}

Transactions ==
  [sequence : Sequences, command : Commands,
   motion_session_id : MotionSessionIds]

Results ==
  {"OK", "ALREADY_ACTIVE", "ALREADY_ENDED", "SESSION_MISMATCH",
   "BUSY_STOPPING", "SUPERSEDED", "STOP_FAILED", "INVALID_COMMAND"}

Terminals == [transaction : Transactions, result : Results]
Terminal(t, r) == [transaction |-> t, result |-> r]

ASSUME SequenceAssumption == SequenceHalf \in Nat \ {0}
ASSUME SessionAssumption == MotionSessionIds \subseteq Nat /\ 0 \in MotionSessionIds
ASSUME NoneAssumption ==
  /\ None \notin Transactions
  /\ None \notin Terminals

ReceiverTypeOK ==
  /\ latest_sequence \in Sequences \cup {None}
  /\ pending \in Transactions \cup {None}
  /\ terminal \in Terminals \cup {None}

(***************************************************************************)
(* Classification                                                          *)
(***************************************************************************)

\* (uint16_t)(candidate - latest): 0 is the same number, the lower half of
\* the number space is newer, the upper half is stale.
motion_sequence_classify(latest, candidate) ==
  LET delta == (candidate - latest + SequenceMod) % SequenceMod
  IN  CASE delta = 0 -> "SAME"
        [] delta \in 1 .. SequenceHalf - 1 -> "NEWER"
        [] OTHER -> "STALE"

AnsweredFrontier == terminal # None /\ terminal.transaction.sequence = latest_sequence
PendingFrontier == pending # None /\ pending.sequence = latest_sequence

\* What an incoming transaction whose number is the frontier's turns out to be.
ClassifySame(t) ==
  CASE AnsweredFrontier ->
         IF terminal.transaction = t THEN "COMPLETED_RETRY" ELSE "COLLISION"
    [] ~AnsweredFrontier /\ PendingFrontier ->
         IF pending = t THEN "PENDING_RETRY" ELSE "COLLISION"
    [] OTHER -> "INVALID"

classify(t) ==
  IF latest_sequence = None
    THEN "NEW"
    ELSE CASE motion_sequence_classify(latest_sequence, t.sequence) = "NEWER" -> "NEW"
           [] motion_sequence_classify(latest_sequence, t.sequence) = "STALE" -> "STALE"
           [] OTHER -> ClassifySame(t)

(***************************************************************************)
(* Operations                                                              *)
(***************************************************************************)

receiver_init ==
  /\ latest_sequence = None
  /\ pending = None
  /\ terminal = None

receiver_reset ==
  /\ latest_sequence' = None
  /\ pending' = None
  /\ terminal' = None

\* A transaction that needs work becomes the frontier; what was answered
\* before is forgotten.
begin_pending(t) ==
  /\ latest_sequence' = t.sequence
  /\ pending' = t
  /\ terminal' = None

\* A transaction answered at once becomes the frontier.  A pending
\* transaction, if any, stays pending behind it.
record_immediate_terminal(t, result) ==
  /\ latest_sequence' = t.sequence
  /\ terminal' = Terminal(t, result)
  /\ UNCHANGED pending

\* Faulty variant: the answer of an older transaction replaces a newer one's.
complete_pending_always_cached(result) ==
  /\ pending # None
  /\ pending' = None
  /\ terminal' = Terminal(pending, result)
  /\ UNCHANGED latest_sequence

\* The pending transaction is answered.  The answer is kept for retries only
\* when no newer transaction has become the frontier meanwhile.
complete_pending(result) ==
  /\ pending # None
  /\ pending' = None
  /\ terminal' = IF pending.sequence = latest_sequence
                   THEN Terminal(pending, result)
                   ELSE terminal
  /\ UNCHANGED latest_sequence

=============================================================================
