---------------------- MODULE MCMotionLifecycleHistory ----------------------
(***************************************************************************)
(* TLC instance of MotionLifecycleHistory.  The behaviours of the receiver *)
(* are the same up to a rotation of the sequence number space, so it is    *)
(* enough to watch the transactions with sequence number 0.                *)
(***************************************************************************)
EXTENDS MotionLifecycleHistory

MCWatchable == {t \in Transactions : t.sequence = 0}

=============================================================================
