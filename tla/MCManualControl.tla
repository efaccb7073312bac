-------------------------- MODULE MCManualControl ---------------------------
(***************************************************************************)
(* TLC instances of ManualControl.                                         *)
(***************************************************************************)
EXTENDS ManualControl

\* What arming and driving take.  The first also takes permission away when the
\* operator has it, the last when the switch is high too early.
MCInputs ==
  {[switch |-> "low", stick |-> "neutral"], [switch |-> "high", stick |-> "neutral"],
   [switch |-> "high", stick |-> "deflected"]}

=============================================================================
