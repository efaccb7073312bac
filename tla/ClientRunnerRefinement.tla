----------------------- MODULE ClientRunnerRefinement -----------------------
(***************************************************************************)
(* The Raspberry Pi's client runner implements two abstractions of it: to  *)
(* the STM32 it is a MotionClient, to the application a WheelPort.         *)
(*                                                                         *)
(* The mapping to MotionClient forgets the clocks.  A lifecycle command, a *)
(* retry and a heartbeat count as sent when poll begins to transmit them:  *)
(* until the transmission ends, poll does nothing else, and if it fails,   *)
(* the frame was lost and the connection is given up.                      *)
(***************************************************************************)
EXTENDS Stm32ClientRunner

\* The pending transaction without its timer.
Untimed ==
  IF transaction = None
    THEN None
    ELSE [command |-> transaction.command, session |-> transaction.session,
          sequence |-> transaction.sequence, acked |-> transaction.acked,
          retries |-> transaction.retries]

Client == INSTANCE MotionClient WITH transaction <- Untimed

ASSUME NoneIsNoUntimed == None \notin Client!ClientTransactions

\* Every step of the runner, whatever fails in it, is a step of the client that
\* RobotLink composes with the STM32, or changes nothing of it.
ClientImplemented == Client!ClientSpec

Port == INSTANCE WheelPort WITH synchronized <- (runner_state = "Synchronized")

\* To the application the runner is a WheelPort: the command it holds changes
\* only by set_wheel_command, by growing old, and by being dropped together
\* with the connection.
PortImplemented == Port!PortSpec

=============================================================================
