----------------------------- MODULE WheelPort ------------------------------
(***************************************************************************)
(* What the client runner promises the application that calls it           *)
(* (software/rpi/src/stm32_client_runner.cpp): is_synchronized, and the    *)
(* wheel command it holds, which does not survive the loss of a            *)
(* connection.  Stm32ClientRunner implements this specification            *)
(* (ClientRunnerRefinement); ManualControl is built on it.                 *)
(***************************************************************************)
EXTENDS Optional

CONSTANT Freshness  \* age from which a wheel command is not followed any more

ASSUME PortAssumption == Freshness \in Nat

VARIABLES
  synchronized,  \* is_synchronized()
  command        \* the wheel command: whether it moves a wheel, and its age;
                 \* or None

port == <<synchronized, command>>

Command(moving) == [moving |-> moving, age |-> 0]

PortInit ==
  /\ synchronized = FALSE
  /\ command = None

set_wheel_command(moving) ==
  /\ command' = Command(moving)
  /\ UNCHANGED synchronized

\* What a poll may do to the port: nothing that is seen here,
PollKeeps == UNCHANGED port

\* synchronize,
PollConnects ==
  /\ ~synchronized
  /\ synchronized' = TRUE
  /\ UNCHANGED command

\* or lose the connection, or begin a new one.
PollDrops ==
  /\ synchronized' = FALSE
  /\ command' = None

CommandLater ==
  IF command # None /\ command.age < Freshness THEN [command EXCEPT !.age = @ + 1] ELSE command

PortLater ==
  /\ command' = CommandLater
  /\ UNCHANGED synchronized

PortNext ==
  \/ \E moving \in BOOLEAN : set_wheel_command(moving)
  \/ PollConnects
  \/ PollDrops
  \/ PortLater

PortSpec == PortInit /\ [][PortNext]_port

=============================================================================
