------------------------- MODULE MotionCommandGuard -------------------------
(***************************************************************************)
(* The only path from the protocol to the motors                           *)
(* (firmware/stm32/App/Src/motion_command_guard.c), with the command       *)
(* watchdog it owns (motion_watchdog.c) and the motor driver below it.     *)
(*                                                                         *)
(* The driver is modelled by which wheels it was last told to drive; one   *)
(* that it brakes before a reversal counts as driven.  A driver call       *)
(* either succeeds or fails; a failed call may have changed some wheels.   *)
(***************************************************************************)
EXTENDS Ticks

CONSTANTS
  Wheels,        \* the driven wheels (left and right)
  MotionTimeout  \* MOTION_COMMAND_TIMEOUT_MS

ASSUME MotionTimeoutAssumption ==
  /\ MotionTimeout \in Nat \ {0}
  /\ MotionTimeout + MaxStall < ClockMod

VARIABLES
  driven,        \* wheels whose last driver command was non-zero
  stop_pending,  \* a stop failed and has to be repeated
  watchdog       \* age of the last motion command while armed, else None

guard == <<driven, stop_pending, watchdog>>

GuardTypeOK ==
  /\ driven \subseteq Wheels
  /\ stop_pending \in BOOLEAN
  /\ watchdog \in Ages \cup {None}

guard_init ==
  /\ driven = {}
  /\ stop_pending = FALSE
  /\ watchdog = None

watchdog_expired == watchdog # None /\ watchdog >= MotionTimeout

\* Faulty variant: a failed stop is forgotten.
try_stop_once(stopped) ==
  /\ driven' \in IF stopped THEN {{}} ELSE SUBSET driven
  /\ watchdog' = IF stopped THEN None ELSE watchdog
  /\ stop_pending' = FALSE

\* motor_driver_stop succeeds, or fails with some wheels possibly left powered.
try_stop(stopped) ==
  \/ /\ stopped
     /\ driven' = {}
     /\ watchdog' = None
     /\ stop_pending' = FALSE
  \/ /\ ~stopped
     /\ driven' \in SUBSET driven
     /\ stop_pending' = TRUE
     /\ UNCHANGED watchdog

guard_stop(stopped) == try_stop(stopped)

\* command is the set of wheels with a non-zero command.
ApplyAccepted(command) ==
  /\ ~stop_pending
  /\ driven' = command
  /\ watchdog' = IF command = {} THEN None ELSE 0
  /\ UNCHANGED stop_pending

\* The driver refuses the command, perhaps half applied; the guard then stops.
ApplyRefused(command, stopped) ==
  /\ ~stop_pending
  /\ stop_pending' = ~stopped
  /\ driven' \in IF stopped THEN {{}} ELSE SUBSET (driven \cup command)
  /\ watchdog' = IF stopped THEN None ELSE watchdog

\* While a stop is owed, no command reaches the driver.
ApplyBlocked == stop_pending /\ UNCHANGED guard

\* Faulty variant: the watchdog is never looked at.
guard_update_due_stop_only == stop_pending

guard_update_due == stop_pending \/ watchdog_expired

guard_update(stopped) ==
  \/ guard_update_due /\ try_stop(stopped)
  \/ ~guard_update_due /\ stopped /\ UNCHANGED guard

guard_later(d) == watchdog' = Later(watchdog, d) /\ UNCHANGED <<driven, stop_pending>>

=============================================================================
