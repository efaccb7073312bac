--------------------------- MODULE Dri0041Driver ----------------------------
(***************************************************************************)
(* The motor driver (firmware/stm32/App/Src/motor_driver_dri0041.c) and    *)
(* the pins it controls.  A wheel asked to reverse is braked for BrakeTime *)
(* before the new direction reaches the pins.  The driver reads the tick   *)
(* itself, so time passes between any two calls.                           *)
(*                                                                         *)
(* A command is abstracted to its direction per wheel: the duty is its     *)
(* magnitude, zero exactly when the direction is STOPPED.                  *)
(***************************************************************************)
EXTENDS Ticks

CONSTANTS
  Wheels,     \* the driven wheels (left and right)
  BrakeTime   \* DRI0041_REVERSAL_BRAKE_MS

ASSUME BrakeAssumption ==
  /\ BrakeTime \in Nat \ {0}
  /\ BrakeTime + MaxStall < ClockMod

VARIABLES
  direction,  \* the driver's idea of each wheel's direction
  reversal,   \* the reversal each wheel is braking for, or None
  output,     \* direction on each wheel's pins
  facing,     \* history: direction each wheel was last driven in
  braked      \* history: time each wheel has been off, up to BrakeTime

driver == <<direction, reversal>>
pins == <<output, facing, braked>>
driverVars == <<driver, pins>>

Directions == {"STOPPED", "FORWARD", "REVERSE"}

\* age = now_ms - reversal_started_ms.
Reversals == [to : Directions \ {"STOPPED"}, age : Ages]
MakeReversal(to, age) == [to |-> to, age |-> age]

ASSUME NoneIsNoReversal == None \notin Reversals

DriverTypeOK ==
  /\ direction \in [Wheels -> Directions]
  /\ reversal \in [Wheels -> Reversals \cup {None}]
  /\ output \in [Wheels -> Directions]
  /\ facing \in [Wheels -> Directions]
  /\ braked \in [Wheels -> 0 .. BrakeTime]

motor_driver_init ==
  /\ direction = [w \in Wheels |-> "STOPPED"]
  /\ reversal = [w \in Wheels |-> None]
  /\ output = [w \in Wheels |-> "STOPPED"]
  /\ facing = [w \in Wheels |-> "STOPPED"]
  /\ braked = [w \in Wheels |-> BrakeTime]

\* Faulty variant: a reversal is not noticed.
direction_reverses_never(current, requested) == FALSE

direction_reverses(current, requested) ==
  current # "STOPPED" /\ requested # "STOPPED" /\ current # requested

\* Faulty variant: the brake is released one tick early.
HeldBackTooShort(w, requested) ==
  IF reversal[w] = None
    THEN direction_reverses(direction[w], requested)
    ELSE requested = reversal[w].to /\ reversal[w].age + 1 < BrakeTime

\* Wheel w is braked instead of driven as requested: the request starts a
\* reversal, or repeats one whose brake time is not over.
HeldBack(w, requested) ==
  IF reversal[w] = None
    THEN direction_reverses(direction[w], requested)
    ELSE requested = reversal[w].to /\ reversal[w].age < BrakeTime

\* motor_driver_dri0041_port_apply: the pins take the control as a whole.
port_apply(control) ==
  /\ output' = control
  /\ facing' = [w \in Wheels |-> IF control[w] = "STOPPED" THEN facing[w] ELSE control[w]]
  /\ braked' = [w \in Wheels |-> IF control[w] = "STOPPED" THEN braked[w] ELSE 0]

\* motor_driver_apply with a port that takes the control.
Apply(request) ==
  /\ port_apply([w \in Wheels |-> IF HeldBack(w, request[w]) THEN "STOPPED" ELSE request[w]])
  /\ direction' =
       [w \in Wheels |-> IF HeldBack(w, request[w]) THEN direction[w] ELSE request[w]]
  /\ reversal' =
       [w \in Wheels |->
          CASE ~HeldBack(w, request[w]) -> None
            [] HeldBack(w, request[w]) /\ reversal[w] = None -> MakeReversal(request[w], 0)
            [] OTHER -> reversal[w]]

\* motor_driver_apply with a port that refuses: a reversal given up in favour
\* of the old direction is already forgotten.
ApplyFailed(request) ==
  /\ reversal' = [w \in Wheels |-> IF request[w] = direction[w] THEN None ELSE reversal[w]]
  /\ UNCHANGED <<direction, pins>>

motor_driver_stop ==
  /\ port_apply([w \in Wheels |-> "STOPPED"])
  /\ direction' = [w \in Wheels |-> "STOPPED"]
  /\ reversal' = [w \in Wheels |-> None]

ReversalLater(w, d) ==
  IF reversal[w] = None THEN None ELSE MakeReversal(reversal[w].to, Later(reversal[w].age, d))

Off(w, d) == IF braked[w] + d < BrakeTime THEN braked[w] + d ELSE BrakeTime

DriverLater(d) ==
  /\ reversal' = [w \in Wheels |-> ReversalLater(w, d)]
  /\ braked' = [w \in Wheels |-> IF output[w] = "STOPPED" THEN Off(w, d) ELSE 0]
  /\ UNCHANGED <<direction, output, facing>>

DriverNext ==
  \/ \E request \in [Wheels -> Directions] : Apply(request)
  \/ \E request \in [Wheels -> Directions] : ApplyFailed(request)
  \/ motor_driver_stop
  \/ \E d \in 1 .. MaxStall : DriverLater(d)

DriverSpec == motor_driver_init /\ [][DriverNext]_driverVars

(***************************************************************************)
(* Properties                                                              *)
(***************************************************************************)

Opposite(a, b) == {a, b} = {"FORWARD", "REVERSE"}

\* A powered wheel turns the way the driver remembers, and a wheel waiting to
\* reverse is off with the old direction remembered.  A driver that
\* remembered less could not see a reversal coming; a failed port call may
\* leave it remembering more than is on the pins, never less.
DirectionRemembered ==
  \A w \in Wheels :
    /\ output[w] # "STOPPED" => direction[w] = output[w] /\ reversal[w] = None
    /\ reversal[w] # None => Opposite(direction[w], reversal[w].to)

\* No wheel is switched from one direction straight to the other.
NeverStraightAcross ==
  [][\A w \in Wheels : ~Opposite(output[w], output'[w])]_driverVars

\* A reversal the driver is braking for reaches the pins only after the wheel
\* was off for BrakeTime, however calls, port failures and clock readings
\* interleave, also when the tick counter wraps.
BrakeServed ==
  [][\A w \in Wheels :
       reversal[w] # None /\ output'[w] = reversal[w].to => braked[w] = BrakeTime]_driverVars

\* What motor_driver_dri0041_port_stm32.c says of the commands it is given: a
\* wheel that ran one way runs the other way only after the brake interval.
ReversalOnlyAfterBrake ==
  [][\A w \in Wheels :
       Opposite(facing[w], output'[w]) => braked[w] = BrakeTime]_driverVars

=============================================================================
