----------------------------- MODULE WheelDrive -----------------------------
(***************************************************************************)
(* From a velocity frame to the pins: the part of                          *)
(* stm32_motion_protocol_manager_handle_frame that decodes and converts an *)
(* accepted WHEEL_VELOCITY and hands it to the motor driver.               *)
(***************************************************************************)
EXTENDS Dri0041Driver, WheelVelocity

CONSTANT
  Velocities  \* the velocities the Raspberry Pi asks for, some of Int16

ASSUME DriveAssumption == Wheels = {"left", "right"} /\ Velocities \subseteq Int16

VARIABLES
  requested,  \* history: velocities of the frame the driver took last
  motor       \* signed duty it took for each wheel

driveVars == <<driverVars, requested, motor>>

AtRest == [w \in Wheels |-> 0]

DriveInit == motor_driver_init /\ requested = AtRest /\ motor = AtRest

direction_from_command(command) ==
  CASE command > 0 -> "FORWARD"
    [] command < 0 -> "REVERSE"
    [] OTHER -> "STOPPED"

\* dri0041_control_from_command refuses anything else, and nothing changes.
InRange(command) == \A w \in Wheels : command[w] \in -CommandMax .. CommandMax

WheelVelocityFrame(velocity) ==
  LET command == convert(Decoded(Encoded(velocity)))
      request == [w \in Wheels |-> direction_from_command(command[w])]
  IN  /\ InRange(command)
      /\ \/ Apply(request) /\ requested' = velocity /\ motor' = command
         \/ ApplyFailed(request) /\ UNCHANGED <<requested, motor>>

DriveStop == motor_driver_stop /\ requested' = AtRest /\ motor' = AtRest

DriveLater(d) == DriverLater(d) /\ UNCHANGED <<requested, motor>>

DriveNext ==
  \/ \E velocity \in [Wheels -> Velocities] : WheelVelocityFrame(velocity)
  \/ DriveStop
  \/ \E d \in 1 .. MaxStall : DriveLater(d)

DriveSpec == DriveInit /\ [][DriveNext]_driveVars

(***************************************************************************)
(* Property                                                                *)
(***************************************************************************)

\* A motor command for this velocity: zero for zero, else of the same sign and
\* between the end of the dead zone and full scale.
Suits(command, velocity) ==
  /\ velocity = 0 <=> command = 0
  /\ velocity < 0 <=> command < 0
  /\ command # 0 => Magnitude(command) \in MinimumStart .. CommandMax

\* What the wheels do is what the Raspberry Pi asked for last and the driver
\* took, the least int16_t included: each wheel turns the way it was asked to, or
\* is held back, and gets no duty only when asked to stand still; the wheel asked
\* to turn faster never gets the lower duty, across sign, dead zone, saturation and
\* rounding.
VelocityFaithful ==
  /\ \A w \in Wheels : Suits(motor[w], requested[w])
  /\ \A v, w \in Wheels : requested[v] <= requested[w] => motor[v] <= motor[w]
  /\ \A w \in Wheels :
       output[w] # "STOPPED" => output[w] = direction_from_command(requested[w])

=============================================================================
