----------------------- MODULE RpiMotionCoordinator -------------------------
(***************************************************************************)
(* Motion control on the Raspberry Pi                                      *)
(* (software/rpi/src/motion_coordinator.cpp): who may move the robot       *)
(* (control_state.cpp), whether it is safe (safety_state.cpp), and the     *)
(* timeout of a motion nobody renews (motion_watchdog.cpp).                *)
(*                                                                         *)
(* The motor controller is an interface (i_motor_controller.h).  Every     *)
(* call of it succeeds or fails; a failed call leaves the motors as they   *)
(* were, or has stopped them, or, for set_wheel_velocities, moves them.    *)
(***************************************************************************)
EXTENDS Optional

CONSTANT MotionTimeout  \* MOTION_TIMEOUT

ASSUME MotionTimeoutAssumption == MotionTimeout \in Nat \ {0}

VARIABLES
  authority,       \* who may move the robot
  estop,           \* SafetyState::estop_active_
  hardware_fault,  \* SafetyState::hardware_fault_active_
  watchdog,        \* age of the last accepted motion while armed, up to
                   \* MotionTimeout, else None
  moving           \* the motors turn

safety == <<estop, hardware_fault>>
controlVars == <<authority, safety, watchdog, moving>>

Authorities == {"None", "Autonomous", "Manual"}

ControlTypeOK ==
  /\ authority \in Authorities
  /\ estop \in BOOLEAN
  /\ hardware_fault \in BOOLEAN
  /\ watchdog \in 0 .. MotionTimeout \cup {None}
  /\ moving \in BOOLEAN

ControlInit ==
  /\ authority = "None"
  /\ estop = FALSE
  /\ hardware_fault = FALSE
  /\ watchdog = None
  /\ moving = FALSE

safe == ~estop /\ ~hardware_fault

\* motor_controller_.stop() does (stopped) or does not succeed.
Stop(stopped) == moving' \in IF stopped THEN {FALSE} ELSE {FALSE, moving}

expired == watchdog # None /\ watchdog >= MotionTimeout

(***************************************************************************)
(* Authority                                                               *)
(***************************************************************************)

\* The manual operator takes over at once; motion goes on until the first
\* manual command or the timeout.
request_manual_control ==
  /\ authority' = "Manual"
  /\ UNCHANGED <<safety, watchdog, moving>>

\* Faulty variant: control is released although the motors did not stop.
stop_and_release_anyway(stopped) ==
  /\ Stop(stopped)
  /\ authority' = "None"
  /\ watchdog' = None
  /\ hardware_fault' = (hardware_fault \/ ~stopped)
  /\ UNCHANGED estop

stop_and_release_control(stopped) ==
  /\ Stop(stopped)
  /\ authority' = IF stopped THEN "None" ELSE authority
  /\ watchdog' = IF stopped THEN None ELSE watchdog
  /\ hardware_fault' = (hardware_fault \/ ~stopped)
  /\ UNCHANGED estop

\* Taking over from the manual operator needs a stop in between.
request_autonomous_control(stopped) ==
  \/ /\ authority = "Manual"
     /\ Stop(stopped)
     /\ authority' = IF stopped THEN "Autonomous" ELSE authority
     /\ watchdog' = IF stopped THEN None ELSE watchdog
     /\ hardware_fault' = (hardware_fault \/ ~stopped)
     /\ UNCHANGED estop
  \/ /\ authority # "Manual"
     /\ authority' = "Autonomous"
     /\ UNCHANGED <<safety, watchdog, moving>>

(***************************************************************************)
(* Motion                                                                  *)
(***************************************************************************)

Permitted(requester) == requester # "None" /\ requester = authority

\* request_motion with a velocity that rounds to a stop: allowed when unsafe.
RequestRest(requester, stopped) ==
  /\ Permitted(requester)
  /\ Stop(stopped)
  /\ watchdog' = IF stopped THEN None ELSE watchdog
  /\ hardware_fault' = (hardware_fault \/ ~stopped)
  /\ UNCHANGED <<authority, estop>>

\* request_motion with any other velocity: the motors take it,
RequestAccepted(requester) ==
  /\ Permitted(requester)
  /\ safe
  /\ moving' = TRUE
  /\ watchdog' = 0
  /\ UNCHANGED <<authority, safety>>

\* Faulty variant: a failing motor controller is not a hardware fault.
RequestFailedUnnoticed(requester, stopped) ==
  /\ Permitted(requester)
  /\ safe
  /\ moving' \in IF stopped THEN {FALSE} ELSE BOOLEAN
  /\ UNCHANGED <<authority, safety, watchdog>>

\* or fail to, and are stopped, if they can be.
RequestFailed(requester, stopped) ==
  /\ Permitted(requester)
  /\ safe
  /\ hardware_fault' = TRUE
  /\ moving' \in IF stopped THEN {FALSE} ELSE BOOLEAN
  /\ UNCHANGED <<authority, estop, watchdog>>

request_motion(requester, stopped) ==
  \/ RequestRest(requester, stopped)
  \/ RequestAccepted(requester)
  \/ RequestFailed(requester, stopped)

\* Faulty variant: nobody notices that the timeout did not stop the motors.
tick_unchecked(stopped) ==
  /\ expired
  /\ watchdog' = None
  /\ Stop(stopped)
  /\ UNCHANGED <<authority, safety>>

tick(stopped) ==
  /\ expired
  /\ watchdog' = None
  /\ Stop(stopped)
  /\ hardware_fault' = (hardware_fault \/ ~stopped)
  /\ UNCHANGED <<authority, estop>>

(***************************************************************************)
(* Safety                                                                  *)
(***************************************************************************)

report_estop(stopped) ==
  /\ estop' = TRUE
  /\ watchdog' = None
  /\ Stop(stopped)
  /\ hardware_fault' = (hardware_fault \/ ~stopped)
  /\ UNCHANGED authority

report_hardware_fault(stopped) ==
  /\ hardware_fault' = TRUE
  /\ watchdog' = None
  /\ Stop(stopped)
  /\ UNCHANGED <<authority, estop>>

\* The emergency stop is cleared only once the motors have stopped.
clear_estop(stopped) ==
  /\ estop
  /\ watchdog' = None
  /\ Stop(stopped)
  /\ estop' = ~stopped
  /\ hardware_fault' = (hardware_fault \/ ~stopped)
  /\ UNCHANGED authority

\* Faulty variant: the fault is cleared before the motors have stopped.
clear_hardware_fault_first(stopped) ==
  /\ hardware_fault
  /\ watchdog' = None
  /\ Stop(stopped)
  /\ hardware_fault' = FALSE
  /\ UNCHANGED <<authority, estop>>

clear_hardware_fault(stopped) ==
  /\ hardware_fault
  /\ watchdog' = None
  /\ Stop(stopped)
  /\ hardware_fault' = ~stopped
  /\ UNCHANGED <<authority, estop>>

TimePasses ==
  /\ watchdog # None
  /\ watchdog < MotionTimeout
  /\ watchdog' = watchdog + 1
  /\ UNCHANGED <<authority, safety, moving>>

ControlNext ==
  \/ request_manual_control
  \/ TimePasses
  \/ \E stopped \in BOOLEAN :
       \/ stop_and_release_control(stopped)
       \/ request_autonomous_control(stopped)
       \/ \E requester \in Authorities : request_motion(requester, stopped)
       \/ tick(stopped)
       \/ report_estop(stopped)
       \/ report_hardware_fault(stopped)
       \/ clear_estop(stopped)
       \/ clear_hardware_fault(stopped)

ControlSpec == ControlInit /\ [][ControlNext]_controlVars

\* Time passes, and tick is called again and again.
FairControlSpec ==
  /\ ControlSpec
  /\ WF_controlVars(TimePasses)
  /\ WF_controlVars(\E stopped \in BOOLEAN : tick(stopped))

(***************************************************************************)
(* Properties                                                              *)
(***************************************************************************)

\* Motors that turn are attended to: the watchdog will stop them, or a fault
\* is on record that only a successful stop clears.  Nothing else in the
\* coordinator ever retries a failed stop, so without either they would turn
\* on with everything looking normal.
MotionAttended == moving => watchdog # None \/ hardware_fault

\* Nobody's motion: without an authority the motors do not turn, not even
\* after a failed stop or command.
NoAuthorityNoMotion == authority = "None" => ~moving

\* Under an emergency stop the motors turn only with a fault on record.
EstopStops == estop /\ moving => hardware_fault

\* The robot becomes safe again only at rest, in whatever order emergency stop
\* and fault are cleared.
SafeAgainAtRest == [][~safe /\ safe' => ~moving']_controlVars

\* Motion that nobody renews ends, by the timeout or in a fault.
MotionRenewedOrEnded ==
  \/ []<>(~moving \/ hardware_fault)
  \/ []<><<\E requester \in Authorities : RequestAccepted(requester)>>_controlVars

=============================================================================
