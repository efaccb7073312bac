---------------------------- MODULE ManualControl ---------------------------
(***************************************************************************)
(* Driving the robot by radio: the loop of                                 *)
(* software/rpi/src/manual_control_probe_main.cpp, which reads the radio   *)
(* receiver's serial port, asks the guard, and hands wheel commands to the *)
(* client runner (here a WheelPort).                                       *)
(*                                                                         *)
(* One step is one reading of the clock, of a frame or of the runner's     *)
(* state; the process may be stopped for any time between two steps, and   *)
(* frames go on arriving in the serial port's buffer meanwhile.            *)
(***************************************************************************)
EXTENDS ManualInputGuard, WheelPort, Sequences

CONSTANTS
  ReceiverStall,  \* time after which a pass of the loop came too late
  Inputs,         \* what the operator may send: records of switch and stick
  BufferBound,    \* most frames in the serial port's buffer
  AgeCap          \* frames grow old up to here

ASSUME ManualAssumption ==
  /\ ReceiverStall \in Nat \ {0}
  /\ Inputs \subseteq [switch : Switches, stick : Sticks]
  /\ BufferBound \in Nat /\ AgeCap \in Nat

VARIABLES
  at,            \* position in the loop
  service_age,   \* since service_at
  recovering,    \* recovering_receiver
  received,      \* the last frame decoded in this pass, or None
  queued,        \* frames in the serial port, each with its age
  rearmed        \* history: the steps of arming seen since the last
                 \* interruption, "low" and then "high"

loop == <<at, service_age, recovering, received>>
manualVars == <<inputGuard, port, loop, queued, rearmed>>

Positions == {"service", "read", "overrun", "decide", "poll", "shutdown"}
ReceivedFrames == [switch : Switches, stick : Sticks, age : 0 .. AgeCap]

ManualTypeOK ==
  /\ InputGuardTypeOK
  /\ synchronized \in BOOLEAN
  /\ command \in [moving : BOOLEAN, age : 0 .. Freshness] \cup {None}
  /\ at \in Positions
  /\ service_age \in 0 .. ReceiverStall
  /\ recovering \in BOOLEAN
  /\ received \in ReceivedFrames \cup {None}
  /\ queued \in Seq(ReceivedFrames)
  /\ Len(queued) <= BufferBound
  /\ rearmed \subseteq {"low", "high"}

ManualInit ==
  /\ input_guard_init
  /\ PortInit
  /\ at = "service"
  /\ service_age = 0
  /\ recovering = FALSE
  /\ received = None
  /\ queued = <<>>
  /\ rearmed = {}

\* The frame's sticks move the wheels.
Moves(frame) == frame.stick = "deflected"

Stop == set_wheel_command(FALSE)

At(here, there) == at = here /\ at' = there

(***************************************************************************)
(* A pass of the loop                                                      *)
(***************************************************************************)

\* Faulty variant: a late pass goes on as if nothing had happened.
ServeAnyway ==
  /\ At("service", "read")
  /\ service_age' = 0
  /\ received' = None
  /\ recovering' = FALSE
  /\ UNCHANGED <<inputGuard, port, queued, rearmed>>

\* service_at is read.  A pass that comes too late gives up control, and will
\* throw away what has gathered in the buffer.
Serve ==
  /\ At("service", "read")
  /\ service_age' = 0
  /\ received' = None
  /\ recovering' = (service_age = ReceiverStall)
  /\ IF service_age = ReceiverStall
       THEN Stop /\ input_guard_reset /\ rearmed' = {}
       ELSE UNCHANGED <<port, inputGuard, rearmed>>
  /\ UNCHANGED queued

\* The history follows the frames the guard is given.
Evidence(frame) ==
  LET before == IF channels_age = GuardTimeout THEN {} ELSE rearmed
  IN  CASE frame.switch = "low" /\ frame.stick = "neutral" -> {"low"}
        [] frame.switch = "high" /\ frame.stick = "neutral" /\ "low" \in before -> {"low", "high"}
        [] OTHER -> IF frame.switch = "high" THEN before ELSE {}

Decode ==
  /\ at = "read"
  /\ queued # <<>>
  /\ ~recovering
  /\ on_channels(Head(queued).switch, Head(queued).stick)
  /\ received' = Head(queued)
  /\ queued' = Tail(queued)
  /\ rearmed' = Evidence(Head(queued))
  /\ UNCHANGED <<port, at, service_age, recovering>>

Discard ==
  /\ at = "read"
  /\ queued # <<>>
  /\ recovering
  /\ queued' = Tail(queued)
  /\ UNCHANGED <<inputGuard, port, loop, rearmed>>

Drained ==
  /\ At("read", "overrun")
  /\ queued = <<>>
  /\ UNCHANGED <<inputGuard, port, service_age, recovering, received, queued, rearmed>>

\* The deadline of the loop, at its top; or a failed read, or more than 32
\* batches.
Leave ==
  /\ at \in {"service", "read"}
  /\ at' = "shutdown"
  /\ input_guard_reset
  /\ Stop
  /\ rearmed' = {}
  /\ UNCHANGED <<service_age, recovering, received, queued>>

Overrun ==
  /\ At("overrun", "decide")
  /\ IF service_age = ReceiverStall
       THEN Stop /\ input_guard_reset /\ received' = None /\ rearmed' = {}
       ELSE UNCHANGED <<port, inputGuard, received, rearmed>>
  /\ UNCHANGED <<service_age, recovering, queued>>

\* The guard's answer, and the reset before it when there is no connection.
Allowed == synchronized /\ permitted

\* Faulty variant: what arrived without a connection counts once there is one.
DecideGuardKept ==
  /\ input_guard_poll
  /\ IF synchronized THEN UNCHANGED rearmed ELSE rearmed' = {}

DecideGuard ==
  IF synchronized
    THEN input_guard_poll /\ UNCHANGED rearmed
    ELSE input_guard_reset /\ rearmed' = {}

Decide(take) ==
  /\ At("decide", "poll")
  /\ DecideGuard
  /\ take
  /\ UNCHANGED <<service_age, recovering, received, queued>>

DecideStop == ~Allowed /\ Decide(Stop)
DecideHold == Allowed /\ received = None /\ Decide(UNCHANGED port)
DecideDrive == Allowed /\ received # None /\ Decide(set_wheel_command(Moves(received)))

AfterPoll ==
  IF synchronized' THEN UNCHANGED <<inputGuard, rearmed>> ELSE rearmed' = {} /\ input_guard_reset

\* runner.poll, and what follows when it left the runner unsynchronized.
Poll ==
  /\ At("poll", "service")
  /\ \/ PollConnects
     \/ synchronized /\ PollKeeps
     \/ synchronized' = FALSE /\ command' = Command(FALSE)
  /\ AfterPoll
  /\ UNCHANGED <<service_age, recovering, received, queued>>

\* runner.poll after the loop, until the process ends.
ShutdownPoll ==
  /\ at = "shutdown"
  /\ PollConnects \/ PollDrops
  /\ UNCHANGED <<inputGuard, loop, queued, rearmed>>

(***************************************************************************)
(* Radio and time                                                          *)
(***************************************************************************)

Arrive(input) ==
  /\ Len(queued) < BufferBound
  /\ queued' = Append(queued, [switch |-> input.switch, stick |-> input.stick, age |-> 0])
  /\ UNCHANGED <<inputGuard, port, loop, rearmed>>

Older(frame) == IF frame.age < AgeCap THEN [frame EXCEPT !.age = @ + 1] ELSE frame

Tick ==
  /\ input_guard_later
  /\ PortLater
  /\ service_age' = IF service_age < ReceiverStall THEN service_age + 1 ELSE service_age
  /\ received' = IF received = None THEN None ELSE Older(received)
  /\ queued' = [i \in DOMAIN queued |-> Older(queued[i])]
  /\ UNCHANGED <<at, recovering, rearmed>>

Loop ==
  \/ Serve \/ Decode \/ Discard \/ Drained \/ Overrun
  \/ DecideStop \/ DecideHold \/ DecideDrive \/ Poll \/ ShutdownPoll

ManualNext ==
  \/ Loop
  \/ Leave
  \/ \E input \in Inputs : Arrive(input)
  \/ Tick

ManualSpec == ManualInit /\ [][ManualNext]_manualVars

\* The process runs, and time passes.
FairManualSpec == ManualSpec /\ WF_manualVars(Loop) /\ SF_manualVars(Tick)

(***************************************************************************)
(* Properties                                                              *)
(***************************************************************************)

Driving == command # None /\ command.moving

\* Whenever the runner is polled, in the loop or after it, it holds a command
\* that moves the wheels only if the operator, since the last loss of the
\* connection, silence of the radio, stall of the process or release of the
\* switch, has had the sticks at rest with the switch low and then high.
MotionRearmed == at \in {"poll", "shutdown"} /\ Driving => rearmed = {"low", "high"}

\* A stick position that moves the wheels was received less than two stall
\* times and one guard timeout before the decision to use it, however long and
\* wherever the process was stopped and whatever had gathered in the buffer
\* (each of the three is checked to be at least one tick below its limit).
StickRecent ==
  [][DecideDrive /\ Moves(received) => received.age + 3 <= 2 * ReceiverStall + GuardTimeout]_manualVars

\* When the radio falls silent the wheels are told to stop, and stay so.
SilenceStops ==
  <>[][\A input \in Inputs : ~Arrive(input)]_manualVars => <>[]~Driving

=============================================================================
