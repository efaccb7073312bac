------------------------- MODULE RadioControlProofs -------------------------
(***************************************************************************)
(* Driving by radio.  Manual control: motion needs a complete arming since *)
(* the last interruption, and a stick position that moves the wheels is    *)
(* recent, for every timeout and buffer.  The decoder of the receiver's    *)
(* frames: what it hands out was sent and what was sent is handed out, for *)
(* every address, buffer size and checksum.  The channels of a frame: no   *)
(* bit is lost in unpacking them, whatever their width.                    *)
(***************************************************************************)
EXTENDS ManualControl, CrsfChannels, SequenceTheorems, WellFoundedInduction, TLAPS

\* What the guard has seen justifies its state.
GuardJustified ==
  /\ guard_state = "Ready" => "low" \in rearmed
  /\ guard_state = "Enabled" => rearmed = {"low", "high"}

Oldest(frames, age) == \A i \in 1 .. Len(frames) : frames[i].age <= age

\* The buffer was empty at some moment of the last pass that read it: unless this
\* pass comes too late, what is in it arrived since.
BufferRecent ==
  service_age < ReceiverStall =>
    /\ at \in {"overrun", "decide", "poll", "service"} => Oldest(queued, service_age)
    /\ at = "read" /\ ~recovering => Oldest(queued, ReceiverStall - 1 + service_age)

\* A frame is decoded while the pass is in time; since then the guard counts.
ReceivedRecent ==
  received # None =>
    /\ ~recovering
    /\ at \in {"read", "overrun"} /\ service_age < ReceiverStall =>
         received.age <= ReceiverStall - 1 + service_age
    /\ at = "decide" /\ channels_age \in 0 .. GuardTimeout - 1 =>
         received.age <= 2 * (ReceiverStall - 1) + channels_age

ManualInv ==
  /\ ManualTypeOK
  /\ GuardJustified
  /\ MotionRearmed
  /\ BufferRecent
  /\ ReceivedRecent

(***************************************************************************)
(* The buffer                                                              *)
(***************************************************************************)

\* Taking the first frame out of the buffer leaves frames, and none older.
LEMMA TailFrames ==
  ASSUME NEW frames \in Seq(ReceivedFrames), frames # <<>>, NEW age \in Int
  PROVE  /\ Head(frames) \in ReceivedFrames
         /\ Tail(frames) \in Seq(ReceivedFrames)
         /\ Len(Tail(frames)) <= Len(frames)
         /\ Oldest(frames, age) => Head(frames).age <= age /\ Oldest(Tail(frames), age)
BY DEF Oldest

\* A frame that arrives is of age 0, and makes the buffer no older.
LEMMA AppendFrames ==
  ASSUME NEW frames \in Seq(ReceivedFrames), NEW frame \in ReceivedFrames, frame.age = 0,
         NEW age \in Nat
  PROVE  /\ Append(frames, frame) \in Seq(ReceivedFrames)
         /\ Len(Append(frames, frame)) = Len(frames) + 1
         /\ Oldest(frames, age) => Oldest(Append(frames, frame), age)
BY DEF Oldest

\* A tick makes a frame at most one older and leaves its stick alone.
LEMMA OlderFrame ==
  ASSUME NEW frame \in ReceivedFrames
  PROVE  /\ Older(frame) \in ReceivedFrames
         /\ Older(frame).age <= frame.age + 1
         /\ Older(frame).stick = frame.stick
         /\ frame.age \in Nat /\ Older(frame).age \in Nat
BY ManualAssumption DEF Older, ReceivedFrames

\* A tick makes the buffer's oldest frame at most one older.
LEMMA OlderFrames ==
  ASSUME NEW frames \in Seq(ReceivedFrames), NEW age \in Int
  PROVE  LET older == [i \in DOMAIN frames |-> Older(frames[i])]
         IN  /\ older \in Seq(ReceivedFrames)
             /\ Len(older) = Len(frames)
             /\ Oldest(frames, age) => Oldest(older, age + 1)
<1> DEFINE older == [i \in DOMAIN frames |-> Older(frames[i])]
<1>1. DOMAIN frames = 1 .. Len(frames)
  OBVIOUS
<1>2. \A i \in 1 .. Len(frames) :
        Older(frames[i]) \in ReceivedFrames /\ Older(frames[i]).age <= frames[i].age + 1
        /\ frames[i].age \in Nat /\ Older(frames[i]).age \in Nat
  BY OlderFrame
<1>3. older \in Seq(ReceivedFrames) /\ Len(older) = Len(frames)
  BY <1>1, <1>2
<1>4. Oldest(frames, age) => Oldest(older, age + 1)
  BY <1>1, <1>2, <1>3 DEF Oldest
<1> QED BY <1>3, <1>4

(***************************************************************************)
(* Every step keeps the invariant                                          *)
(***************************************************************************)

\* A command that stops the wheels.
LEMMA StopStops ==
  ASSUME Stop
  PROVE  /\ command' \in [moving : BOOLEAN, age : 0 .. Freshness]
         /\ synchronized' = synchronized
         /\ ~Driving'
BY PortAssumption DEF Stop, set_wheel_command, Command, Driving

\* The serial wait returned: either the process was held up, and all is reset, or not.
LEMMA ServeKeeps ==
  ASSUME ManualInv, Serve
  PROVE  ManualInv'
<1> USE ManualAssumption, GuardTimeoutAssumption
    DEF ManualInv, ManualTypeOK, InputGuardTypeOK, Positions, At
<1>1. /\ at = "service" /\ at' = "read"
      /\ service_age' = 0 /\ received' = None
      /\ recovering' \in BOOLEAN
      /\ recovering' <=> service_age = ReceiverStall
      /\ queued' = queued
  BY DEF Serve
<1>2. CASE service_age = ReceiverStall
  <2>1. Stop /\ input_guard_reset /\ rearmed' = {}
    BY <1>2 DEF Serve
  <2> QED
    BY <1>1, <1>2, <2>1, StopStops
    DEF input_guard_reset, GuardJustified, MotionRearmed, BufferRecent, ReceivedRecent
<1>3. CASE service_age # ReceiverStall
  <2>1. UNCHANGED <<port, inputGuard, rearmed>>
    BY <1>3 DEF Serve
  <2>2. service_age \in 0 .. ReceiverStall - 1 /\ Oldest(queued, service_age)
    BY <1>1, <1>3 DEF BufferRecent
  <2>3. Oldest(queued, ReceiverStall - 1)
    <3>1. \A i \in 1 .. Len(queued) : queued[i] \in ReceivedFrames
      OBVIOUS
    <3>2. \A frame \in ReceivedFrames : frame.age \in Nat
      BY DEF ReceivedFrames
    <3> QED BY <2>2, <3>1, <3>2 DEF Oldest
  <2>4. BufferRecent' /\ ReceivedRecent'
    BY <1>1, <2>3 DEF BufferRecent, ReceivedRecent
  <2> QED
    BY <1>1, <1>3, <2>1, <2>4 DEF port, inputGuard, GuardJustified, MotionRearmed, Driving
<1> QED BY <1>2, <1>3

\* The guard's view of a frame and the history agree.
LEMMA FrameJustified ==
  ASSUME ManualInv, NEW frame \in ReceivedFrames,
         on_channels(frame.switch, frame.stick), rearmed' = Evidence(frame)
  PROVE  /\ GuardJustified'
         /\ InputGuardTypeOK'
         /\ rearmed' \subseteq {"low", "high"}
         /\ channels_age' = 0
<1> USE GuardTimeoutAssumption
    DEF ManualInv, ManualTypeOK, InputGuardTypeOK, GuardJustified, on_channels
<1>1. frame.switch \in Switches /\ frame.stick \in Sticks
  BY DEF ReceivedFrames
<1>2. PolledState \in {"NeedsRearm", "Ready", "Enabled"}
  BY DEF PolledState
<1>3. CASE channels_age = GuardTimeout
  BY <1>1, <1>2, <1>3 DEF Evidence, AfterChannels, PolledState, Switches
<1>4. CASE channels_age # GuardTimeout
  <2>1. PolledState = guard_state
    BY <1>4 DEF PolledState
  <2>2. CASE guard_state = "NeedsRearm"
    BY <1>1, <1>4, <2>1, <2>2 DEF Evidence, AfterChannels, Switches
  <2>3. CASE guard_state = "Ready"
    BY <1>1, <1>4, <2>1, <2>3 DEF Evidence, AfterChannels, Switches
  <2>4. CASE guard_state = "Enabled"
    BY <1>1, <1>4, <2>1, <2>4 DEF Evidence, AfterChannels, Switches
  <2> QED BY <2>2, <2>3, <2>4
<1> QED BY <1>3, <1>4

\* A frame is taken from the buffer and shown to the guard.
LEMMA DecodeKeeps ==
  ASSUME ManualInv, Decode
  PROVE  ManualInv'
<1> USE ManualAssumption, GuardTimeoutAssumption DEF ManualInv, ManualTypeOK, Positions
<1>1. /\ at = "read" /\ at' = "read" /\ ~recovering /\ recovering' = recovering
      /\ queued \in Seq(ReceivedFrames) /\ queued # <<>>
      /\ received' = Head(queued) /\ queued' = Tail(queued)
      /\ service_age' = service_age /\ synchronized' = synchronized /\ command' = command
  BY DEF Decode, port
<1>2. /\ received' \in ReceivedFrames
      /\ queued' \in Seq(ReceivedFrames) /\ Len(queued') <= BufferBound
  BY <1>1, TailFrames
<1>3. /\ GuardJustified' /\ InputGuardTypeOK'
      /\ rearmed' \subseteq {"low", "high"}
  BY <1>1, <1>2, FrameJustified DEF Decode
<1>4. BufferRecent' /\ ReceivedRecent'
  <2>1. ASSUME service_age < ReceiverStall
        PROVE  /\ Oldest(queued', ReceiverStall - 1 + service_age)
               /\ received'.age <= ReceiverStall - 1 + service_age
    BY <1>1, <2>1, TailFrames DEF BufferRecent
  <2> QED BY <1>1, <2>1 DEF BufferRecent, ReceivedRecent
<1> QED BY <1>1, <1>2, <1>3, <1>4 DEF MotionRearmed

\* The end of reading, and the recovery that throws the buffered frames away.
LEMMA ReadKeeps ==
  ASSUME ManualInv, Discard \/ Drained
  PROVE  ManualInv'
<1> USE ManualAssumption, GuardTimeoutAssumption
    DEF ManualInv, ManualTypeOK, InputGuardTypeOK, Positions, GuardJustified, MotionRearmed,
        Driving, loop, port, inputGuard
<1>1. CASE Discard
  <2>1. queued' \in Seq(ReceivedFrames) /\ Len(queued') <= BufferBound
    BY <1>1, TailFrames DEF Discard
  <2> QED BY <1>1, <2>1 DEF Discard, BufferRecent, ReceivedRecent
<1>2. CASE Drained
  <2>1. BufferRecent' /\ ReceivedRecent'
    BY <1>2 DEF Drained, At, BufferRecent, ReceivedRecent, Oldest
  <2> QED BY <1>2, <2>1 DEF Drained, At
<1> QED BY <1>1, <1>2

\* Leaving the loop stops the wheels.
LEMMA LeaveKeeps ==
  ASSUME ManualInv, Leave
  PROVE  ManualInv'
<1> USE ManualAssumption, GuardTimeoutAssumption
    DEF ManualInv, ManualTypeOK, InputGuardTypeOK, Positions
<1>1. BufferRecent' /\ ReceivedRecent'
  BY DEF Leave, BufferRecent, ReceivedRecent
<1> QED
  BY <1>1, StopStops DEF Leave, input_guard_reset, GuardJustified, MotionRearmed

\* Reading took too long: the frames read are not used.
LEMMA OverrunKeeps ==
  ASSUME ManualInv, Overrun
  PROVE  ManualInv'
<1> USE ManualAssumption, GuardTimeoutAssumption
    DEF ManualInv, ManualTypeOK, InputGuardTypeOK, Positions, At
<1>1. /\ at = "overrun" /\ at' = "decide"
      /\ UNCHANGED <<service_age, recovering, queued>>
  BY DEF Overrun
<1>2. CASE service_age = ReceiverStall
  <2>1. Stop /\ input_guard_reset /\ received' = None /\ rearmed' = {}
    BY <1>2 DEF Overrun
  <2> QED
    BY <1>1, <1>2, <2>1, StopStops
    DEF input_guard_reset, GuardJustified, MotionRearmed, BufferRecent, ReceivedRecent
<1>3. CASE service_age # ReceiverStall
  <2>1. UNCHANGED <<port, inputGuard, received, rearmed>>
    BY <1>3 DEF Overrun
  <2>2. service_age \in 0 .. ReceiverStall - 1
    BY <1>3
  <2>3. ASSUME received # None
        PROVE  received.age <= 2 * (ReceiverStall - 1) /\ received.age \in Nat /\ ~recovering
    BY <1>1, <2>2, <2>3 DEF ReceivedRecent, ReceivedFrames
  <2>4. BufferRecent' /\ ReceivedRecent'
    BY <1>1, <2>1, <2>2, <2>3 DEF BufferRecent, ReceivedRecent, inputGuard
  <2> QED
    BY <1>1, <2>1, <2>4 DEF port, inputGuard, GuardJustified, MotionRearmed, Driving
<1> QED BY <1>2, <1>3

\* A command is taken only from an enabled guard.
LEMMA DecideKeeps ==
  ASSUME ManualInv, DecideStop \/ DecideHold \/ DecideDrive
  PROVE  ManualInv'
<1> USE ManualAssumption, GuardTimeoutAssumption
    DEF ManualInv, ManualTypeOK, InputGuardTypeOK, Positions, At
<1>1. /\ at = "decide" /\ at' = "poll" /\ DecideGuard
      /\ UNCHANGED <<service_age, recovering, received, queued>>
  BY DEF DecideStop, DecideHold, DecideDrive, Decide
<1>2. /\ InputGuardTypeOK' /\ GuardJustified' /\ rearmed' \subseteq {"low", "high"}
      /\ Allowed => rearmed' = rearmed /\ rearmed = {"low", "high"}
  <2>1. CASE synchronized
    BY <1>1, <2>1
    DEF DecideGuard, input_guard_poll, PolledState, GuardJustified, Allowed, permitted
  <2>2. CASE ~synchronized
    BY <1>1, <2>2 DEF DecideGuard, input_guard_reset, GuardJustified, Allowed
  <2> QED BY <2>1, <2>2
<1>3. /\ synchronized' \in BOOLEAN
      /\ command' \in [moving : BOOLEAN, age : 0 .. Freshness] \cup {None}
      /\ Allowed \/ ~Driving'
  <2>1. CASE DecideStop
    BY <2>1, StopStops DEF DecideStop, Decide
  <2>2. CASE DecideHold
    BY <2>2 DEF DecideHold, Decide, port
  <2>3. CASE DecideDrive
    BY <2>3, PortAssumption DEF DecideDrive, Decide, set_wheel_command, Command, Moves
  <2> QED BY <2>1, <2>2, <2>3
<1>4. BufferRecent' /\ ReceivedRecent'
  BY <1>1 DEF BufferRecent, ReceivedRecent
<1> QED BY <1>1, <1>2, <1>3, <1>4 DEF MotionRearmed

\* runner.poll may lose the connection, or lose it and begin the next.
LEMMA RunnerPollKeeps ==
  ASSUME ManualInv, Poll
  PROVE  ManualInv'
<1> USE ManualAssumption, GuardTimeoutAssumption
    DEF ManualInv, ManualTypeOK, InputGuardTypeOK, Positions, At
<1>1. /\ at = "poll" /\ at' = "service"
      /\ UNCHANGED <<service_age, recovering, received, queued>>
  BY DEF Poll
<1>2. /\ synchronized' \in BOOLEAN
      /\ command' \in [moving : BOOLEAN, age : 0 .. Freshness] \cup {None}
  <2>1. CASE PollConnects
    BY <2>1 DEF PollConnects
  <2>2. CASE PollKeeps
    BY <2>2 DEF PollKeeps, port
  <2>3. CASE synchronized' = FALSE /\ command' = Command(FALSE)
    <3>1. Command(FALSE) \in [moving : BOOLEAN, age : 0 .. Freshness]
      BY PortAssumption DEF Command
    <3> QED BY <2>3, <3>1
  <2> QED BY <2>1, <2>2, <2>3 DEF Poll
<1>3. InputGuardTypeOK' /\ GuardJustified' /\ rearmed' \subseteq {"low", "high"}
  BY DEF Poll, AfterPoll, input_guard_reset, inputGuard, GuardJustified
<1>4. BufferRecent' /\ ReceivedRecent'
  BY <1>1 DEF BufferRecent, ReceivedRecent
<1> QED BY <1>1, <1>2, <1>3, <1>4 DEF MotionRearmed

\* The polls after the loop, with the stop command held.
LEMMA ShutdownPollKeeps ==
  ASSUME ManualInv, ShutdownPoll
  PROVE  ManualInv'
<1> USE DEF ManualInv, ManualTypeOK, InputGuardTypeOK, loop, inputGuard
<1>1. /\ at = "shutdown" /\ UNCHANGED <<inputGuard, loop, queued, rearmed>>
      /\ command' \in {command, None} /\ synchronized' \in BOOLEAN
  BY DEF ShutdownPoll, PollConnects, PollDrops
<1>2. MotionRearmed'
  BY <1>1 DEF MotionRearmed, Driving
<1>3. BufferRecent' /\ ReceivedRecent' /\ GuardJustified'
  BY <1>1 DEF BufferRecent, ReceivedRecent, GuardJustified
<1> QED BY <1>1, <1>2, <1>3

\* A frame from the radio enters the buffer.
LEMMA ArriveKeeps ==
  ASSUME ManualInv, NEW input \in Inputs, Arrive(input)
  PROVE  ManualInv'
<1> USE ManualAssumption DEF ManualInv, ManualTypeOK, InputGuardTypeOK, loop, inputGuard, port
<1> DEFINE frame == [switch |-> input.switch, stick |-> input.stick, age |-> 0]
<1>1. frame \in ReceivedFrames /\ frame.age = 0
  BY DEF ReceivedFrames
<1>2. queued' = Append(queued, frame) /\ Len(queued) < BufferBound
      /\ UNCHANGED <<inputGuard, port, loop, rearmed>>
  BY DEF Arrive
<1> HIDE DEF frame
<1>3. queued' \in Seq(ReceivedFrames) /\ Len(queued') <= BufferBound
  BY <1>1, <1>2, AppendFrames
<1>4. BufferRecent'
  <2>1. ASSUME NEW age \in Nat, Oldest(queued, age) PROVE Oldest(queued', age)
    BY <1>1, <1>2, <2>1, AppendFrames
  <2>2. service_age \in Nat /\ ReceiverStall - 1 + service_age \in Nat
    OBVIOUS
  <2> QED BY <1>2, <2>1, <2>2 DEF BufferRecent
<1>5. ReceivedRecent' /\ GuardJustified' /\ MotionRearmed'
  BY <1>2 DEF ReceivedRecent, GuardJustified, MotionRearmed, Driving
<1> QED BY <1>2, <1>3, <1>4, <1>5

\* Time passes; the loop's own bounds keep every age below its limit.
LEMMA TickKeeps ==
  ASSUME ManualInv, Tick
  PROVE  ManualInv'
<1> USE ManualAssumption, GuardTimeoutAssumption DEF ManualInv, ManualTypeOK
<1>1. UNCHANGED <<guard_state, synchronized, at, recovering, rearmed>>
  BY DEF Tick, input_guard_later, PortLater
<1>2. /\ service_age' \in 0 .. ReceiverStall
      /\ service_age' < ReceiverStall =>
           service_age < ReceiverStall /\ service_age' = service_age + 1
  BY DEF Tick
<1>3. /\ channels_age' \in 0 .. GuardTimeout \cup {None}
      /\ channels_age' \in 0 .. GuardTimeout - 1 =>
           channels_age \in 0 .. GuardTimeout - 1 /\ channels_age' = channels_age + 1
  BY NoneIsNoNumber DEF Tick, input_guard_later, InputGuardTypeOK
<1>4. /\ command' \in [moving : BOOLEAN, age : 0 .. Freshness] \cup {None}
      /\ Driving' => Driving
  <2>1. CASE command' = command
    BY <2>1 DEF Driving
  <2>2. CASE command # None /\ command.age < Freshness /\ command' = [command EXCEPT !.age = @ + 1]
    <3>1. command \in [moving : BOOLEAN, age : 0 .. Freshness]
      BY <2>2
    <3>2. /\ command' \in [moving : BOOLEAN, age : 0 .. Freshness]
          /\ command'.moving = command.moving
      BY <2>2, <3>1, PortAssumption
    <3> QED BY <2>2, <3>2 DEF Driving
  <2> QED BY <2>1, <2>2 DEF Tick, PortLater, CommandLater
<1>5. /\ queued' \in Seq(ReceivedFrames) /\ Len(queued') <= BufferBound
      /\ \A age \in Int : Oldest(queued, age) => Oldest(queued', age + 1)
  BY OlderFrames DEF Tick
<1>6. /\ received' \in ReceivedFrames \cup {None}
      /\ received' # None =>
           /\ received # None /\ received.age \in Nat /\ received'.age \in Nat
           /\ received'.age <= received.age + 1
  <2>1. CASE received = None
    BY <2>1 DEF Tick
  <2>2. CASE received # None
    BY <2>2, OlderFrame DEF Tick
  <2> QED BY <2>1, <2>2
<1>7. BufferRecent'
  <2>1. SUFFICES ASSUME service_age' < ReceiverStall
                 PROVE  /\ at' \in {"overrun", "decide", "poll", "service"} =>
                             Oldest(queued', service_age')
                        /\ at' = "read" /\ ~recovering' =>
                             Oldest(queued', ReceiverStall - 1 + service_age')
    BY DEF BufferRecent
  <2>2. /\ service_age \in Int /\ ReceiverStall - 1 + service_age \in Int
        /\ service_age' = service_age + 1
        /\ ReceiverStall - 1 + service_age' = (ReceiverStall - 1 + service_age) + 1
    BY <1>2, <2>1
  <2> QED BY <1>1, <1>2, <1>5, <2>1, <2>2 DEF BufferRecent
<1>8. ReceivedRecent'
  <2>1. SUFFICES ASSUME received' # None
                 PROVE  /\ ~recovering'
                        /\ at' \in {"read", "overrun"} /\ service_age' < ReceiverStall =>
                             received'.age <= ReceiverStall - 1 + service_age'
                        /\ at' = "decide" /\ channels_age' \in 0 .. GuardTimeout - 1 =>
                             received'.age <= 2 * (ReceiverStall - 1) + channels_age'
    BY DEF ReceivedRecent
  <2>2. ~recovering' /\ received # None
    BY <1>1, <1>6, <2>1 DEF ReceivedRecent
  <2>3. ASSUME at' \in {"read", "overrun"}, service_age' < ReceiverStall
        PROVE  received'.age <= ReceiverStall - 1 + service_age'
    <3>1. received.age <= ReceiverStall - 1 + service_age
      BY <1>1, <1>2, <2>2, <2>3 DEF ReceivedRecent
    <3> QED BY <1>2, <1>6, <2>1, <2>3, <3>1
  <2>4. ASSUME at' = "decide", channels_age' \in 0 .. GuardTimeout - 1
        PROVE  received'.age <= 2 * (ReceiverStall - 1) + channels_age'
    <3>1. received.age <= 2 * (ReceiverStall - 1) + channels_age
      BY <1>1, <1>3, <2>2, <2>4 DEF ReceivedRecent
    <3>2. PICK a, b, c, d : /\ a = received.age /\ b = received'.age
                            /\ c = channels_age /\ d = 2 * (ReceiverStall - 1)
      OBVIOUS
    <3>3. b <= a + 1 /\ a \in Nat /\ b \in Nat
      BY <1>6, <2>1, <3>2
    <3>4. channels_age' = c + 1 /\ c \in Int
      BY <1>3, <2>4, <3>2
    <3>5. d \in Int /\ a <= d + c
      BY <3>1, <3>2
    <3> QED BY <3>2, <3>3, <3>4, <3>5
  <2> QED BY <2>2, <2>3, <2>4
<1>9. GuardJustified' /\ MotionRearmed'
  BY <1>1, <1>4 DEF GuardJustified, MotionRearmed
<1> QED
  BY <1>1, <1>2, <1>3, <1>4, <1>5, <1>6, <1>7, <1>8, <1>9 DEF InputGuardTypeOK

\* Types, the guard's evidence for its state and the ages of all frames are an invariant of
\* the manual control loop (manual_control_probe_main.cpp with manual_input_guard.cpp).
THEOREM ManualInvariant == ManualSpec => []ManualInv
<1>1. ManualInit => ManualInv
  <2> SUFFICES ASSUME ManualInit
               PROVE  ManualInv
    OBVIOUS
  <2>1. ManualTypeOK
    <3>1. queued \in Seq(ReceivedFrames) /\ Len(queued) <= BufferBound
          /\ service_age \in 0 .. ReceiverStall
      BY ManualAssumption DEF ManualInit
    <3>2. synchronized \in BOOLEAN /\ recovering \in BOOLEAN
      BY DEF ManualInit, PortInit
    <3> QED
      BY <3>1, <3>2
      DEF ManualInit, input_guard_init, PortInit, ManualTypeOK, InputGuardTypeOK, Positions
  <2>2. GuardJustified /\ MotionRearmed /\ BufferRecent /\ ReceivedRecent
    BY DEF ManualInit, input_guard_init, GuardJustified, MotionRearmed, BufferRecent,
           ReceivedRecent, Oldest
  <2> QED BY <2>1, <2>2 DEF ManualInv
<1>2. ManualInv /\ [ManualNext]_manualVars => ManualInv'
  <2>1. ASSUME ManualInv, ManualNext
        PROVE  ManualInv'
    BY <2>1, ServeKeeps, DecodeKeeps, ReadKeeps, LeaveKeeps, OverrunKeeps, DecideKeeps,
       RunnerPollKeeps, ShutdownPollKeeps, ArriveKeeps, TickKeeps DEF ManualNext, Loop
  <2>2. ASSUME ManualInv, UNCHANGED manualVars
        PROVE  ManualInv'
    BY <2>2
    DEF manualVars, inputGuard, port, loop, ManualInv, ManualTypeOK, InputGuardTypeOK,
        GuardJustified, MotionRearmed, BufferRecent, ReceivedRecent, Driving
  <2> QED BY <2>1, <2>2
<1> QED BY <1>1, <1>2, PTL DEF ManualSpec

\* The runner is polled with a moving command only after a complete arming.
THEOREM MotionIsRearmed == ManualSpec => []MotionRearmed
<1>1. ManualInv => MotionRearmed
  BY DEF ManualInv
<1> QED BY <1>1, ManualInvariant, PTL

\* The stick position that moves the wheels is recent.
THEOREM SticksAreRecent == ManualSpec => StickRecent
<1>1. ASSUME ManualInv, DecideDrive
      PROVE  received.age + 3 <= 2 * ReceiverStall + GuardTimeout
  <2>1. at = "decide" /\ received # None /\ channels_age # None /\ PolledState = "Enabled"
    BY <1>1 DEF DecideDrive, Decide, At, Allowed, permitted
  <2>2. channels_age \in 0 .. GuardTimeout - 1
    BY <1>1, <2>1, GuardTimeoutAssumption
    DEF PolledState, ManualInv, ManualTypeOK, InputGuardTypeOK
  <2>3. received.age <= 2 * (ReceiverStall - 1) + channels_age /\ received.age \in Nat
    BY <1>1, <2>1, <2>2 DEF ManualInv, ManualTypeOK, ReceivedRecent, ReceivedFrames
  <2> QED BY <2>2, <2>3, GuardTimeoutAssumption, ManualAssumption
<1>2. ManualInv =>
        [DecideDrive /\ Moves(received) =>
           received.age + 3 <= 2 * ReceiverStall + GuardTimeout]_manualVars
  BY <1>1
<1> QED BY <1>2, ManualInvariant, PTL DEF StickRecent

(***************************************************************************)
(* The radio receiver's frame decoder                                      *)
(***************************************************************************)

\* The k-th byte of the line, counted back from the last, with its mark.
Back(k) == stream[Len(stream) + 1 - k]

\* What the state says of the bytes kept.
BufferInv ==
  /\ state = "WaitingForAddress" => buffer = <<>>
  /\ state = "WaitingForLength" => Len(buffer) = 1 /\ buffer[1] = Address
  /\ state = "Collecting" =>
       /\ 2 <= Len(buffer) /\ Len(buffer) < expected_size
       /\ buffer[1] = Address
       /\ LengthFits(buffer[2])
       /\ expected_size = buffer[2] + 2
  /\ delivered # None => state = "WaitingForAddress"

\* The bytes kept are the last ones of the line.
BufferLast ==
  /\ stream \in Seq([byte : Bytes, address : BOOLEAN])
  /\ Len(buffer) <= Len(stream) /\ Len(stream) <= BufferSize
  /\ \A k \in 1 .. Len(buffer) : buffer[Len(buffer) + 1 - k] = Back(k).byte

\* The last k bytes are the beginning of a frame whose first byte was taken for an
\* address.
BeginsFrame(k) ==
  /\ Back(k).address /\ Back(k).byte = Address
  /\ k > 1 => LengthFits(Back(k - 1).byte) /\ k < Back(k - 1).byte + 2

\* Every such beginning is what the decoder is collecting.
Tracked == \A k \in 1 .. Len(stream) : BeginsFrame(k) => Len(buffer) = k

RadioInv == CrsfTypeOK /\ BufferInv /\ BufferLast /\ Tracked

(***************************************************************************)
(* The line                                                                *)
(***************************************************************************)

\* The history keeps the last bytes: the new one is the last, the others are one
\* further back, and only what exceeds the limit is forgotten.
LEMMA Remembered ==
  ASSUME NEW S, NEW before \in Seq(S), NEW e \in S, NEW limit \in Nat \ {0}, Len(before) <= limit,
         NEW after,
         Len(before) < limit => after = Append(before, e),
         Len(before) = limit => after = Tail(Append(before, e))
  PROVE  /\ after \in Seq(S)
         /\ Len(after) \in 1 .. limit
         /\ Len(after) <= Len(before) + 1
         /\ Len(after) = Len(before) + 1 \/ Len(after) = limit
         /\ after[Len(after)] = e
         /\ \A k \in 2 .. Len(after) : after[Len(after) + 1 - k] = before[Len(before) + 1 - (k - 1)]
<1>1. PICK longer : longer = Append(before, e)
  OBVIOUS
<1>2. /\ longer \in Seq(S) /\ Len(longer) = Len(before) + 1 /\ longer[Len(longer)] = e
      /\ \A i \in 1 .. Len(before) : longer[i] = before[i]
  BY <1>1
<1>3. CASE Len(longer) > limit
  <2>1. after = Tail(longer)
    BY <1>1, <1>2, <1>3
  <2>2. /\ after \in Seq(S) /\ Len(after) = Len(before)
        /\ \A i \in 1 .. Len(after) : after[i] = longer[i + 1]
    BY <1>2, <2>1
  <2>3. Len(after) = limit
    BY <1>2, <1>3, <2>2
  <2>4. after[Len(after)] = e
    <3>1. Len(after) \in Nat /\ Len(after) > 0 /\ Len(after) + 1 = Len(longer)
      BY <1>2, <2>2, <2>3
    <3>2. after[Len(after)] = longer[Len(after) + 1]
      BY <2>2, <3>1
    <3> QED BY <1>2, <3>1, <3>2
  <2>5. ASSUME NEW k \in 2 .. Len(after)
        PROVE  after[Len(after) + 1 - k] = before[Len(before) + 1 - (k - 1)]
    <3>1. PICK i : i = Len(after) + 1 - k
      OBVIOUS
    <3>2. i \in 1 .. Len(after) /\ i + 1 \in 1 .. Len(before)
          /\ i + 1 = Len(before) + 1 - (k - 1)
      BY <2>2, <3>1
    <3> QED BY <1>2, <2>2, <3>1, <3>2
  <2> QED BY <2>2, <2>3, <2>4, <2>5
<1>4. CASE ~(Len(longer) > limit)
  <2>1. after = longer
    BY <1>1, <1>2, <1>4
  <2> QED BY <1>2, <1>4, <2>1
<1> QED BY <1>3, <1>4

\* A byte that arrives: it is the last of the line, and the ones before it are
\* kept as far as the decoder has kept them.
LEMMA FeedStream ==
  ASSUME RadioInv, NEW byte \in Bytes, feed_byte(byte)
  PROVE  /\ stream' \in Seq([byte : Bytes, address : BOOLEAN])
         /\ Len(stream') \in 1 .. BufferSize
         /\ Back(1)'.byte = byte
         /\ Back(1)'.address =
              (state = "WaitingForAddress" \/ (state = "WaitingForLength" /\ ~LengthFits(byte)))
         /\ \A k \in 2 .. Len(stream') : k - 1 <= Len(stream) /\ Back(k)' = Back(k - 1)
         /\ Len(buffer) + 1 <= Len(stream')
<1> DEFINE before == IF delivered = None THEN stream ELSE <<>>
           awaited ==
             state = "WaitingForAddress" \/ (state = "WaitingForLength" /\ ~LengthFits(byte))
           e == [byte |-> byte, address |-> awaited]
           S == [byte : Bytes, address : BOOLEAN]
<1>1. before \in Seq(S) /\ Len(before) <= Len(stream) /\ Len(before) <= BufferSize
      /\ Len(buffer) <= Len(before) /\ Len(buffer) < BufferSize
      /\ Len(buffer) \in Nat
  BY CrsfAssumption DEF RadioInv, BufferLast, BufferInv, CrsfTypeOK
<1>2. before # <<>> => before = stream
  OBVIOUS
<1>3. e \in S
  OBVIOUS
<1>4. /\ Len(before) < BufferSize => stream' = Append(before, e)
      /\ Len(before) = BufferSize => stream' = Tail(Append(before, e))
  <2>1. stream' = IF Len(Append(before, e)) > BufferSize
                    THEN Tail(Append(before, e)) ELSE Append(before, e)
    BY DEF feed_byte
  <2>2. Len(Append(before, e)) = Len(before) + 1 /\ Len(before) \in Nat
    BY <1>1, <1>3
  <2> QED BY <2>1, <2>2, CrsfAssumption
<1>5. BufferSize \in Nat \ {0}
  BY CrsfAssumption
<1>6. e.byte = byte /\ e.address = awaited
  OBVIOUS
<1> HIDE DEF before, e, S
<1>7. /\ stream' \in Seq(S)
      /\ Len(stream') \in 1 .. BufferSize
      /\ Len(stream') <= Len(before) + 1
      /\ Len(stream') = Len(before) + 1 \/ Len(stream') = BufferSize
      /\ stream'[Len(stream')] = e
      /\ \A k \in 2 .. Len(stream') :
           stream'[Len(stream') + 1 - k] = before[Len(before) + 1 - (k - 1)]
  <2> HIDE DEF awaited
  <2> DEFINE after == stream'
  <2>1. /\ before \in Seq(S) /\ e \in S /\ BufferSize \in Nat \ {0} /\ Len(before) <= BufferSize
        /\ Len(before) < BufferSize => after = Append(before, e)
        /\ Len(before) = BufferSize => after = Tail(Append(before, e))
    BY <1>1, <1>3, <1>4, <1>5
  <2> HIDE DEF after
  <2>2. /\ after \in Seq(S)
        /\ Len(after) \in 1 .. BufferSize
        /\ Len(after) <= Len(before) + 1
        /\ Len(after) = Len(before) + 1 \/ Len(after) = BufferSize
        /\ after[Len(after)] = e
        /\ \A k \in 2 .. Len(after) : after[Len(after) + 1 - k] = before[Len(before) + 1 - (k - 1)]
    BY <2>1, Remembered, SMTT(30)
  <2> QED BY <2>2 DEF after
<1>8. Back(1)' = e
  <2>1. Len(stream') + 1 - 1 = Len(stream')
    BY <1>7
  <2> QED BY <1>7, <2>1 DEF Back
<1>9. ASSUME NEW k \in 2 .. Len(stream')
      PROVE  k - 1 <= Len(stream) /\ Back(k)' = Back(k - 1)
  <2>1. Len(before) \in Nat /\ Len(stream) \in Nat
    BY <1>1 DEF RadioInv, BufferLast
  <2>2. k - 1 <= Len(before)
    BY <1>7, <2>1
  <2>3. before = stream
    BY <1>2, <2>1, <2>2
  <2> QED BY <1>7, <2>2, <2>3 DEF Back
<1>10. Len(buffer) + 1 <= Len(stream')
  <2>1. Len(before) \in Nat
    BY <1>1
  <2> QED BY <1>1, <1>7, <1>5, <2>1
<1>11. stream' \in Seq([byte : Bytes, address : BOOLEAN])
  BY <1>7 DEF S
<1> QED BY <1>6, <1>7, <1>8, <1>9, <1>10, <1>11

(***************************************************************************)
(* A byte                                                                  *)
(***************************************************************************)

\* No frame is under way, after a byte that begins none or ends one.
Idle(byte) ==
  /\ state' = "WaitingForAddress" /\ buffer' = <<>>
  /\ \/ state = "WaitingForAddress" /\ byte # Address
     \/ state = "WaitingForLength" /\ ~LengthFits(byte) /\ byte # Address
     \/ Complete(byte)

\* The byte is taken for an address.
Begun(byte) ==
  /\ state' = "WaitingForLength" /\ buffer' = <<byte>> /\ byte = Address
  /\ state = "WaitingForAddress" \/ (state = "WaitingForLength" /\ ~LengthFits(byte))

\* The byte is a length, or one of those it counts except the last.
Continued(byte) ==
  /\ state' = "Collecting" /\ buffer' = Append(buffer, byte)
  /\ \/ state = "WaitingForLength" /\ LengthFits(byte) /\ expected_size' = byte + 2
     \/ state = "Collecting" /\ Len(buffer) + 1 < expected_size /\ expected_size' = expected_size

\* There is no other outcome, and both arrays are large enough.
LEMMA FeedOutcome ==
  ASSUME RadioInv, NEW byte \in Bytes, feed_byte(byte)
  PROVE  /\ Idle(byte) \/ Begun(byte) \/ Continued(byte)
         /\ buffer' \in Seq(Bytes) /\ Len(buffer') < BufferSize
         /\ expected_size' \in 0 .. BufferSize
         /\ state' # "WaitingForAddress" => delivered' = None
         /\ BufferInv'
<1> USE DEF RadioInv, CrsfTypeOK, BufferInv, Complete
<1>1. /\ Len(buffer) \in Nat /\ buffer \in Seq(Bytes)
      /\ BufferSize \in Nat /\ BufferSize > 4 /\ Bytes \subseteq Nat
  BY CrsfAssumption DEF Bytes
<1>2. delivered' = IF Complete(byte) /\ CrcMatches(byte) THEN FrameRead ELSE None
  BY DEF feed_byte
<1>3. /\ <<byte>> \in Seq(Bytes) /\ Len(<<byte>>) = 1 /\ <<byte>>[1] = byte
      /\ <<>> \in Seq(Bytes) /\ Len(<<>>) = 0
  OBVIOUS
<1>4. CASE (Idle(byte) \/ Begun(byte)) /\ expected_size' \in 0 .. BufferSize
  <2>1. /\ buffer' \in Seq(Bytes) /\ Len(buffer') < BufferSize
        /\ state' = "WaitingForAddress" => buffer' = <<>>
        /\ state' = "WaitingForLength" => Len(buffer') = 1 /\ buffer'[1] = Address
        /\ state' # "Collecting"
    <3>1. CASE state' = "WaitingForAddress" /\ buffer' = <<>>
      BY <1>1, <1>3, <3>1
    <3>2. CASE state' = "WaitingForLength" /\ buffer' = <<byte>> /\ byte = Address
      <4> DEFINE begun == <<byte>>
      <4>1. begun \in Seq(Bytes) /\ Len(begun) = 1 /\ begun[1] = Address /\ buffer' = begun
        BY <1>3, <3>2
      <4> HIDE DEF begun
      <4> QED BY <1>1, <3>2, <4>1
    <3> QED BY <1>4, <3>1, <3>2 DEF Idle, Begun
  <2>2. state' # "WaitingForAddress" => delivered' = None
    <3>1. state' # "WaitingForAddress" => ~Complete(byte)
      BY <1>4 DEF Idle, Begun
    <3> QED BY <1>2, <3>1
  <2> QED BY <1>4, <2>1, <2>2
<1>5. CASE WaitingForAddress(byte)
  <2>1. Idle(byte) \/ Begun(byte)
    BY <1>5 DEF WaitingForAddress, BeginWith, Idle, Begun, decoder
  <2>2. expected_size' = expected_size
    BY <1>5 DEF WaitingForAddress, BeginWith, decoder
  <2> QED BY <1>4, <2>1, <2>2
<1>6. CASE WaitingForLength(byte)
  <2>1. state = "WaitingForLength" /\ delivered' = None
    BY <1>2, <1>6 DEF WaitingForLength
  <2>2. CASE LengthFits(byte)
    <3>1. state' = "Collecting" /\ buffer' = Append(buffer, byte) /\ expected_size' = byte + 2
      BY <1>6, <2>2 DEF WaitingForLength
    <3>2. byte \in 2 .. BufferSize - 2
      BY <2>2 DEF LengthFits
    <3>3. /\ buffer' \in Seq(Bytes) /\ Len(buffer') = 2
          /\ buffer'[1] = Address /\ buffer'[2] = byte
      <4>1. Len(buffer) = 1 /\ buffer[1] = Address
        BY <2>1
      <4>2. PICK longer : longer = Append(buffer, byte)
        OBVIOUS
      <4>3. longer \in Seq(Bytes) /\ Len(longer) = 2 /\ longer[1] = buffer[1] /\ longer[2] = byte
        <5>1. /\ longer \in Seq(Bytes) /\ Len(longer) = Len(buffer) + 1
              /\ \A i \in 1 .. Len(buffer) : longer[i] = buffer[i]
              /\ longer[Len(buffer) + 1] = byte
          BY <1>1, <4>2, AppendProperties
        <5> QED BY <4>1, <5>1
      <4> QED BY <3>1, <4>1, <4>2, <4>3
    <3> QED BY <1>1, <2>1, <2>2, <3>1, <3>2, <3>3 DEF Continued, LengthFits
  <2>3. CASE ~LengthFits(byte)
    <3>1. /\ Idle(byte) \/ Begun(byte)
          /\ expected_size' = 0
      BY <1>6, <2>1, <2>3 DEF WaitingForLength, LengthRefused, reset, Idle, Begun
    <3> QED BY <1>1, <1>4, <3>1
  <2> QED BY <2>2, <2>3
<1>7. CASE Collecting(byte)
  <2>1. state = "Collecting"
    BY <1>7 DEF Collecting
  <2>2. CASE Complete(byte)
    <3>1. Idle(byte) /\ expected_size' = 0
      BY <1>7, <2>2 DEF Collecting, reset, Idle
    <3> QED BY <1>1, <1>4, <3>1
  <2>3. CASE ~Complete(byte)
    <3>1. state' = state /\ expected_size' = expected_size /\ buffer' = Append(buffer, byte)
          /\ delivered' = None
      BY <1>2, <1>7, <2>3 DEF Collecting
    <3>2. Len(buffer) + 1 < expected_size /\ 2 <= Len(buffer)
      BY <1>1, <2>1, <2>3
    <3>3. /\ buffer' \in Seq(Bytes) /\ Len(buffer') = Len(buffer) + 1
          /\ buffer'[1] = buffer[1] /\ buffer'[2] = buffer[2]
      BY <1>1, <3>1, <3>2
    <3> QED BY <1>1, <2>1, <3>1, <3>2, <3>3 DEF Continued, LengthFits
  <2> QED BY <2>2, <2>3
<1> QED BY <1>5, <1>6, <1>7 DEF feed_byte

\* The bytes kept remain the last ones of the line.
LEMMA FeedRecent ==
  ASSUME RadioInv, NEW byte \in Bytes, feed_byte(byte)
  PROVE  BufferLast'
<1>1. /\ stream' \in Seq([byte : Bytes, address : BOOLEAN])
      /\ Len(stream') \in 1 .. BufferSize
      /\ Back(1)'.byte = byte
      /\ \A k \in 2 .. Len(stream') : k - 1 <= Len(stream) /\ Back(k)' = Back(k - 1)
      /\ Len(buffer) + 1 <= Len(stream')
  BY FeedStream
<1>2. Idle(byte) \/ Begun(byte) \/ Continued(byte)
  BY FeedOutcome
<1>3. Len(buffer) \in Nat /\ buffer \in Seq(Bytes)
  BY DEF RadioInv, CrsfTypeOK
<1>4. /\ Len(buffer') <= Len(stream')
      /\ \A k \in 1 .. Len(buffer') : buffer'[Len(buffer') + 1 - k] = Back(k)'.byte
  <2>1. CASE buffer' = <<>>
    BY <1>1, <2>1
  <2>2. CASE buffer' = <<byte>>
    <3>1. Len(buffer') = 1 /\ buffer'[1] = byte
      BY <2>2
    <3> QED BY <1>1, <3>1
  <2>3. CASE buffer' = Append(buffer, byte)
    <3>1. /\ Len(buffer') = Len(buffer) + 1 /\ buffer'[Len(buffer) + 1] = byte
          /\ \A i \in 1 .. Len(buffer) : buffer'[i] = buffer[i]
      BY <1>3, <2>3
    <3>2. ASSUME NEW k \in 1 .. Len(buffer')
          PROVE  buffer'[Len(buffer') + 1 - k] = Back(k)'.byte
      <4>1. CASE k = 1
        <5>1. Len(buffer') + 1 - k = Len(buffer) + 1
          BY <1>3, <3>1, <4>1
        <5> QED BY <1>1, <3>1, <4>1, <5>1
      <4>2. CASE k # 1
        <5>1. PICK j : j = k - 1
          OBVIOUS
        <5>2. j \in 1 .. Len(buffer) /\ k \in 2 .. Len(stream')
          BY <1>1, <1>3, <3>1, <4>2, <5>1
        <5>3. buffer[Len(buffer) + 1 - j] = Back(j).byte
          BY <5>2 DEF RadioInv, BufferLast
        <5>4. Len(buffer') + 1 - k = Len(buffer) + 1 - j /\ Len(buffer) + 1 - j \in 1 .. Len(buffer)
          BY <1>3, <3>1, <5>1, <5>2
        <5>5. Back(k)' = Back(j)
          BY <1>1, <5>1, <5>2
        <5> QED BY <3>1, <5>3, <5>4, <5>5
      <4> QED BY <4>1, <4>2
    <3> QED BY <1>1, <3>1, <3>2
  <2> QED BY <1>2, <2>1, <2>2, <2>3 DEF Idle, Begun, Continued
<1>5. Len(stream') <= BufferSize
  BY <1>1, CrsfAssumption
<1> QED BY <1>1, <1>4, <1>5 DEF BufferLast

\* No beginning of a frame is lost sight of: what continues it is collected, and
\* what begins another one, in the place of a length too, is begun.
LEMMA FeedTracked ==
  ASSUME RadioInv, NEW byte \in Bytes, feed_byte(byte)
  PROVE  Tracked'
<1> SUFFICES ASSUME NEW k \in 1 .. Len(stream'), BeginsFrame(k)'
             PROVE  Len(buffer') = k
  BY DEF Tracked
<1>1. /\ Len(stream') \in 1 .. BufferSize /\ Len(stream') \in Nat
      /\ Back(1)'.byte = byte
      /\ Back(1)'.address =
           (state = "WaitingForAddress" \/ (state = "WaitingForLength" /\ ~LengthFits(byte)))
      /\ \A i \in 2 .. Len(stream') : i - 1 <= Len(stream) /\ Back(i)' = Back(i - 1)
  BY FeedStream, CrsfAssumption
<1>2. Idle(byte) \/ Begun(byte) \/ Continued(byte)
  BY FeedOutcome
<1>3. /\ Len(buffer) \in Nat /\ buffer \in Seq(Bytes) /\ Len(stream) \in Nat
      /\ state \in {"WaitingForAddress", "WaitingForLength", "Collecting"}
      /\ byte \in Nat
  BY DEF RadioInv, CrsfTypeOK, BufferLast, Bytes
<1>4. /\ Back(k)'.address /\ Back(k)'.byte = Address
      /\ k > 1 => LengthFits(Back(k - 1)'.byte) /\ k < Back(k - 1)'.byte + 2
  BY DEF BeginsFrame, LengthFits
<1>5. CASE k = 1
  <2>1. Begun(byte)
    BY <1>1, <1>2, <1>3, <1>4, <1>5 DEF Idle, Continued, Complete
  <2> QED BY <1>5, <2>1 DEF Begun
<1>6. CASE k > 1
  <2>1. PICK j : j = k - 1
    OBVIOUS
  <2>2. j \in 1 .. Len(stream) /\ k \in 2 .. Len(stream') /\ j \in Nat /\ k = j + 1
    BY <1>1, <1>3, <1>6, <2>1
  <2>3. Back(k)' = Back(j)
    BY <1>1, <2>1, <2>2
  <2>4. LengthFits(Back(j)'.byte) /\ k < Back(j)'.byte + 2
    BY <1>4, <1>6, <2>1
  <2>5. BeginsFrame(j) /\ (j > 1 => Back(j)' = Back(j - 1) /\ LengthFits(Back(j - 1).byte))
    <3>1. j > 1 => j \in 2 .. Len(stream')
      BY <2>2
    <3>2. j > 1 => Back(j)' = Back(j - 1)
      BY <1>1, <3>1
    <3>3. j > 1 => j < Back(j - 1).byte + 2
      BY <2>2, <2>4, <3>2 DEF LengthFits
    <3> QED BY <1>4, <2>3, <2>4, <3>2, <3>3 DEF BeginsFrame
  <2>6. Len(buffer) = j
    BY <2>2, <2>5 DEF RadioInv, Tracked
  <2>7. Continued(byte)
    <3>1. CASE j = 1
      <4>1. state = "WaitingForLength"
        <5>1. Len(buffer) = 1 /\ Len(<<>>) = 0
          BY <2>6, <3>1
        <5>2. state # "WaitingForAddress"
          BY <5>1 DEF RadioInv, BufferInv
        <5>3. state # "Collecting"
          BY <5>1 DEF RadioInv, BufferInv
        <5> QED BY <1>3, <5>2, <5>3
      <4>2. LengthFits(byte)
        BY <1>1, <2>4, <3>1
      <4> QED BY <1>2, <4>1, <4>2 DEF Idle, Begun, Complete
    <3>2. CASE j > 1
      <4>1. state = "Collecting" /\ expected_size = buffer[2] + 2
        <5>1. Len(buffer) > 1 /\ Len(<<>>) = 0
          BY <2>6, <3>2
        <5>2. state # "WaitingForAddress" /\ state # "WaitingForLength"
          <6>1. BufferInv
            BY DEF RadioInv
          <6>2. /\ state = "WaitingForAddress" => buffer = <<>>
                /\ state = "WaitingForLength" => Len(buffer) = 1
            BY <6>1 DEF BufferInv
          <6> QED BY <5>1, <6>2
        <5>3. state = "Collecting"
          BY <1>3, <5>2
        <5> QED BY <5>3 DEF RadioInv, BufferInv
      <4>2. buffer[2] = Back(j - 1).byte
        <5>1. j - 1 \in 1 .. Len(buffer) /\ Len(buffer) + 1 - (j - 1) = 2
          BY <2>2, <2>6, <3>2
        <5> QED BY <5>1 DEF RadioInv, BufferLast
      <4>3. Len(buffer) + 1 # expected_size
        BY <1>3, <2>2, <2>4, <2>5, <2>6, <3>2, <4>1, <4>2 DEF LengthFits
      <4> QED BY <1>2, <4>1, <4>3 DEF Idle, Begun, Complete
    <3> QED BY <2>2, <3>1, <3>2
  <2> QED BY <1>3, <2>2, <2>6, <2>7 DEF Continued
<1> QED BY <1>5, <1>6

(***************************************************************************)
(* Frames                                                                  *)
(***************************************************************************)

\* The wire form, byte by byte; the checksum may be anything.
LEMMA WireBytes ==
  ASSUME NEW frame, frame.type \in Bytes, frame.payload \in Seq(Bytes)
  PROVE  /\ Wire(frame) \in Seq(Int \cup {Crc(<<frame.type>> \o frame.payload)})
         /\ Len(Wire(frame)) = Len(frame.payload) + 4
         /\ Wire(frame)[1] = Address
         /\ Wire(frame)[2] = Len(frame.payload) + 2
         /\ Wire(frame)[3] = frame.type
         /\ \A i \in 1 .. Len(frame.payload) : Wire(frame)[3 + i] = frame.payload[i]
         /\ Wire(frame)[Len(frame.payload) + 4] = Crc(<<frame.type>> \o frame.payload)
<1>1. PICK t, p : t = frame.type /\ p = frame.payload
  OBVIOUS
<1>2. t \in Bytes /\ p \in Seq(Bytes)
  BY <1>1
<1> DEFINE c == Crc(<<t>> \o p)
           S == Int \cup {c}
           head == <<Address, Len(p) + 2, t>>
<1>3. Wire(frame) = (head \o p) \o <<c>>
  BY <1>1 DEF Wire
<1>4. Bytes \subseteq Int /\ Address \in Int /\ t \in Int /\ Len(p) \in Nat
  BY <1>2, CrsfAssumption DEF Bytes
<1> HIDE DEF c
<1>5. /\ head \in Seq(S) /\ Len(head) = 3
      /\ head[1] = Address /\ head[2] = Len(p) + 2 /\ head[3] = t
  BY <1>2, <1>4
<1>6. p \in Seq(S)
  <2>1. Bytes \subseteq S
    BY <1>4
  <2> HIDE DEF S
  <2> QED BY <1>2, <2>1, SeqMonotonic
<1>7. <<c>> \in Seq(S) /\ Len(<<c>>) = 1 /\ <<c>>[1] = c
  OBVIOUS
<1> HIDE DEF head, S
<1>8. PICK begin : begin = head \o p
  OBVIOUS
<1>9. /\ begin \in Seq(S) /\ Len(begin) = Len(p) + 3
      /\ \A i \in 1 .. 3 : begin[i] = head[i]
      /\ \A i \in 1 .. Len(p) : begin[3 + i] = p[i]
  <2>1. /\ begin \in Seq(S) /\ Len(begin) = Len(head) + Len(p)
        /\ \A i \in 1 .. Len(head) + Len(p) :
             begin[i] = IF i <= Len(head) THEN head[i] ELSE p[i - Len(head)]
    BY <1>5, <1>6, <1>8, ConcatProperties
  <2>2. ASSUME NEW i \in 1 .. Len(p) PROVE begin[3 + i] = p[i]
    BY <1>4, <1>5, <2>1
  <2> QED BY <1>4, <1>5, <2>1, <2>2
<1>10. PICK last : last = <<c>>
  OBVIOUS
<1>11. last \in Seq(S) /\ Len(last) = 1 /\ last[1] = c
  BY <1>7, <1>10
<1>12. /\ Wire(frame) \in Seq(S) /\ Len(Wire(frame)) = Len(begin) + 1
       /\ \A i \in 1 .. Len(begin) + 1 :
            Wire(frame)[i] = IF i <= Len(begin) THEN begin[i] ELSE last[i - Len(begin)]
  <2>1. Wire(frame) = begin \o last
    BY <1>3, <1>8, <1>10
  <2>2. /\ begin \o last \in Seq(S) /\ Len(begin \o last) = Len(begin) + Len(last)
        /\ \A i \in 1 .. Len(begin) + Len(last) :
             (begin \o last)[i] = IF i <= Len(begin) THEN begin[i] ELSE last[i - Len(begin)]
    BY <1>9, <1>11, ConcatProperties
  <2> QED BY <1>11, <2>1, <2>2
<1>13. Wire(frame)[Len(p) + 4] = c
  <2>1. Len(begin) + 1 \in 1 .. Len(begin) + 1 /\ Len(begin) + 1 = Len(p) + 4
        /\ ~(Len(begin) + 1 <= Len(begin)) /\ Len(begin) + 1 - Len(begin) = 1
    BY <1>4, <1>9
  <2> QED BY <1>11, <1>12, <2>1
<1>14. ASSUME NEW i \in 1 .. Len(p) + 3 PROVE Wire(frame)[i] = begin[i]
  BY <1>4, <1>9, <1>12
<1>15. \A i \in 1 .. Len(p) : Wire(frame)[3 + i] = p[i]
  <2> TAKE i \in 1 .. Len(p)
  <2>1. 3 + i \in 1 .. Len(p) + 3
    BY <1>4
  <2> QED BY <1>9, <1>14, <2>1
<1>16. 1 \in 1 .. Len(p) + 3 /\ 2 \in 1 .. Len(p) + 3 /\ 3 \in 1 .. Len(p) + 3
  BY <1>4
<1>17. Wire(frame)[1] = Address /\ Wire(frame)[2] = Len(p) + 2 /\ Wire(frame)[3] = t
  BY <1>5, <1>9, <1>14, <1>16
<1>18. Len(Wire(frame)) = Len(p) + 4
  BY <1>4, <1>9, <1>12
<1> QED BY <1>1, <1>12, <1>13, <1>15, <1>17, <1>18 DEF c, S

\* The bytes kept and the one just read are the last of the line.
LEMMA FeedLast ==
  ASSUME RadioInv, NEW byte \in Bytes, feed_byte(byte), NEW n, n = Len(buffer) + 1
  PROVE  LastBytes(n)' = Append(buffer, byte)
<1>1. /\ Len(stream') \in Nat
      /\ Back(1)'.byte = byte
      /\ \A k \in 2 .. Len(stream') : Back(k)' = Back(k - 1)
      /\ n <= Len(stream')
  BY FeedStream, CrsfAssumption
<1>2. Len(buffer) \in Nat /\ buffer \in Seq(Bytes) /\ n \in Nat
  BY DEF RadioInv, CrsfTypeOK
<1>3. PICK s : s = Append(buffer, byte)
  OBVIOUS
<1>4. /\ s \in Seq(Bytes) /\ Len(s) = n /\ s[n] = byte
      /\ \A i \in 1 .. Len(buffer) : s[i] = buffer[i]
  BY <1>2, <1>3
<1>5. LastBytes(n)' = [i \in 1 .. n |-> stream'[Len(stream') - n + i].byte]
  BY DEF LastBytes
<1>6. ASSUME NEW i \in 1 .. n
      PROVE  stream'[Len(stream') - n + i].byte = s[i]
  <2>1. PICK k : k = n + 1 - i
    OBVIOUS
  <2>2. k \in 1 .. n /\ Len(stream') - n + i = Len(stream') + 1 - k /\ k - 1 \in Nat
    BY <1>1, <1>2, <2>1
  <2>3. stream'[Len(stream') - n + i] = Back(k)'
    BY <2>2 DEF Back
  <2>4. CASE i = n
    <3>1. k = 1
      BY <1>2, <2>1, <2>4
    <3> QED BY <1>1, <1>4, <2>3, <2>4, <3>1
  <2>5. CASE i # n
    <3>1. i \in 1 .. Len(buffer) /\ k \in 2 .. Len(stream') /\ k - 1 \in 1 .. Len(buffer)
          /\ Len(buffer) + 1 - (k - 1) = i
      BY <1>1, <1>2, <2>1, <2>5
    <3>2. buffer[i] = Back(k - 1).byte
      BY <3>1 DEF RadioInv, BufferLast
    <3> QED BY <1>1, <1>4, <2>3, <3>1, <3>2
  <2> QED BY <2>4, <2>5
<1>7. s = [i \in 1 .. n |-> s[i]]
  BY <1>4
<1> QED BY <1>3, <1>5, <1>6, <1>7

\* A frame is complete: what is handed out is what the last bytes encode, if the
\* checksum is right, and nothing otherwise.
LEMMA FeedComplete ==
  ASSUME RadioInv, NEW byte \in Bytes, feed_byte(byte), Complete(byte),
         NEW n, n = Len(buffer) + 1
  PROVE  /\ n \in 4 .. BufferSize
         /\ FrameIn(n)' = FrameRead
         /\ FrameRead.type \in Bytes
         /\ FrameRead.payload \in Seq(Bytes) /\ Len(FrameRead.payload) = n - 4
         /\ CrcMatches(byte) <=> Wire(FrameRead) = LastBytes(n)'
<1>1. /\ buffer \in Seq(Bytes) /\ Len(buffer) \in Nat /\ Len(buffer) < BufferSize
      /\ BufferSize \in Nat
      /\ Bytes \subseteq Nat
      /\ state = "Collecting" /\ expected_size = n
      /\ n = buffer[2] + 2 /\ buffer[2] \in 2 .. BufferSize - 2 /\ buffer[1] = Address
  <2>1. /\ buffer \in Seq(Bytes) /\ Len(buffer) < BufferSize /\ BufferSize \in Nat
        /\ state = "Collecting" /\ Len(buffer) + 1 = expected_size
        /\ buffer[1] = Address /\ LengthFits(buffer[2]) /\ expected_size = buffer[2] + 2
    BY CrsfAssumption DEF RadioInv, CrsfTypeOK, BufferInv, Complete
  <2>2. Bytes \subseteq Nat
    BY CrsfAssumption DEF Bytes
  <2> QED BY <2>1, <2>2 DEF LengthFits
<1>2. n \in 4 .. BufferSize
  BY <1>1
<1>3. PICK s : s = Append(buffer, byte)
  OBVIOUS
<1>4. /\ s \in Seq(Bytes) /\ Len(s) = n /\ s[n] = byte
      /\ \A i \in 1 .. n - 1 : s[i] = buffer[i]
  BY <1>1, <1>2, <1>3
<1>5. LastBytes(n)' = s
  BY <1>3, FeedLast
<1>6. PICK p : p = SubSeq(buffer, 4, n - 1)
  OBVIOUS
<1>7. /\ p \in Seq(Bytes) /\ Len(p) = n - 4
      /\ \A i \in 1 .. n - 4 : p[i] = buffer[3 + i]
  <2>1. \A i \in 4 .. n - 1 : buffer[i] \in Bytes
    BY <1>1, <1>2
  <2>2. 4 \in Int /\ n - 1 \in Int
    BY <1>2
  <2>3. /\ p \in Seq(Bytes)
        /\ Len(p) = IF 4 <= n - 1 THEN n - 1 - 4 + 1 ELSE 0
        /\ \A i \in 1 .. n - 1 - 4 + 1 : p[i] = buffer[4 + i - 1]
    BY <1>6, <2>1, <2>2, SubSeqProperties
  <2>4. ASSUME NEW i \in 1 .. n - 4 PROVE p[i] = buffer[3 + i]
    <3>1. i \in 1 .. n - 1 - 4 + 1 /\ 4 + i - 1 = 3 + i
      BY <1>2
    <3> QED BY <2>3, <3>1
  <2>5. Len(p) = n - 4
    <3>1. Len(p) = IF 4 <= n - 1 THEN n - 1 - 4 + 1 ELSE 0
      BY <2>3
    <3>2. n \in Int /\ n >= 4
      BY <1>2
    <3> QED BY <1>1, <3>1, <3>2
  <2> QED BY <2>3, <2>4, <2>5
<1>8. SubSeq(s, 4, n - 1) = p
  <2>1. \A i \in 4 .. n - 1 : s[i] \in Bytes
    BY <1>2, <1>4
  <2>2. 4 \in Int /\ n - 1 \in Int
    BY <1>2
  <2>3. PICK q : q = SubSeq(s, 4, n - 1)
    OBVIOUS
  <2>4. /\ q \in Seq(Bytes)
        /\ Len(q) = IF 4 <= n - 1 THEN n - 1 - 4 + 1 ELSE 0
        /\ \A i \in 1 .. n - 1 - 4 + 1 : q[i] = s[4 + i - 1]
    BY <2>1, <2>2, <2>3, SubSeqProperties
  <2>5. Len(q) = Len(p)
    BY <1>2, <1>7, <2>4
  <2>6. ASSUME NEW i \in 1 .. Len(q) PROVE q[i] = p[i]
    <3>1. /\ i \in 1 .. n - 1 - 4 + 1 /\ i \in 1 .. n - 4 /\ 4 + i - 1 = 3 + i
          /\ 3 + i \in 1 .. n - 1
      BY <1>2, <1>7, <2>5
    <3> QED BY <1>4, <1>7, <2>4, <3>1
  <2>7. q = p
    <3>1. q \in Seq(Bytes) /\ p \in Seq(Bytes)
      BY <1>7, <2>4
    <3> QED BY <2>5, <2>6, <3>1, SeqEqual
  <2> QED BY <2>3, <2>7
<1>9. buffer[3] \in Bytes /\ s[3] = buffer[3]
  <2>1. 3 \in 1 .. Len(buffer) /\ 3 \in 1 .. n - 1
    BY <1>1, <1>2
  <2>2. buffer[3] \in Bytes
    BY <1>1, <2>1, ElementOfSeq
  <2> QED BY <1>4, <2>1, <2>2
<1>10. FrameRead = [type |-> buffer[3], payload |-> p]
  BY <1>1, <1>6 DEF FrameRead
<1>11. FrameIn(n)' = [type |-> s[3], payload |-> SubSeq(s, 4, n - 1)]
  BY <1>5 DEF FrameIn
<1>12. FrameIn(n)' = FrameRead
  BY <1>8, <1>9, <1>10, <1>11
<1>13. CrcMatches(byte) <=> Crc(<<buffer[3]>> \o p) = byte
  <2>1. SubSeq(buffer, 3, n - 1) = <<buffer[3]>> \o SubSeq(buffer, 3 + 1, n - 1)
    <3>1. 3 \in 1 .. Len(buffer) /\ n - 1 \in 3 .. Len(buffer)
      BY <1>1, <1>2
    <3> QED BY <1>1, <3>1, SubSeqRecursiveFirst
  <2>2. 3 + 1 = 4
    OBVIOUS
  <2>3. SubSeq(buffer, 3, n - 1) = <<buffer[3]>> \o p
    BY <1>6, <2>1, <2>2
  <2> QED BY <1>1, <2>3 DEF CrcMatches
<1>14. PICK w : w = Wire(FrameRead)
  OBVIOUS
<1>15. PICK c : c = Crc(<<buffer[3]>> \o p)
  OBVIOUS
<1>16. /\ w \in Seq(Int \cup {c}) /\ Len(w) = n
       /\ w[1] = Address /\ w[2] = n - 2 /\ w[3] = buffer[3]
       /\ \A i \in 1 .. n - 4 : w[3 + i] = p[i]
       /\ w[n] = c
  <2>1. /\ w \in Seq(Int \cup {c}) /\ Len(w) = Len(p) + 4
        /\ w[1] = Address /\ w[2] = Len(p) + 2 /\ w[3] = buffer[3]
        /\ \A i \in 1 .. Len(p) : w[3 + i] = p[i]
        /\ w[Len(p) + 4] = c
    <3>1. PICK t : t = buffer[3]
      OBVIOUS
    <3>2. PICK frame : frame = [type |-> t, payload |-> p]
      OBVIOUS
    <3>3. t \in Bytes /\ p \in Seq(Bytes) /\ w = Wire(frame) /\ c = Crc(<<t>> \o p)
      BY <1>7, <1>9, <1>10, <1>14, <1>15, <3>1, <3>2
    <3>4. /\ Wire(frame) \in Seq(Int \cup {Crc(<<t>> \o p)})
          /\ Len(Wire(frame)) = Len(p) + 4
          /\ Wire(frame)[1] = Address
          /\ Wire(frame)[2] = Len(p) + 2
          /\ Wire(frame)[3] = t
          /\ \A i \in 1 .. Len(p) : Wire(frame)[3 + i] = p[i]
          /\ Wire(frame)[Len(p) + 4] = Crc(<<t>> \o p)
      <4>1. frame.type = t /\ frame.payload = p
        BY <3>2
      <4>2. frame.type \in Bytes /\ frame.payload \in Seq(Bytes)
        BY <3>3, <4>1
      <4>3. /\ Wire(frame) \in Seq(Int \cup {Crc(<<frame.type>> \o frame.payload)})
            /\ Len(Wire(frame)) = Len(frame.payload) + 4
            /\ Wire(frame)[1] = Address
            /\ Wire(frame)[2] = Len(frame.payload) + 2
            /\ Wire(frame)[3] = frame.type
            /\ \A i \in 1 .. Len(frame.payload) : Wire(frame)[3 + i] = frame.payload[i]
            /\ Wire(frame)[Len(frame.payload) + 4] = Crc(<<frame.type>> \o frame.payload)
        BY <4>2, WireBytes
      <4> QED BY <4>1, <4>3
    <3> QED BY <3>1, <3>3, <3>4
  <2>2. Len(p) + 4 = n /\ Len(p) + 2 = n - 2
    BY <1>2, <1>7
  <2> QED BY <1>7, <2>1, <2>2
<1>17. ASSUME NEW i \in 1 .. n - 1 PROVE w[i] = s[i]
  <2>1. CASE i \in 1 .. 3
    BY <1>1, <1>4, <1>16, <2>1
  <2>2. CASE i \notin 1 .. 3
    <3>1. PICK j : j = i - 3
      OBVIOUS
    <3>2. j \in 1 .. n - 4 /\ 3 + j = i
      BY <1>2, <2>2, <3>1
    <3> QED BY <1>4, <1>7, <1>16, <3>2
  <2> QED BY <2>1, <2>2
<1>18. w = s <=> c = byte
  <2>1. ASSUME c = byte PROVE w = s
    <3>1. byte \in Int
      BY <1>1
    <3>2. w \in Seq(Int) /\ s \in Seq(Int)
      <4>1. Int \cup {c} = Int /\ Bytes \subseteq Int
        BY <1>1, <2>1, <3>1
      <4> QED BY <1>4, <1>16, <4>1, SeqMonotonic
    <3>3. Len(w) = Len(s) /\ Len(w) = n
      BY <1>4, <1>16
    <3>4. ASSUME NEW i \in 1 .. Len(w) PROVE w[i] = s[i]
      <4>1. CASE i = n
        BY <1>4, <1>16, <2>1, <4>1
      <4>2. CASE i # n
        <5>1. i \in 1 .. n - 1
          BY <1>2, <3>3, <4>2
        <5> QED BY <1>17, <5>1
      <4> QED BY <4>1, <4>2
    <3> QED BY <3>2, <3>3, <3>4, SeqEqual
  <2>2. ASSUME w = s PROVE c = byte
    BY <1>4, <1>16, <2>2
  <2> QED BY <2>1, <2>2
<1>19. FrameRead.type = buffer[3] /\ FrameRead.payload = p
  BY <1>10
<1> QED BY <1>2, <1>5, <1>7, <1>9, <1>12, <1>13, <1>14, <1>15, <1>18, <1>19

\* What is handed out fits its array and was sent.
LEMMA FeedReceived ==
  ASSUME RadioInv, NEW byte \in Bytes, feed_byte(byte)
  PROVE  CrsfTypeOK' /\ ReceivedAsSent'
<1>1. delivered' = IF Complete(byte) /\ CrcMatches(byte) THEN FrameRead ELSE None
  BY DEF feed_byte
<1>2. /\ buffer' \in Seq(Bytes) /\ Len(buffer') < BufferSize
      /\ expected_size' \in 0 .. BufferSize
      /\ state' \in {"WaitingForAddress", "WaitingForLength", "Collecting"}
  BY FeedOutcome DEF Idle, Begun, Continued
<1>3. CASE Complete(byte) /\ CrcMatches(byte)
  <2>1. PICK n : n = Len(buffer) + 1
    OBVIOUS
  <2>2. /\ n \in 4 .. BufferSize
        /\ FrameRead.type \in Bytes
        /\ FrameRead.payload \in Seq(Bytes) /\ Len(FrameRead.payload) = n - 4
        /\ Wire(FrameRead) = LastBytes(n)'
    BY <1>3, <2>1, FeedComplete
  <2>3. PICK frame : frame = FrameRead
    OBVIOUS
  <2>4. delivered' = frame /\ Wire(frame) = LastBytes(n)'
        /\ frame.type \in Bytes /\ frame.payload \in Seq(Bytes) /\ Len(frame.payload) = n - 4
    BY <1>1, <1>3, <2>2, <2>3
  <2>5. Len(Wire(frame)) = n /\ n <= Len(stream')
    <3>1. PICK w : w = Append(buffer, byte)
      OBVIOUS
    <3>2. Wire(frame) = w
      BY <2>1, <2>4, <3>1, FeedLast
    <3>3. buffer \in Seq(Bytes) /\ Len(w) = Len(buffer) + 1
      BY <3>1 DEF RadioInv, CrsfTypeOK
    <3> QED BY <2>1, <3>2, <3>3, FeedStream
  <2>6. CrsfTypeOK'
    BY <1>2, <2>2, <2>4, CrsfAssumption DEF CrsfTypeOK
  <2>7. Wire(delivered)' = Wire(frame)
    BY <2>4 DEF Wire
  <2>8. LastBytes(Len(Wire(delivered)))' = LastBytes(n)'
    BY <2>5, <2>7 DEF LastBytes
  <2>9. ReceivedAsSent'
    BY <2>4, <2>5, <2>7, <2>8 DEF ReceivedAsSent
  <2> QED BY <2>6, <2>9
<1>4. CASE ~(Complete(byte) /\ CrcMatches(byte))
  BY <1>1, <1>2, <1>4 DEF CrsfTypeOK, ReceivedAsSent
<1> QED BY <1>3, <1>4

\* A frame that was sent is handed out.
LEMMA FeedMissesNothing ==
  ASSUME RadioInv, NEW byte \in Bytes, feed_byte(byte)
  PROVE  NoFrameMissed'
<1>1. /\ stream' \in Seq([byte : Bytes, address : BOOLEAN])
      /\ Len(stream') \in Nat
      /\ \A k \in 2 .. Len(stream') : k - 1 <= Len(stream) /\ Back(k)' = Back(k - 1)
  <2>1. Len(stream') \in 1 .. BufferSize
    BY FeedStream
  <2>2. Len(stream') \in Nat
    BY <2>1, CrsfAssumption
  <2> QED BY <2>2, FeedStream
<1> SUFFICES ASSUME NEW n \in 4 .. BufferSize, n <= Len(stream'),
                    stream'[Len(stream') - n + 1].address,
                    Wire(FrameIn(n)') = LastBytes(n)'
             PROVE  delivered' = FrameIn(n)'
  <2> SUFFICES ASSUME NEW n \in 4 .. BufferSize,
                      (/\ n <= Len(stream)
                       /\ stream[Len(stream) - n + 1].address
                       /\ Wire(FrameIn(n)) = LastBytes(n))'
               PROVE  (delivered = FrameIn(n))'
    BY DEF NoFrameMissed
  <2>1. Wire(FrameIn(n))' = Wire(FrameIn(n)')
    BY DEF Wire
  <2> QED BY <2>1
<1>2. BufferSize \in Nat /\ Len(stream) \in Nat /\ n \in Nat
  BY CrsfAssumption DEF RadioInv, BufferLast
<1>3. PICK s : s = LastBytes(n)'
  OBVIOUS
<1>4. s = [i \in 1 .. n |-> stream'[Len(stream') - n + i].byte]
  BY <1>3 DEF LastBytes
<1>5. ASSUME NEW i \in 1 .. n
      PROVE  s[i] = Back(n + 1 - i)'.byte /\ s[i] \in Bytes
  <2>1. /\ Len(stream') - n + i = Len(stream') + 1 - (n + 1 - i)
        /\ Len(stream') - n + i \in 1 .. Len(stream')
    BY <1>1, <1>2
  <2>2. s[i] = stream'[Len(stream') - n + i].byte
    BY <1>4
  <2>3. stream'[Len(stream') - n + i] = Back(n + 1 - i)'
    BY <2>1 DEF Back
  <2>4. stream'[Len(stream') - n + i] \in [byte : Bytes, address : BOOLEAN]
    BY <1>1, <2>1, ElementOfSeq
  <2> QED BY <2>2, <2>3, <2>4
<1>6. s[1] = Address /\ s[2] = n - 2
  <2>1. PICK t, p : t = s[3] /\ p = SubSeq(s, 4, n - 1)
    OBVIOUS
  <2>2. PICK frame : frame = [type |-> t, payload |-> p]
    OBVIOUS
  <2>3. FrameIn(n)' = frame
    BY <1>3, <2>1, <2>2 DEF FrameIn
  <2>4. t \in Bytes
    BY <1>2, <1>5, <2>1
  <2>5. p \in Seq(Bytes) /\ Len(p) = n - 4
    <3>1. \A i \in 4 .. n - 1 : s[i] \in Bytes
      BY <1>2, <1>5
    <3>2. 4 \in Int /\ n - 1 \in Int
      BY <1>2
    <3>3. /\ p \in Seq(Bytes)
          /\ Len(p) = IF 4 <= n - 1 THEN n - 1 - 4 + 1 ELSE 0
      BY <2>1, <3>1, <3>2, SubSeqProperties
    <3> QED BY <1>2, <3>3
  <2>6. Wire(frame) = s
    BY <1>3, <2>3
  <2>7. Wire(frame)[1] = Address /\ Wire(frame)[2] = Len(p) + 2
    <3>1. frame.type = t /\ frame.payload = p
      BY <2>2
    <3>2. /\ Wire(frame) \in Seq(Int \cup {Crc(<<frame.type>> \o frame.payload)})
          /\ Len(Wire(frame)) = Len(frame.payload) + 4
          /\ Wire(frame)[1] = Address
          /\ Wire(frame)[2] = Len(frame.payload) + 2
      BY <2>4, <2>5, <3>1, WireBytes
    <3> QED BY <3>1, <3>2
  <2> QED BY <1>2, <2>5, <2>6, <2>7
<1>7. PICK k : k = n - 1
  OBVIOUS
<1>8. /\ k \in 1 .. Len(stream) /\ k \in Nat /\ k >= 3 /\ n = k + 1
      /\ Back(n)' = Back(k) /\ Back(k)' = Back(k - 1)
  <2>1. n \in 2 .. Len(stream') /\ k \in 2 .. Len(stream') /\ n - 1 = k /\ k \in Nat /\ k >= 3
        /\ n = k + 1
    BY <1>1, <1>2, <1>7
  <2> QED BY <1>1, <1>2, <2>1
<1>9. BeginsFrame(k)
  <2>1. Len(stream') - n + 1 = Len(stream') + 1 - n
    BY <1>1, <1>2
  <2>2. Back(k).address
    BY <1>8, <2>1 DEF Back
  <2>3. 1 \in 1 .. n /\ 2 \in 1 .. n /\ n + 1 - 1 = n /\ n + 1 - 2 = k
    BY <1>2, <1>7
  <2>4. Back(k).byte = Address /\ Back(k - 1).byte = n - 2
    BY <1>5, <1>6, <1>8, <2>3
  <2>5. LengthFits(Back(k - 1).byte) /\ k < Back(k - 1).byte + 2
    BY <1>2, <1>8, <2>4 DEF LengthFits
  <2> QED BY <2>2, <2>4, <2>5 DEF BeginsFrame
<1>10. Len(buffer) = k
  BY <1>8, <1>9 DEF RadioInv, Tracked
<1>11. Complete(byte)
  <2>1. state = "Collecting" /\ expected_size = buffer[2] + 2
    BY <1>8, <1>10 DEF RadioInv, BufferInv, CrsfTypeOK
  <2>2. buffer[2] = Back(k - 1).byte
    <3>1. k - 1 \in 1 .. Len(buffer) /\ Len(buffer) + 1 - (k - 1) = 2
      BY <1>8, <1>10
    <3> QED BY <3>1 DEF RadioInv, BufferLast
  <2>3. Back(k - 1).byte = n - 2
    <3>1. 2 \in 1 .. n /\ n + 1 - 2 = k
      BY <1>2, <1>7
    <3> QED BY <1>5, <1>6, <1>8, <3>1
  <2> QED BY <1>2, <1>8, <1>10, <2>1, <2>2, <2>3 DEF Complete
<1>12. FrameIn(n)' = FrameRead /\ (CrcMatches(byte) <=> Wire(FrameRead) = LastBytes(n)')
  <2>1. n = Len(buffer) + 1
    BY <1>8, <1>10
  <2> QED BY <1>11, <2>1, FeedComplete
<1>13. CrcMatches(byte)
  BY <1>12
<1> QED BY <1>11, <1>12, <1>13 DEF feed_byte

\* The invariant holds in every state.
LEMMA RadioInvariant == CrsfSpec => [](RadioInv /\ RadioFramesAsSent)
<1> DEFINE Inv == RadioInv /\ RadioFramesAsSent
<1>1. /\ <<>> \in Seq(Bytes) /\ Len(<<>>) = 0
      /\ <<>> \in Seq([byte : Bytes, address : BOOLEAN])
  OBVIOUS
<1>2. ASSUME state = "WaitingForAddress", buffer = <<>>, expected_size = 0, delivered = None,
             stream = <<>>
      PROVE  Inv
  <2>1. CrsfTypeOK
    BY <1>1, <1>2, CrsfAssumption DEF CrsfTypeOK
  <2>2. BufferInv
    BY <1>2 DEF BufferInv
  <2>3. BufferLast
    BY <1>1, <1>2, CrsfAssumption DEF BufferLast
  <2>4. Tracked
    BY <1>1, <1>2 DEF Tracked
  <2>5. ReceivedAsSent /\ NoFrameMissed
    BY <1>1, <1>2 DEF ReceivedAsSent, NoFrameMissed
  <2> QED BY <2>1, <2>2, <2>3, <2>4, <2>5 DEF RadioInv, RadioFramesAsSent
<1>3. CrsfInit => Inv
  BY <1>2 DEF CrsfInit
<1>4. Inv /\ [CrsfNext]_crsfVars => Inv'
  <2> SUFFICES ASSUME Inv, [CrsfNext]_crsfVars PROVE Inv'
    OBVIOUS
  <2>1. ASSUME NEW byte \in Bytes, feed_byte(byte) PROVE Inv'
    BY <2>1, FeedOutcome, FeedRecent, FeedTracked, FeedReceived, FeedMissesNothing
       DEF RadioInv, RadioFramesAsSent
  <2>2. CASE decoder_reset
    <3>1. state' = "WaitingForAddress" /\ buffer' = <<>> /\ expected_size' = 0
          /\ delivered' = None /\ stream' = <<>>
      BY <2>2 DEF decoder_reset, reset
    <3>2. CrsfTypeOK'
      BY <1>1, <3>1, CrsfAssumption DEF CrsfTypeOK
    <3>3. BufferInv'
      BY <3>1 DEF BufferInv
    <3>4. BufferLast'
      BY <1>1, <3>1, CrsfAssumption DEF BufferLast
    <3>5. Tracked'
      BY <1>1, <3>1 DEF Tracked
    <3>6. ReceivedAsSent' /\ NoFrameMissed'
      BY <1>1, <3>1 DEF ReceivedAsSent, NoFrameMissed
    <3> QED BY <3>2, <3>3, <3>4, <3>5, <3>6 DEF RadioInv, RadioFramesAsSent
  <2>3. CASE UNCHANGED crsfVars
    <3>1. UNCHANGED <<state, buffer, expected_size, delivered, stream>>
      BY <2>3 DEF crsfVars, decoder
    <3>2. CrsfTypeOK' /\ BufferInv'
      BY <3>1 DEF RadioInv, CrsfTypeOK, BufferInv, LengthFits
    <3>3. BufferLast' /\ Tracked'
      BY <3>1 DEF RadioInv, BufferLast, Tracked, BeginsFrame, Back, LengthFits
    <3>4. ReceivedAsSent'
      BY <3>1 DEF RadioFramesAsSent, ReceivedAsSent, Wire, LastBytes
    <3>5. NoFrameMissed'
      <4>1. \A n : LastBytes(n)' = LastBytes(n)
        BY <3>1 DEF LastBytes
      <4>2. \A n : FrameIn(n)' = FrameIn(n)
        BY <3>1 DEF FrameIn, LastBytes
      <4>3. NoFrameMissed
        BY DEF RadioFramesAsSent
      <4> QED BY <3>1, <4>1, <4>2, <4>3 DEF NoFrameMissed, Wire
    <3> QED BY <3>2, <3>3, <3>4, <3>5 DEF RadioInv, RadioFramesAsSent
  <2> QED BY <2>1, <2>2, <2>3 DEF CrsfNext
<1> QED BY <1>3, <1>4, PTL DEF CrsfSpec

\* Whatever bytes come over the line, what the radio decoder hands out was sent,
\* and what was sent is handed out, within the bounds of both arrays: for every
\* address, buffer size and checksum.
THEOREM RadioFramesFaithful == CrsfSpec => []RadioFramesAsSent
BY RadioInvariant, PTL

(***************************************************************************)
(* The channels of a radio frame.  Recursive functions first.              *)
(***************************************************************************)

\* A set of numbers with 0 and the successor of each has them all.
LEMMA Induction ==
  ASSUME NEW T, 0 \in T, \A n \in Nat : n \in T => n + 1 \in T
  PROVE  Nat \subseteq T
<1> DEFINE R == {pair \in Nat \X Nat : pair[1] < pair[2]}
<1>1. IsWellFoundedOn(R, Nat)
  <2>1. OpToRel(<, Nat) = R
    BY DEF OpToRel
  <2> QED BY <2>1, NatLessThanWellFounded
<1>2. \A x, y \in Nat : y < x => <<y, x>> \in R
  OBVIOUS
<1> HIDE DEF R
<1> SUFFICES ASSUME NEW other \in Nat \ T
             PROVE  FALSE
  OBVIOUS
<1>3. Nat \ T \in SUBSET Nat /\ Nat \ T # {}
  OBVIOUS
<1>4. PICK x \in Nat \ T : \A y \in Nat \ T : ~(<<y, x>> \in R)
  BY <1>1, <1>3, WFMin
<1>5. x - 1 \in Nat /\ x - 1 < x /\ (x - 1) + 1 = x
  BY <1>4
<1>6. x - 1 \in T
  BY <1>2, <1>4, <1>5
<1> QED BY <1>4, <1>5, <1>6

\* f is computed from its first value by step, up to last.
Computed(f, first, step, last) ==
  f = [i \in 0 .. last |-> IF i = 0 THEN first ELSE step[<<i - 1, f[i - 1]>>]]

\* Whatever the first value and the step, there is such a function.
LEMMA ComputedExists ==
  ASSUME NEW first, NEW step, NEW last \in Nat
  PROVE  \E f : Computed(f, first, step, last)
<1> DEFINE T == {n \in Nat : \E f : Computed(f, first, step, n)}
<1>1. 0 \in T
  <2>1. Computed([i \in 0 .. 0 |-> first], first, step, 0)
    BY DEF Computed
  <2> QED BY <2>1
<1>2. ASSUME NEW n \in Nat, n \in T PROVE n + 1 \in T
  <2>1. PICK f : Computed(f, first, step, n)
    BY <1>2
  <2>2. PICK more : more = [i \in 0 .. n + 1 |-> IF i <= n THEN f[i] ELSE step[<<n, f[n]>>]]
    OBVIOUS
  <2>3. \A i \in 0 .. n : f[i] = IF i = 0 THEN first ELSE step[<<i - 1, f[i - 1]>>]
    BY <2>1 DEF Computed
  <2>4. ASSUME NEW i \in 0 .. n + 1
        PROVE  more[i] = IF i = 0 THEN first ELSE step[<<i - 1, more[i - 1]>>]
    <3>1. CASE i = 0
      <4>1. 0 \in 0 .. n + 1 /\ 0 <= n /\ 0 \in 0 .. n
        OBVIOUS
      <4>2. more[0] = f[0]
        BY <2>2, <4>1
      <4>3. f[0] = first
        BY <2>3, <4>1
      <4> QED BY <3>1, <4>2, <4>3
    <3>2. CASE i # 0 /\ i <= n
      <4>1. i \in 0 .. n /\ i - 1 \in 0 .. n + 1 /\ i - 1 <= n
        BY <3>2
      <4>2. more[i] = f[i] /\ more[i - 1] = f[i - 1]
        BY <2>2, <3>2, <4>1
      <4> QED BY <2>3, <3>2, <4>1, <4>2
    <3>3. CASE i = n + 1
      <4>1. i - 1 = n /\ i - 1 \in 0 .. n + 1 /\ ~(i <= n) /\ i # 0
        BY <3>3
      <4>2. more[i] = step[<<n, f[n]>>] /\ more[i - 1] = f[n]
        BY <2>2, <4>1
      <4> QED BY <4>1, <4>2
    <3> QED BY <3>1, <3>2, <3>3
  <2>5. more = [i \in 0 .. n + 1 |-> more[i]]
    BY <2>2
  <2>6. Computed(more, first, step, n + 1)
    BY <2>4, <2>5 DEF Computed
  <2> QED BY <2>6
<1> HIDE DEF T
<1>3. last \in T
  BY <1>1, <1>2, Induction
<1> QED BY <1>3 DEF T

\* What holds first and is kept by every step up to last holds throughout.
LEMMA KeptThroughout ==
  ASSUME NEW f, NEW last \in Nat, NEW Kept,
         <<0, f[0]>> \in Kept,
         \A i \in Nat : i < last /\ <<i, f[i]>> \in Kept => <<i + 1, f[i + 1]>> \in Kept
  PROVE  \A i \in 0 .. last : <<i, f[i]>> \in Kept
<1> DEFINE T == {n \in Nat : n <= last => <<n, f[n]>> \in Kept}
<1>1. 0 \in T
  OBVIOUS
<1>2. ASSUME NEW n \in Nat, n \in T PROVE n + 1 \in T
  <2> SUFFICES ASSUME n + 1 <= last PROVE <<n + 1, f[n + 1]>> \in Kept
    OBVIOUS
  <2>1. n < last /\ n <= last
    OBVIOUS
  <2> QED BY <1>2, <2>1
<1> HIDE DEF T
<1>3. Nat \subseteq T
  BY <1>1, <1>2, Induction
<1> QED BY <1>3 DEF T

ComputedWithin(f, first, step, last, Kept) ==
  /\ f = [i \in 0 .. last |-> f[i]]
  /\ f[0] = first
  /\ \A i \in 1 .. last : <<i - 1, f[i - 1]>> \in Kept /\ f[i] = step[<<i - 1, f[i - 1]>>]

\* There is a function computed by steps, and it has what its steps keep.
LEMMA ComputedKeeps ==
  ASSUME NEW first, NEW step, NEW last \in Nat, NEW Kept,
         <<0, first>> \in Kept,
         \A i \in Nat : \A v : i < last /\ <<i, v>> \in Kept => <<i + 1, step[<<i, v>>]>> \in Kept
  PROVE  \E f : ComputedWithin(f, first, step, last, Kept)
<1>1. PICK f : Computed(f, first, step, last)
  BY ComputedExists
<1>2. /\ f = [i \in 0 .. last |-> f[i]]
      /\ \A i \in 0 .. last : f[i] = IF i = 0 THEN first ELSE step[<<i - 1, f[i - 1]>>]
  BY <1>1 DEF Computed
<1>3. f[0] = first
  <2>1. 0 \in 0 .. last
    OBVIOUS
  <2> QED BY <1>2, <2>1
<1>4. ASSUME NEW i \in 1 .. last PROVE f[i] = step[<<i - 1, f[i - 1]>>] /\ i - 1 \in 0 .. last
  <2>1. i \in 0 .. last /\ i # 0 /\ i - 1 \in 0 .. last
    OBVIOUS
  <2> QED BY <1>2, <2>1
<1>5. ASSUME NEW i \in Nat, i < last, <<i, f[i]>> \in Kept PROVE <<i + 1, f[i + 1]>> \in Kept
  <2>1. i + 1 \in 1 .. last /\ (i + 1) - 1 = i
    BY <1>5
  <2>2. f[i + 1] = step[<<i, f[i]>>]
    BY <1>4, <2>1
  <2> QED BY <1>5, <2>2
<1>6. \A i \in 0 .. last : <<i, f[i]>> \in Kept
  BY <1>3, <1>5, KeptThroughout
<1>7. ComputedWithin(f, first, step, last, Kept)
  BY <1>2, <1>3, <1>4, <1>6 DEF ComputedWithin
<1> QED BY <1>7

(***************************************************************************)
(* Weights of bits                                                         *)
(***************************************************************************)

IsWeight(f, n) == f = [i \in 0 .. n |-> IF i = 0 THEN 1 ELSE 2 * f[i - 1]]

\* Two tables of weights agree as far as both go.
LEMMA WeightsAgree ==
  ASSUME NEW m \in Nat, NEW n \in Nat, NEW f, NEW g, IsWeight(f, m), IsWeight(g, n), m <= n
  PROVE  f[m] = g[m]
<1> DEFINE T == {i \in Nat : i <= m => f[i] = g[i]}
<1>1. /\ \A i \in 0 .. m : f[i] = IF i = 0 THEN 1 ELSE 2 * f[i - 1]
      /\ \A i \in 0 .. n : g[i] = IF i = 0 THEN 1 ELSE 2 * g[i - 1]
  BY DEF IsWeight
<1>2. 0 \in T
  BY <1>1
<1>3. ASSUME NEW i \in Nat, i \in T PROVE i + 1 \in T
  <2> SUFFICES ASSUME i + 1 <= m PROVE f[i + 1] = g[i + 1]
    OBVIOUS
  <2>1. i + 1 \in 0 .. m /\ i + 1 \in 0 .. n /\ i + 1 # 0 /\ (i + 1) - 1 = i /\ i <= m
    OBVIOUS
  <2>2. f[i] = g[i]
    BY <1>3, <2>1
  <2>3. f[i + 1] = 2 * f[i] /\ g[i + 1] = 2 * g[i]
    BY <1>1, <2>1
  <2> QED BY <2>2, <2>3
<1> HIDE DEF T
<1>4. m \in T
  BY <1>2, <1>3, Induction
<1> QED BY <1>4 DEF T

\* There is a table up to every bit.
LEMMA WeightExists ==
  ASSUME NEW n \in Nat
  PROVE  \E f : IsWeight(f, n)
<1> DEFINE Kept == Nat \X Nat
           double == [pair \in Kept |-> 2 * pair[2]]
<1>1. <<0, 1>> \in Kept
  OBVIOUS
<1>2. \A i \in Nat : \A v : <<i, v>> \in Kept =>
        double[<<i, v>>] = 2 * v /\ <<i + 1, double[<<i, v>>]>> \in Kept
  OBVIOUS
<1> HIDE DEF Kept, double
<1>3. PICK f : /\ f = [i \in 0 .. n |-> f[i]]
               /\ f[0] = 1
               /\ \A i \in 1 .. n :
                    <<i - 1, f[i - 1]>> \in Kept /\ f[i] = double[<<i - 1, f[i - 1]>>]
  <2>1. \E f : ComputedWithin(f, 1, double, n, Kept)
    BY <1>1, <1>2, ComputedKeeps
  <2> QED BY <2>1 DEF ComputedWithin
<1>4. ASSUME NEW i \in 0 .. n PROVE f[i] = IF i = 0 THEN 1 ELSE 2 * f[i - 1]
  <2>1. CASE i = 0
    BY <1>3, <2>1
  <2>2. CASE i # 0
    <3>1. i \in 1 .. n /\ i - 1 \in Nat
      BY <2>2
    <3> QED BY <1>2, <1>3, <2>2, <3>1
  <2> QED BY <2>1, <2>2
<1> QED BY <1>3, <1>4 DEF IsWeight

\* Each bit weighs twice the one below it.
LEMMA BitWeights ==
  /\ Bit[0] = 1
  /\ \A n \in Nat : Bit[n + 1] = 2 * Bit[n]
<1> DEFINE table(n) == CHOOSE f : IsWeight(f, n)
           weight == [n \in Nat |-> table(n)[n]]
<1>1. \A n \in Nat : IsWeight(table(n), n)
  BY WeightExists
<1> HIDE DEF table
<1>2. weight[0] = 1
  BY <1>1 DEF IsWeight
<1>3. ASSUME NEW n \in Nat PROVE weight[n + 1] = 2 * weight[n]
  <2>1. table(n + 1)[n + 1] = 2 * table(n + 1)[n]
    BY <1>1 DEF IsWeight
  <2>2. table(n)[n] = table(n + 1)[n]
    BY <1>1, WeightsAgree
  <2> QED BY <2>1, <2>2
<1>4. ASSUME NEW n \in Nat PROVE weight[n] = IF n = 0 THEN 1 ELSE 2 * weight[n - 1]
  <2>1. CASE n = 0
    BY <1>2, <2>1
  <2>2. CASE n # 0
    <3>1. n - 1 \in Nat /\ (n - 1) + 1 = n
      BY <2>2
    <3> HIDE DEF weight
    <3> QED BY <1>3, <2>2, <3>1
  <2> QED BY <2>1, <2>2
<1>5. weight = [n \in Nat |-> IF n = 0 THEN 1 ELSE 2 * weight[n - 1]]
  <2>1. weight = [n \in Nat |-> weight[n]]
    OBVIOUS
  <2> HIDE DEF weight
  <2> QED BY <1>4, <2>1
<1> HIDE DEF weight
<1>6. Bit = [n \in Nat |-> IF n = 0 THEN 1 ELSE 2 * Bit[n - 1]]
  BY <1>5 DEF Bit
<1>7. \A n \in Nat : Bit[n] = IF n = 0 THEN 1 ELSE 2 * Bit[n - 1]
  BY <1>6
<1> QED BY <1>7

\* Weights are positive.
LEMMA BitPositive == \A n \in Nat : Bit[n] \in Nat \ {0}
<1> DEFINE T == {n \in Nat : Bit[n] \in Nat \ {0}}
<1>1. 0 \in T
  BY BitWeights
<1>2. ASSUME NEW n \in Nat, n \in T PROVE n + 1 \in T
  <2>1. Bit[n] \in Nat \ {0} /\ Bit[n + 1] = 2 * Bit[n]
    BY <1>2, BitWeights
  <2> QED BY <2>1
<1> HIDE DEF T
<1>3. Nat \subseteq T
  BY <1>1, <1>2, Induction
<1> QED BY <1>3 DEF T

\* The weight of a sum is the product of the weights.
LEMMA BitSum ==
  ASSUME NEW m \in Nat, NEW n \in Nat
  PROVE  Bit[m + n] = Bit[m] * Bit[n]
<1> DEFINE T == {k \in Nat : Bit[m + k] = Bit[m] * Bit[k]}
<1>1. 0 \in T
  <2>1. Bit[0] = 1 /\ Bit[m] \in Nat /\ m + 0 = m
    BY BitWeights, BitPositive
  <2> QED BY <2>1
<1>2. ASSUME NEW k \in Nat, k \in T PROVE k + 1 \in T
  <2>1. PICK a, b, c : a = Bit[m] /\ b = Bit[k] /\ c = Bit[m + k]
    OBVIOUS
  <2>2. a \in Nat /\ b \in Nat /\ c \in Nat
    BY <2>1, BitPositive
  <2>3. c = a * b
    BY <1>2, <2>1
  <2>4. Bit[k + 1] = 2 * b
    BY <2>1, BitWeights
  <2>5. Bit[m + (k + 1)] = 2 * c
    <3>1. m + k \in Nat /\ m + (k + 1) = (m + k) + 1
      OBVIOUS
    <3> QED BY <2>1, <3>1, BitWeights
  <2>6. 2 * (a * b) = a * (2 * b)
    BY <2>2
  <2> QED BY <2>1, <2>3, <2>4, <2>5, <2>6
<1> HIDE DEF T
<1>3. n \in T
  BY <1>1, <1>2, Induction
<1> QED BY <1>3 DEF T

\* Of two bits the lower weighs no more.
LEMMA BitOrder ==
  ASSUME NEW m \in Nat, NEW n \in Nat, m <= n
  PROVE  Bit[m] <= Bit[n]
<1>1. n - m \in Nat /\ m + (n - m) = n
  OBVIOUS
<1>2. PICK a, b : a = Bit[m] /\ b = Bit[n - m]
  OBVIOUS
<1>3. a \in Nat \ {0} /\ b \in Nat \ {0}
  BY <1>1, <1>2, BitPositive
<1>4. Bit[n] = a * b
  BY <1>1, <1>2, BitSum
<1>5. a <= a * b
  BY <1>3
<1> QED BY <1>2, <1>4, <1>5

(***************************************************************************)
(* Division                                                                *)
(***************************************************************************)

\* Quotient and remainder are the only ones.
LEMMA QuotientUnique ==
  ASSUME NEW d \in Nat \ {0}, NEW n \in Nat, NEW q \in Int, NEW r \in Nat, r < d, n = d * q + r
  PROVE  n \div d = q /\ n % d = r
<1>1. PICK p, s : p = n \div d /\ s = n % d
  OBVIOUS
<1>2. p \in Int /\ s \in Nat /\ s < d /\ n = d * p + s
  BY <1>1
<1>3. ~(p < q)
  <2> SUFFICES ASSUME p + 1 <= q PROVE FALSE
    BY <1>2
  <2>1. d * (p + 1) <= d * q
    BY <1>2
  <2>2. d * (p + 1) = d * p + d /\ d * p \in Int /\ d * q \in Int
    BY <1>2
  <2> QED BY <1>2, <2>1, <2>2
<1>4. ~(q < p)
  <2> SUFFICES ASSUME q + 1 <= p PROVE FALSE
    BY <1>2
  <2>1. d * (q + 1) <= d * p
    BY <1>2
  <2>2. d * (q + 1) = d * q + d /\ d * p \in Int /\ d * q \in Int
    BY <1>2
  <2> QED BY <1>2, <2>1, <2>2
<1>5. p = q
  BY <1>2, <1>3, <1>4
<1>6. s = r
  <2>1. d * q \in Int
    OBVIOUS
  <2> QED BY <1>2, <1>5, <2>1
<1> QED BY <1>1, <1>5, <1>6

\* A quotient of a number that is not negative, and what it bounds.
LEMMA QuotientBounds ==
  ASSUME NEW d \in Nat \ {0}, NEW n \in Nat
  PROVE  /\ n \div d \in Nat /\ n % d \in Nat /\ n % d < d
         /\ n = d * (n \div d) + (n % d)
         /\ \A m \in Nat : n < d * m => n \div d < m
<1>1. PICK p, s : p = n \div d /\ s = n % d
  OBVIOUS
<1>2. p \in Int /\ s \in Nat /\ s < d /\ n = d * p + s
  BY <1>1
<1>3. p \in Nat
  <2> SUFFICES ASSUME p + 1 <= 0 PROVE FALSE
    BY <1>2
  <2>1. d * (p + 1) <= 0
    BY <1>2
  <2>2. d * (p + 1) = d * p + d /\ d * p \in Int
    BY <1>2
  <2> QED BY <1>2, <2>1, <2>2
<1>4. ASSUME NEW m \in Nat, n < d * m PROVE p < m
  <2> SUFFICES ASSUME m <= p PROVE FALSE
    BY <1>3
  <2>1. d * m <= d * p
    BY <1>3
  <2>2. d * p \in Nat /\ d * m \in Nat
    BY <1>3
  <2> QED BY <1>2, <1>4, <2>1, <2>2
<1> QED BY <1>1, <1>2, <1>3, <1>4

\* A multiple of the divisor adds to the quotient and not to the remainder.
LEMMA QuotientSum ==
  ASSUME NEW d \in Nat \ {0}, NEW n \in Nat, NEW m \in Nat
  PROVE  (n + d * m) \div d = (n \div d) + m /\ (n + d * m) % d = n % d
<1>1. PICK p, s : p = n \div d /\ s = n % d
  OBVIOUS
<1>2. p \in Nat /\ s \in Nat /\ s < d /\ n = d * p + s
  BY <1>1, QuotientBounds
<1>3. d * (p + m) = d * p + d * m /\ d * p \in Nat /\ d * m \in Nat /\ p + m \in Int
  BY <1>2
<1>4. PICK total : total = n + d * m
  OBVIOUS
<1>5. total \in Nat /\ total = d * (p + m) + s
  BY <1>2, <1>3, <1>4
<1>6. total \div d = p + m /\ total % d = s
  BY <1>2, <1>3, <1>5, QuotientUnique
<1> QED BY <1>1, <1>4, <1>6

\* Dividing twice divides by the product.
LEMMA QuotientTwice ==
  ASSUME NEW d \in Nat \ {0}, NEW e \in Nat \ {0}, NEW n \in Nat
  PROVE  n \div (d * e) = (n \div d) \div e
<1>1. PICK p, s : p = n \div d /\ s = n % d
  OBVIOUS
<1>2. p \in Nat /\ s \in Nat /\ s < d /\ n = d * p + s
  BY <1>1, QuotientBounds
<1>3. PICK q, t : q = p \div e /\ t = p % e
  OBVIOUS
<1>4. q \in Nat /\ t \in Nat /\ t < e /\ p = e * q + t
  BY <1>2, <1>3, QuotientBounds
<1>5. PICK de : de = d * e
  OBVIOUS
<1>6. de \in Nat \ {0}
  BY <1>5
<1>7. d * (e * q + t) = de * q + d * t
  BY <1>4, <1>5
<1>8. d * t \in Nat /\ de * q \in Nat
  BY <1>4, <1>6
<1>9. d * t + s < de
  <2>1. d * (t + 1) <= d * e
    BY <1>4
  <2>2. d * (t + 1) = d * t + d
    BY <1>4
  <2> QED BY <1>2, <1>5, <1>6, <1>8, <2>1, <2>2
<1>10. n = de * q + (d * t + s)
  BY <1>2, <1>4, <1>7, <1>8
<1>11. n \div de = q
  <2>1. d * t + s \in Nat /\ q \in Int
    BY <1>2, <1>4, <1>8
  <2> QED BY <1>6, <1>9, <1>10, <2>1, QuotientUnique
<1> QED BY <1>1, <1>3, <1>5, <1>11

(***************************************************************************)
(* The payload as a number                                                 *)
(***************************************************************************)

Payloads == [1 .. PayloadLength -> Bytes]

\* The numbers of the beginnings of a payload.
IsTotal(total, bytes) ==
  total = [i \in 0 .. PayloadLength |->
             IF i = 0 THEN 0 ELSE total[i - 1] + bytes[i] * Bit[ByteBits * (i - 1)]]

\* Bytes that fit their places: n of them make a number of n bytes.
TotalBounds == {pair \in Nat \X Nat : pair[2] < Bit[ByteBits * pair[1]]}

\* The constants are positive numbers.
LEMMA ChannelConstants ==
  /\ ByteBits \in Nat \ {0} /\ ChannelBits \in Nat \ {0} /\ ChannelCount \in Nat \ {0}
  /\ PayloadLength \in Nat \ {0} /\ AccumulatorBits \in Nat \ {0}
BY ChannelsAssumption

\* One more byte makes a number of one more byte.
LEMMA TotalNext ==
  ASSUME NEW bytes \in Payloads, NEW i \in Nat, i < PayloadLength, NEW v \in Nat,
         v < Bit[ByteBits * i]
  PROVE  /\ bytes[i + 1] \in Nat /\ Bit[ByteBits * i] \in Nat
         /\ v + bytes[i + 1] * Bit[ByteBits * i] \in Nat
         /\ v + bytes[i + 1] * Bit[ByteBits * i] < Bit[ByteBits * (i + 1)]
<1>1. i + 1 \in 1 .. PayloadLength
  BY ChannelConstants
<1>2. PICK b, w, base : b = bytes[i + 1] /\ w = Bit[ByteBits * i] /\ base = Bit[ByteBits]
  OBVIOUS
<1>3. ByteBits * i \in Nat /\ ByteBits \in Nat /\ ByteBits * (i + 1) = ByteBits * i + ByteBits
  BY ChannelConstants
<1>4. w \in Nat \ {0} /\ base \in Nat \ {0}
  BY <1>2, <1>3, BitPositive
<1>5. b \in Nat /\ b + 1 <= base
  <2>1. b \in Bytes
    BY <1>1, <1>2 DEF Payloads
  <2>2. b \in 0 .. base - 1
    BY <1>2, <2>1, ChannelsAssumption
  <2> QED BY <1>4, <2>2
<1>6. Bit[ByteBits * (i + 1)] = w * base
  BY <1>2, <1>3, BitSum
<1>7. w * (b + 1) <= w * base
  BY <1>4, <1>5
<1>8. w * (b + 1) = b * w + w /\ b * w \in Nat /\ w * base \in Nat
  BY <1>4, <1>5
<1>9. v < w
  BY <1>2
<1> QED BY <1>2, <1>4, <1>5, <1>6, <1>7, <1>8, <1>9

\* Every payload is a number.
LEMMA TotalExists ==
  ASSUME NEW bytes \in Payloads
  PROVE  \E total : IsTotal(total, bytes)
<1> DEFINE step == [pair \in TotalBounds |-> pair[2] + bytes[pair[1] + 1] * Bit[ByteBits * pair[1]]]
<1>1. PayloadLength \in Nat
  BY ChannelConstants
<1>2. <<0, 0>> \in TotalBounds
  <2>1. ByteBits * 0 = 0
    BY ChannelConstants
  <2> QED BY <2>1, BitWeights DEF TotalBounds
<1>3. \A i, v : <<i, v>> \in TotalBounds => step[<<i, v>>] = v + bytes[i + 1] * Bit[ByteBits * i]
  OBVIOUS
<1> HIDE DEF step
<1>4. ASSUME NEW i \in Nat, NEW v, i < PayloadLength, <<i, v>> \in TotalBounds
      PROVE  <<i + 1, step[<<i, v>>]>> \in TotalBounds
  <2>1. v \in Nat /\ v < Bit[ByteBits * i]
    BY <1>4 DEF TotalBounds
  <2>2. step[<<i, v>>] \in Nat /\ step[<<i, v>>] < Bit[ByteBits * (i + 1)]
    BY <1>3, <1>4, <2>1, TotalNext
  <2> QED BY <2>2 DEF TotalBounds
<1>5. PICK f : /\ f = [i \in 0 .. PayloadLength |-> f[i]]
               /\ f[0] = 0
               /\ \A i \in 1 .. PayloadLength :
                    <<i - 1, f[i - 1]>> \in TotalBounds /\ f[i] = step[<<i - 1, f[i - 1]>>]
  <2>1. \E f : ComputedWithin(f, 0, step, PayloadLength, TotalBounds)
    BY <1>1, <1>2, <1>4, ComputedKeeps
  <2> QED BY <2>1 DEF ComputedWithin
<1>6. ASSUME NEW i \in 0 .. PayloadLength
      PROVE  f[i] = IF i = 0 THEN 0 ELSE f[i - 1] + bytes[i] * Bit[ByteBits * (i - 1)]
  <2>1. CASE i = 0
    BY <1>5, <2>1
  <2>2. CASE i # 0
    <3>1. i \in 1 .. PayloadLength /\ (i - 1) + 1 = i
      BY <1>1, <2>2
    <3> QED BY <1>3, <1>5, <2>2, <3>1
  <2> QED BY <2>1, <2>2
<1>7. IsTotal(f, bytes)
  BY <1>5, <1>6 DEF IsTotal
<1> QED BY <1>7

\* Its beginnings fit their bytes.
LEMMA TotalBounded ==
  ASSUME NEW bytes \in Payloads, NEW total, IsTotal(total, bytes)
  PROVE  /\ \A i \in 0 .. PayloadLength : total[i] \in Nat /\ total[i] < Bit[ByteBits * i]
         /\ \A i \in Nat : i < PayloadLength =>
              total[i + 1] = total[i] + bytes[i + 1] * Bit[ByteBits * i]
<1>1. PayloadLength \in Nat
  BY ChannelConstants
<1>2. \A i \in 0 .. PayloadLength :
        total[i] = IF i = 0 THEN 0 ELSE total[i - 1] + bytes[i] * Bit[ByteBits * (i - 1)]
  BY DEF IsTotal
<1>3. ASSUME NEW i \in Nat, i < PayloadLength
      PROVE  total[i + 1] = total[i] + bytes[i + 1] * Bit[ByteBits * i]
  <2>1. i + 1 \in 0 .. PayloadLength /\ i + 1 # 0 /\ (i + 1) - 1 = i
    BY <1>1, <1>3
  <2> QED BY <1>2, <2>1
<1>4. <<0, total[0]>> \in TotalBounds
  <2>1. 0 \in 0 .. PayloadLength /\ ByteBits * 0 = 0
    BY ChannelConstants
  <2>2. total[0] = 0
    BY <1>2, <2>1
  <2> QED BY <2>1, <2>2, BitWeights DEF TotalBounds
<1>5. ASSUME NEW i \in Nat, i < PayloadLength, <<i, total[i]>> \in TotalBounds
      PROVE  <<i + 1, total[i + 1]>> \in TotalBounds
  <2>1. total[i] \in Nat /\ total[i] < Bit[ByteBits * i]
    BY <1>5 DEF TotalBounds
  <2>2. total[i + 1] \in Nat /\ total[i + 1] < Bit[ByteBits * (i + 1)]
    BY <1>3, <1>5, <2>1, TotalNext
  <2> QED BY <2>2 DEF TotalBounds
<1>6. \A i \in 0 .. PayloadLength : <<i, total[i]>> \in TotalBounds
  BY <1>1, <1>4, <1>5, KeptThroughout
<1> QED BY <1>3, <1>6 DEF TotalBounds

(***************************************************************************)
(* Unpacking                                                               *)
(***************************************************************************)

\* The i-th channel of a number.
Digit(number, i) == (number \div Bit[ChannelBits * (i - 1)]) % Bit[ChannelBits]

UnpackStates == [bits : Nat, available : Nat, byte_index : 0 .. PayloadLength, values : Seq(Nat)]

\* After c channels: of the bytes loaded so far the accumulator holds what is above
\* the c channels, and the channels are those of the number they make.
Unpacked(total, c, s) ==
  /\ s \in UnpackStates
  /\ s.available + ChannelBits * c = ByteBits * s.byte_index
  /\ s.bits = total[s.byte_index] \div Bit[ChannelBits * c]
  /\ s.values = [i \in 1 .. c |-> Digit(total[s.byte_index], i)]

\* A byte above a channel does not change it.
LEMMA DigitKept ==
  ASSUME NEW number \in Nat, NEW byte \in Nat, NEW i \in Nat \ {0}, NEW n \in Nat,
         ChannelBits * i <= n
  PROVE  Digit(number + byte * Bit[n], i) = Digit(number, i)
<1>1. PICK low, rest : low = ChannelBits * (i - 1) /\ rest = n - ChannelBits * i
  OBVIOUS
<1>2. i - 1 \in Nat /\ ChannelBits \in Nat
  BY ChannelConstants
<1>3. /\ low \in Nat /\ rest \in Nat
      /\ ChannelBits * i = low + ChannelBits /\ n = low + (ChannelBits + rest)
  BY <1>1, <1>2
<1>4. PICK a, b, r : a = Bit[low] /\ b = Bit[ChannelBits] /\ r = Bit[rest]
  OBVIOUS
<1>5. a \in Nat \ {0} /\ b \in Nat \ {0} /\ r \in Nat \ {0}
  BY <1>2, <1>3, <1>4, BitPositive
<1>6. Bit[n] = a * (b * r)
  <2>1. Bit[ChannelBits + rest] = b * r
    BY <1>2, <1>3, <1>4, BitSum
  <2> QED BY <1>2, <1>3, <1>4, <2>1, BitSum
<1>7. PICK m : m = byte * r
  OBVIOUS
<1>8. m \in Nat /\ b * m \in Nat
  BY <1>5, <1>7
<1>9. byte * (a * (b * r)) = a * (b * m)
  BY <1>5, <1>7
<1>10. (number + a * (b * m)) \div a = (number \div a) + b * m
  BY <1>5, <1>8, QuotientSum
<1>11. number \div a \in Nat
  BY <1>5, QuotientBounds
<1>12. ((number \div a) + b * m) % b = (number \div a) % b
  BY <1>5, <1>8, <1>11, QuotientSum
<1> QED BY <1>1, <1>4, <1>6, <1>9, <1>10, <1>12 DEF Digit

\* Between two channels a byte is missing only while there is one, and it fits above
\* the bits that the accumulator holds.
LEMMA LoadByteKeeps ==
  ASSUME NEW bytes \in Payloads, NEW total, IsTotal(total, bytes), NEW c \in Nat,
         c < ChannelCount, NEW s, Unpacked(total, c, s), ~EnoughBits(s)
  PROVE  /\ Unpacked(total, c, LoadByte(bytes, s))
         /\ LoadByte(bytes, s).available = s.available + ByteBits
<1>1. PICK k, a, low : k = s.byte_index /\ a = s.available /\ low = ChannelBits * c
  OBVIOUS
<1>2. k \in 0 .. PayloadLength /\ a \in Nat /\ a < ChannelBits /\ s.bits \in Nat
  BY <1>1, ChannelConstants DEF Unpacked, UnpackStates, EnoughBits
<1>3. low \in Nat /\ a + low = ByteBits * k
  BY <1>1, ChannelConstants DEF Unpacked
<1>4. k < PayloadLength /\ k + 1 \in 0 .. PayloadLength /\ k \in Nat
  <2>1. ChannelBits * (c + 1) <= ChannelBits * ChannelCount
    BY ChannelConstants
  <2>2. ChannelBits * (c + 1) = low + ChannelBits
    BY <1>1, ChannelConstants
  <2>3. ChannelBits * ChannelCount = ByteBits * PayloadLength /\ ByteBits * PayloadLength \in Nat
    BY ChannelsAssumption, ChannelConstants
  <2>4. ByteBits * k < ByteBits * PayloadLength
    BY <1>2, <1>3, <2>1, <2>2, <2>3, ChannelConstants
  <2>5. k # PayloadLength
    BY <2>3, <2>4
  <2> QED BY <1>2, <2>5, ChannelConstants
<1>5. PICK t, b : t = total[k] /\ b = bytes[k + 1]
  OBVIOUS
<1>6. t \in Nat /\ t < Bit[ByteBits * k] /\ total[k + 1] = t + b * Bit[ByteBits * k]
  BY <1>2, <1>4, <1>5, TotalBounded
<1>7. b \in Nat
  BY <1>4, <1>5, <1>6, TotalNext
<1>8. PICK w, v : w = Bit[low] /\ v = Bit[a]
  OBVIOUS
<1>9. w \in Nat \ {0} /\ v \in Nat \ {0} /\ Bit[ByteBits * k] = v * w
  BY <1>2, <1>3, <1>8, BitPositive, BitSum
<1>10. total[k + 1] \div w = (t \div w) + b * v
  <2>1. b * (v * w) = w * (b * v) /\ b * v \in Nat
    BY <1>7, <1>9
  <2>2. PICK m : m = b * v
    OBVIOUS
  <2>3. (t + w * m) \div w = (t \div w) + m
    BY <1>6, <1>9, <2>1, <2>2, QuotientSum
  <2> QED BY <1>6, <1>9, <2>1, <2>2, <2>3
<1>11. s.bits = t \div w
  BY <1>1, <1>5, <1>8 DEF Unpacked
<1>12. /\ s.bits + b * v \in Nat
       /\ (s.bits + b * v) % Bit[AccumulatorBits] = s.bits + b * v
  <2>1. PICK whole, limit : whole = s.bits + b * v /\ limit = Bit[AccumulatorBits]
    OBVIOUS
  <2>2. whole \in Nat
    BY <1>2, <1>7, <1>9, <2>1
  <2>3. total[k + 1] \in Nat /\ total[k + 1] < Bit[ByteBits * (k + 1)]
    BY <1>4, TotalBounded
  <2>4. ByteBits * (k + 1) = low + (a + ByteBits) /\ a + ByteBits \in Nat
    BY <1>2, <1>3, <1>4, ChannelConstants
  <2>5. Bit[ByteBits * (k + 1)] = w * Bit[a + ByteBits]
    BY <1>3, <1>8, <2>4, BitSum
  <2>6. Bit[a + ByteBits] \in Nat
    BY <2>4, BitPositive
  <2>7. whole < Bit[a + ByteBits]
    <3>1. PICK next, m : next = total[k + 1] /\ m = Bit[a + ByteBits]
      OBVIOUS
    <3>2. next \in Nat /\ m \in Nat /\ next < w * m
      BY <2>3, <2>5, <2>6, <3>1
    <3>3. next \div w < m
      BY <1>9, <3>2, QuotientBounds
    <3>4. next \div w = whole
      BY <1>10, <1>11, <2>1, <3>1
    <3> QED BY <3>1, <3>3, <3>4
  <2>8. a + ByteBits <= AccumulatorBits /\ AccumulatorBits \in Nat
    BY <1>2, ChannelConstants, ChannelsAssumption
  <2>9. Bit[a + ByteBits] <= limit /\ limit \in Nat \ {0}
    BY <2>1, <2>4, <2>8, BitOrder, BitPositive
  <2>10. whole < limit
    BY <2>2, <2>6, <2>7, <2>9
  <2>11. whole = limit * 0 + whole
    BY <2>2, <2>9
  <2>12. whole % limit = whole
    BY <2>2, <2>9, <2>10, <2>11, QuotientUnique
  <2> QED BY <2>1, <2>2, <2>12
<1>13. PICK r : r = LoadByte(bytes, s)
  OBVIOUS
<1>14. /\ r \in UnpackStates
       /\ r.bits = s.bits + b * v
       /\ r.available = a + ByteBits
       /\ r.byte_index = k + 1
       /\ r.values = s.values
  <2>1. s \in UnpackStates /\ a + ByteBits \in Nat
    BY <1>2, ChannelConstants DEF Unpacked
  <2>2. PICK x, y, z : x = s.bits + b * v /\ y = a + ByteBits /\ z = k + 1
    OBVIOUS
  <2>3. r = [s EXCEPT !.bits = x, !.available = y, !.byte_index = z]
    BY <1>1, <1>5, <1>8, <1>12, <1>13, <2>2 DEF LoadByte
  <2>4. x \in Nat /\ y \in Nat /\ z \in 0 .. PayloadLength
    BY <1>4, <1>12, <2>1, <2>2
  <2> QED BY <2>1, <2>2, <2>3, <2>4 DEF UnpackStates
<1>15. r.available + ChannelBits * c = ByteBits * r.byte_index
  <2>1. ByteBits * (k + 1) = ByteBits * k + ByteBits /\ ByteBits * k \in Nat
    BY <1>4, ChannelConstants
  <2> QED BY <1>1, <1>2, <1>3, <1>14, <2>1, ChannelConstants
<1>16. r.values = [i \in 1 .. c |-> Digit(total[r.byte_index], i)]
  <2>1. ASSUME NEW i \in 1 .. c PROVE Digit(total[k + 1], i) = Digit(t, i)
    <3>1. i \in Nat \ {0} /\ ByteBits * k \in Nat
      BY <1>4, ChannelConstants
    <3>2. ChannelBits * i <= low
      BY <1>1, ChannelConstants
    <3>3. ChannelBits * i <= ByteBits * k
      BY <1>2, <1>3, <3>1, <3>2, ChannelConstants
    <3>4. Digit(t + b * Bit[ByteBits * k], i) = Digit(t, i)
      BY <1>6, <1>7, <3>1, <3>3, DigitKept
    <3> QED BY <1>6, <3>4
  <2>2. s.values = [i \in 1 .. c |-> Digit(t, i)]
    BY <1>1, <1>5 DEF Unpacked
  <2> QED BY <1>14, <2>1, <2>2
<1>17. r.bits = total[r.byte_index] \div Bit[ChannelBits * c]
  BY <1>1, <1>8, <1>10, <1>11, <1>14
<1> QED BY <1>1, <1>13, <1>14, <1>15, <1>16, <1>17 DEF Unpacked

\* A channel taken is the next of the number.
LEMMA TakeChannelKeeps ==
  ASSUME NEW bytes \in Payloads, NEW total, IsTotal(total, bytes), NEW c \in Nat,
         NEW s, Unpacked(total, c, s), EnoughBits(s)
  PROVE  Unpacked(total, c + 1, TakeChannel(s))
<1>1. PICK t, low, w, base : /\ t = total[s.byte_index] /\ low = ChannelBits * c
                             /\ w = Bit[low] /\ base = Bit[ChannelBits]
  OBVIOUS
<1>2. s.byte_index \in 0 .. PayloadLength /\ t \in Nat
  BY <1>1, TotalBounded DEF Unpacked, UnpackStates
<1>3. low \in Nat /\ ChannelBits \in Nat /\ ChannelBits * (c + 1) = low + ChannelBits
  BY <1>1, ChannelConstants
<1>4. w \in Nat \ {0} /\ base \in Nat \ {0} /\ Bit[ChannelBits * (c + 1)] = w * base
  BY <1>1, <1>3, BitPositive, BitSum
<1>5. s.bits = t \div w /\ t \div w \in Nat
  BY <1>1, <1>2, <1>4, QuotientBounds DEF Unpacked
<1>6. s.bits \div base = t \div (w * base) /\ s.bits \div base \in Nat /\ s.bits % base \in Nat
  <2>1. t \div (w * base) = (t \div w) \div base
    BY <1>2, <1>4, QuotientTwice
  <2>2. (t \div w) \div base \in Nat /\ (t \div w) % base \in Nat
    BY <1>4, <1>5, QuotientBounds
  <2> QED BY <1>5, <2>1, <2>2
<1>7. PICK r : r = TakeChannel(s)
  OBVIOUS
<1>8. s.available \in Nat /\ s.available - ChannelBits \in Nat
  BY <1>3 DEF Unpacked, UnpackStates, EnoughBits
<1>9. s.values \in Seq(Nat) /\ Append(s.values, s.bits % base) \in Seq(Nat)
  BY <1>6 DEF Unpacked, UnpackStates
<1>10. /\ r \in UnpackStates
       /\ r.bits = s.bits \div base
       /\ r.available = s.available - ChannelBits
       /\ r.byte_index = s.byte_index
       /\ r.values = Append(s.values, s.bits % base)
  BY <1>1, <1>6, <1>7, <1>8, <1>9 DEF TakeChannel, UnpackStates, Unpacked
<1>11. r.available + ChannelBits * (c + 1) = ByteBits * r.byte_index
  <2>1. s.available + low = ByteBits * s.byte_index
    BY <1>1 DEF Unpacked
  <2>2. r.available = s.available - ChannelBits /\ r.byte_index = s.byte_index
    BY <1>10
  <2>3. (s.available - ChannelBits) + (low + ChannelBits) = s.available + low
    BY <1>3, <1>8
  <2> QED BY <1>3, <2>1, <2>2, <2>3
<1>12. r.values = [i \in 1 .. c + 1 |-> Digit(t, i)]
  <2>1. s.values = [i \in 1 .. c |-> Digit(t, i)]
    BY <1>1 DEF Unpacked
  <2>2. Len(s.values) = c
    BY <2>1, <1>9
  <2>3. Digit(t, c + 1) = s.bits % base
    <3>1. (c + 1) - 1 = c
      OBVIOUS
    <3> QED BY <1>1, <1>5, <3>1 DEF Digit
  <2>4. /\ Len(r.values) = c + 1 /\ r.values \in Seq(Nat)
        /\ \A i \in 1 .. c : r.values[i] = s.values[i]
        /\ r.values[c + 1] = s.bits % base
    BY <1>6, <1>9, <1>10, <2>2
  <2>5. ASSUME NEW i \in 1 .. c + 1 PROVE r.values[i] = Digit(t, i)
    <3>1. i \in 1 .. c \/ i = c + 1
      OBVIOUS
    <3> QED BY <2>1, <2>3, <2>4, <3>1
  <2>6. r.values = [i \in 1 .. c + 1 |-> r.values[i]]
    BY <2>4
  <2> QED BY <2>5, <2>6
<1> QED BY <1>1, <1>4, <1>6, <1>7, <1>10, <1>11, <1>12 DEF Unpacked

(***************************************************************************)
(* The two loops                                                           *)
(***************************************************************************)

\* The states of the inner loop.
IsLoad(load, bytes, s) ==
  load = [n \in 0 .. ChannelBits |-> IF n = 0 THEN s ELSE Load(bytes, load[n - 1])]

\* After n rounds there are bits enough, or one at least for every round.
LoadBounds(total, c) ==
  {pair \in Nat \X UnpackStates :
     Unpacked(total, c, pair[2]) /\ (EnoughBits(pair[2]) \/ pair[2].available >= pair[1])}

\* A round of the inner loop.
LEMMA LoadKeeps ==
  ASSUME NEW bytes \in Payloads, NEW total, IsTotal(total, bytes), NEW c \in Nat,
         c < ChannelCount, NEW n \in Nat, NEW s, <<n, s>> \in LoadBounds(total, c)
  PROVE  <<n + 1, Load(bytes, s)>> \in LoadBounds(total, c)
<1>1. /\ s \in UnpackStates /\ Unpacked(total, c, s)
      /\ EnoughBits(s) \/ s.available >= n
  BY DEF LoadBounds
<1>2. CASE EnoughBits(s)
  <2>1. Load(bytes, s) = s
    BY <1>2 DEF Load
  <2> QED BY <1>1, <1>2, <2>1 DEF LoadBounds
<1>3. CASE ~EnoughBits(s)
  <2>1. Load(bytes, s) = LoadByte(bytes, s)
    BY <1>3 DEF Load
  <2>2. PICK r : r = LoadByte(bytes, s)
    OBVIOUS
  <2>3. Unpacked(total, c, r) /\ r.available = s.available + ByteBits
    BY <1>1, <1>3, <2>2, LoadByteKeeps
  <2>4. r \in UnpackStates
    BY <2>3 DEF Unpacked
  <2>5. r.available >= n + 1
    <3>1. s.available \in Nat /\ s.available >= n
      BY <1>1, <1>3 DEF UnpackStates
    <3> QED BY <2>3, <3>1, ChannelConstants
  <2> QED BY <2>1, <2>2, <2>3, <2>4, <2>5 DEF LoadBounds
<1> QED BY <1>2, <1>3

\* The inner loop ends with bits enough for a channel.
LEMMA LoadedKeeps ==
  ASSUME NEW bytes \in Payloads, NEW total, IsTotal(total, bytes), NEW c \in Nat,
         c < ChannelCount, NEW s, Unpacked(total, c, s)
  PROVE  Unpacked(total, c, Loaded(bytes, s)) /\ EnoughBits(Loaded(bytes, s))
<1> DEFINE Kept == LoadBounds(total, c)
           step == [pair \in Kept |-> Load(bytes, pair[2])]
<1>1. ChannelBits \in Nat
  BY ChannelConstants
<1>2. <<0, s>> \in Kept
  <2>1. s \in UnpackStates /\ s.available >= 0
    BY DEF Unpacked, UnpackStates
  <2> QED BY <2>1 DEF LoadBounds
<1>3. \A n, v : <<n, v>> \in Kept => step[<<n, v>>] = Load(bytes, v)
  OBVIOUS
<1> HIDE DEF step
<1>4. \A n \in Nat : \A v : <<n, v>> \in Kept => <<n + 1, Load(bytes, v)>> \in Kept
  BY LoadKeeps
<1>5. \A n \in Nat : \A v :
        n < ChannelBits /\ <<n, v>> \in Kept => <<n + 1, step[<<n, v>>]>> \in Kept
  BY <1>3, <1>4
<1> HIDE DEF Kept
<1>6. PICK f : /\ f = [n \in 0 .. ChannelBits |-> f[n]]
               /\ f[0] = s
               /\ \A n \in 1 .. ChannelBits :
                    <<n - 1, f[n - 1]>> \in Kept /\ f[n] = step[<<n - 1, f[n - 1]>>]
  <2>1. \E f : ComputedWithin(f, s, step, ChannelBits, Kept)
    BY <1>1, <1>2, <1>5, ComputedKeeps
  <2> QED BY <2>1 DEF ComputedWithin
<1>7. \A n \in 0 .. ChannelBits : f[n] = IF n = 0 THEN s ELSE Load(bytes, f[n - 1])
  <2> SUFFICES ASSUME NEW n \in 0 .. ChannelBits, n # 0
               PROVE  f[n] = Load(bytes, f[n - 1])
    BY <1>6
  <2>1. n \in 1 .. ChannelBits
    BY <1>1
  <2> QED BY <1>3, <1>6, <2>1
<1>8. IsLoad(f, bytes, s)
  BY <1>6, <1>7 DEF IsLoad
<1>9. PICK load : load = CHOOSE g : IsLoad(g, bytes, s)
  OBVIOUS
<1>10. IsLoad(load, bytes, s)
  BY <1>8, <1>9
<1>11. Loaded(bytes, s) = load[ChannelBits]
  BY <1>9 DEF Loaded, IsLoad
<1>12. \A n \in 0 .. ChannelBits : load[n] = IF n = 0 THEN s ELSE Load(bytes, load[n - 1])
  BY <1>10 DEF IsLoad
<1>13. load[0] = s
  <2>1. 0 \in 0 .. ChannelBits
    BY <1>1
  <2> QED BY <1>12, <2>1
<1>14. ASSUME NEW n \in Nat, n < ChannelBits, <<n, load[n]>> \in Kept
       PROVE  <<n + 1, load[n + 1]>> \in Kept
  <2>1. n + 1 \in 0 .. ChannelBits /\ n + 1 # 0 /\ (n + 1) - 1 = n
    BY <1>1, <1>14
  <2>2. load[n + 1] = Load(bytes, load[n])
    BY <1>12, <2>1
  <2> QED BY <1>4, <1>14, <2>2
<1>15. <<ChannelBits, load[ChannelBits]>> \in Kept
  <2>1. \A n \in 0 .. ChannelBits : <<n, load[n]>> \in Kept
    BY <1>1, <1>2, <1>13, <1>14, KeptThroughout
  <2> QED BY <1>1, <2>1
<1> QED BY <1>11, <1>15 DEF Kept, LoadBounds, EnoughBits

\* The states of the outer loop.
IsUnpacking(after, bytes) ==
  after = [i \in 0 .. ChannelCount |->
             IF i = 0 THEN DecodeStart ELSE TakeChannel(Loaded(bytes, after[i - 1]))]

\* The channels of a payload are those of its number; all bytes are used, and all bits.
LEMMA Unpacking ==
  ASSUME NEW bytes \in Payloads
  PROVE  LET decoded == Unpack(bytes)
         IN  /\ decoded.values = [i \in 1 .. ChannelCount |-> Digit(Number(bytes), i)]
             /\ decoded.byte_index = PayloadLength
             /\ decoded.available = 0
<1>1. PICK total : total = CHOOSE g : IsTotal(g, bytes)
  OBVIOUS
<1>2. IsTotal(total, bytes)
  BY <1>1, TotalExists
<1>3. Number(bytes) = total[PayloadLength]
  BY <1>1 DEF Number, IsTotal
<1> DEFINE Kept == {pair \in Nat \X UnpackStates :
                      pair[1] <= ChannelCount /\ Unpacked(total, pair[1], pair[2])}
           step == [pair \in Kept |-> TakeChannel(Loaded(bytes, pair[2]))]
<1>4. ChannelCount \in Nat
  BY ChannelConstants
<1>5. <<0, DecodeStart>> \in Kept
  <2>1. PICK s : s = DecodeStart
    OBVIOUS
  <2>2. s.bits = 0 /\ s.available = 0 /\ s.byte_index = 0 /\ s.values = <<>> /\ s \in UnpackStates
    BY <2>1, ChannelConstants DEF DecodeStart, UnpackStates
  <2>3. ChannelBits * 0 = 0 /\ ByteBits * 0 = 0 /\ 0 \in 0 .. PayloadLength
    BY ChannelConstants
  <2>4. total[0] = 0
    BY <1>2, <2>3 DEF IsTotal
  <2>5. total[0] \div Bit[0] = 0
    BY <2>4, BitWeights
  <2>6. <<>> = [i \in 1 .. 0 |-> Digit(total[0], i)]
    OBVIOUS
  <2>7. Unpacked(total, 0, s)
    BY <2>2, <2>3, <2>5, <2>6 DEF Unpacked
  <2> QED BY <1>4, <2>1, <2>2, <2>7
<1>6. \A i, v : <<i, v>> \in Kept => step[<<i, v>>] = TakeChannel(Loaded(bytes, v))
  OBVIOUS
<1> HIDE DEF step
<1>7. ASSUME NEW i \in Nat, NEW v, i < ChannelCount, <<i, v>> \in Kept
      PROVE  <<i + 1, TakeChannel(Loaded(bytes, v))>> \in Kept
  <2>1. Unpacked(total, i, v)
    BY <1>7
  <2>2. Unpacked(total, i, Loaded(bytes, v)) /\ EnoughBits(Loaded(bytes, v))
    BY <1>2, <1>7, <2>1, LoadedKeeps
  <2>3. Unpacked(total, i + 1, TakeChannel(Loaded(bytes, v)))
    BY <1>2, <2>2, TakeChannelKeeps
  <2>4. TakeChannel(Loaded(bytes, v)) \in UnpackStates
    BY <2>3 DEF Unpacked
  <2> QED BY <1>4, <1>7, <2>3, <2>4
<1>8. \A i \in Nat : \A v :
        i < ChannelCount /\ <<i, v>> \in Kept => <<i + 1, step[<<i, v>>]>> \in Kept
  BY <1>6, <1>7
<1> HIDE DEF Kept
<1>9. PICK f : /\ f = [i \in 0 .. ChannelCount |-> f[i]]
               /\ f[0] = DecodeStart
               /\ \A i \in 1 .. ChannelCount :
                    <<i - 1, f[i - 1]>> \in Kept /\ f[i] = step[<<i - 1, f[i - 1]>>]
  <2>1. \E f : ComputedWithin(f, DecodeStart, step, ChannelCount, Kept)
    BY <1>4, <1>5, <1>8, ComputedKeeps
  <2> QED BY <2>1 DEF ComputedWithin
<1>10. \A i \in 0 .. ChannelCount :
         f[i] = IF i = 0 THEN DecodeStart ELSE TakeChannel(Loaded(bytes, f[i - 1]))
  <2> SUFFICES ASSUME NEW i \in 0 .. ChannelCount, i # 0
               PROVE  f[i] = TakeChannel(Loaded(bytes, f[i - 1]))
    BY <1>9
  <2>1. i \in 1 .. ChannelCount
    BY <1>4
  <2> QED BY <1>6, <1>9, <2>1
<1>11. IsUnpacking(f, bytes)
  BY <1>9, <1>10 DEF IsUnpacking
<1>12. PICK after : after = CHOOSE g : IsUnpacking(g, bytes)
  OBVIOUS
<1>13. IsUnpacking(after, bytes)
  BY <1>11, <1>12
<1>14. Unpack(bytes) = after[ChannelCount]
  BY <1>12 DEF Unpack, IsUnpacking
<1>15. \A i \in 0 .. ChannelCount :
         after[i] = IF i = 0 THEN DecodeStart ELSE TakeChannel(Loaded(bytes, after[i - 1]))
  BY <1>13 DEF IsUnpacking
<1>16. after[0] = DecodeStart
  <2>1. 0 \in 0 .. ChannelCount
    BY <1>4
  <2> QED BY <1>15, <2>1
<1>17. ASSUME NEW i \in Nat, i < ChannelCount, <<i, after[i]>> \in Kept
       PROVE  <<i + 1, after[i + 1]>> \in Kept
  <2>1. i + 1 \in 0 .. ChannelCount /\ i + 1 # 0 /\ (i + 1) - 1 = i
    BY <1>4, <1>17
  <2>2. after[i + 1] = TakeChannel(Loaded(bytes, after[i]))
    BY <1>15, <2>1
  <2> QED BY <1>7, <1>17, <2>2
<1>18. <<ChannelCount, after[ChannelCount]>> \in Kept
  <2>1. \A i \in 0 .. ChannelCount : <<i, after[i]>> \in Kept
    BY <1>4, <1>5, <1>16, <1>17, KeptThroughout
  <2> QED BY <1>4, <2>1
<1>19. PICK s : s = after[ChannelCount]
  OBVIOUS
<1>20. Unpacked(total, ChannelCount, s)
  BY <1>18, <1>19 DEF Kept
<1>21. s.byte_index = PayloadLength /\ s.available = 0
  <2>1. PICK k, a : k = s.byte_index /\ a = s.available
    OBVIOUS
  <2>2. k \in 0 .. PayloadLength /\ a \in Nat /\ a + ChannelBits * ChannelCount = ByteBits * k
    BY <1>20, <2>1 DEF Unpacked, UnpackStates
  <2>3. ChannelBits * ChannelCount = ByteBits * PayloadLength /\ ByteBits * PayloadLength \in Nat
    BY ChannelsAssumption, ChannelConstants
  <2>4. ~(k < PayloadLength)
    <3> SUFFICES ASSUME k + 1 <= PayloadLength PROVE FALSE
      BY <2>2, ChannelConstants
    <3>1. ByteBits * (k + 1) <= ByteBits * PayloadLength
      BY <2>2, ChannelConstants
    <3>2. ByteBits * (k + 1) = ByteBits * k + ByteBits /\ ByteBits * k \in Nat
      BY <2>2, ChannelConstants
    <3> QED BY <2>2, <2>3, <3>1, <3>2, ChannelConstants
  <2>5. k = PayloadLength
    BY <2>2, <2>4, ChannelConstants
  <2> QED BY <2>1, <2>2, <2>3, <2>5
<1> QED BY <1>3, <1>14, <1>19, <1>20, <1>21 DEF Unpacked

(***************************************************************************)
(* The channels of whatever came over the line                             *)
(***************************************************************************)

\* Whatever bytes came over the line, a frame of channels with them yields what is packed
\* into them, with no bit lost, used twice or left, through an accumulator that holds a
\* byte above all but one bit of a channel: for every width of bytes, channels and
\* accumulator.
THEOREM ChannelsFaithful == CrsfSpec => []ChannelsExact
<1>1. RadioInv => ChannelsExact
  <2> SUFFICES ASSUME RadioInv, Len(stream) >= PayloadLength,
                      NEW bytes, bytes = LastBytes(PayloadLength)
               PROVE  LET decoded == crsf_channels_decode(
                                       [type |-> RcChannels, payload |-> bytes])
                      IN  /\ decoded.values =
                               [i \in 1 .. ChannelCount |-> Digit(Number(bytes), i)]
                          /\ decoded.byte_index = PayloadLength
                          /\ decoded.available = 0
    BY DEF ChannelsExact, Digit
  <2>1. stream \in Seq([byte : Bytes, address : BOOLEAN])
    BY DEF RadioInv, BufferLast
  <2>2. ASSUME NEW i \in 1 .. PayloadLength
        PROVE  stream[Len(stream) - PayloadLength + i].byte \in Bytes
    <3>1. PICK j : j = Len(stream) - PayloadLength + i
      OBVIOUS
    <3>2. j \in 1 .. Len(stream)
      BY <2>1, <3>1, ChannelConstants
    <3>3. stream[j] \in [byte : Bytes, address : BOOLEAN]
      BY <2>1, <3>2, ElementOfSeq
    <3> QED BY <3>1, <3>3
  <2>3. bytes \in Payloads
    BY <2>2 DEF LastBytes, Payloads
  <2>4. Len(bytes) = PayloadLength
    BY <2>3, ChannelConstants DEF Payloads
  <2>5. crsf_channels_decode([type |-> RcChannels, payload |-> bytes]) = Unpack(bytes)
    BY <2>4 DEF crsf_channels_decode
  <2> QED BY <2>3, <2>5, Unpacking
<1> QED BY <1>1, RadioInvariant, PTL

=============================================================================
