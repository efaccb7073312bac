-------------------------- MODULE ManualInputGuard --------------------------
(***************************************************************************)
(* The guard between the operator's radio and the wheels                   *)
(* (software/rpi/src/manual_input_guard.cpp): manual control is enabled by *)
(* a frame with the switch low and then one with the switch high, both     *)
(* with the sticks at rest, and lost by silence of the radio.              *)
(***************************************************************************)
EXTENDS Optional

CONSTANT GuardTimeout  \* timeout_

ASSUME GuardTimeoutAssumption == GuardTimeout \in Nat \ {0}

VARIABLES
  guard_state,   \* state_
  channels_age   \* since last_channels_at_, None without has_channels_

inputGuard == <<guard_state, channels_age>>

InputGuardTypeOK ==
  /\ guard_state \in {"NeedsRearm", "Ready", "Enabled"}
  /\ channels_age \in 0 .. GuardTimeout \cup {None}

\* What the guard looks at in a frame: the enable switch, and whether the
\* sticks are neutral.  A stick just outside of neutral is "slight": its
\* velocity rounds to zero, but it is not at rest.
Switches == {"low", "middle", "high"}
Sticks == {"neutral", "slight", "deflected"}

input_guard_init ==
  /\ guard_state = "NeedsRearm"
  /\ channels_age = None

input_guard_reset ==
  /\ guard_state' = "NeedsRearm"
  /\ channels_age' = None

\* Faulty variant: silence is not noticed.
StateHeld == guard_state

\* The state after poll looked at the clock.
PolledState == IF channels_age = GuardTimeout THEN "NeedsRearm" ELSE guard_state

\* The state after a frame, from the state current.
AfterChannels(current, switch, stick) ==
  LET resting == switch = "low" /\ stick = "neutral"
      waiting == IF resting THEN "Ready" ELSE "NeedsRearm"
  IN  CASE current = "NeedsRearm" -> waiting
        [] current = "Ready" ->
             IF switch = "high" /\ stick = "neutral" THEN "Enabled" ELSE waiting
        [] current = "Enabled" -> IF switch = "high" THEN "Enabled" ELSE waiting

on_channels(switch, stick) ==
  /\ guard_state' = AfterChannels(PolledState, switch, stick)
  /\ channels_age' = 0

\* poll: permission, and the state it leaves.
permitted == channels_age # None /\ PolledState = "Enabled"

input_guard_poll ==
  /\ guard_state' = PolledState
  /\ UNCHANGED channels_age

input_guard_later ==
  /\ channels_age' = IF channels_age \in 0 .. GuardTimeout - 1 THEN channels_age + 1 ELSE channels_age
  /\ UNCHANGED guard_state

=============================================================================
