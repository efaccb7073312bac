------------------------------- MODULE Ticks --------------------------------
(***************************************************************************)
(* The millisecond tick.                                                   *)
(*                                                                         *)
(* The firmware never uses an absolute time: every deadline compares       *)
(* (uint32_t)(now_ms - recorded_ms) with a limit.  The model keeps that    *)
(* difference, the age of a recorded instant at the last clock reading,    *)
(* instead of the two timestamps; it wraps like the uint32 subtraction,    *)
(* with ClockMod standing for 2^32.                                        *)
(***************************************************************************)
EXTENDS Optional

CONSTANTS
  ClockMod,  \* number of values of the tick counter (2^32)
  MaxStall   \* longest time between two clock readings of the main loop

ASSUME ClockAssumption ==
  /\ ClockMod \in Nat \ {0}
  /\ MaxStall \in Nat \ {0}

Ages == 0 .. ClockMod - 1

\* The age of an instant, valid or not, d milliseconds later.
Later(age, d) == IF age = None THEN None ELSE (age + d) % ClockMod

=============================================================================
