-------------------------- MODULE MCDri0041Driver ---------------------------
(***************************************************************************)
(* TLC instance of the motor driver under velocity frames.                 *)
(***************************************************************************)
EXTENDS WheelDrive

SomeVelocities == {-8, -4, -1, 0, 1, 3, 4, 7}

=============================================================================
