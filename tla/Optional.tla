------------------------------ MODULE Optional ------------------------------
(***************************************************************************)
(* A C struct or number guarded by a "valid", "armed" or "active" flag is  *)
(* modelled as its value while the flag is set and as None while it is     *)
(* not: the code never reads the value when the flag is clear.             *)
(***************************************************************************)
EXTENDS Integers

CONSTANT None

ASSUME NoneIsNoNumber == None \notin Int

=============================================================================
