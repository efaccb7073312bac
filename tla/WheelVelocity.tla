--------------------------- MODULE WheelVelocity ----------------------------
(***************************************************************************)
(* From the Raspberry Pi's wheel velocities to the STM32's motor commands: *)
(* signed 16 bit numbers in two bytes (protocol/byte_codec.c,              *)
(* wheel_velocity_codec.c), then the open loop conversion                  *)
(* (firmware/stm32/App/Src/wheel_velocity_feedforward.c), which skips the  *)
(* motors' dead zone and saturates.                                        *)
(***************************************************************************)
EXTENDS Integers, Sequences

CONSTANTS
  ByteCount,     \* number of byte values (256)
  MaxVelocity,   \* max_velocity_mm_s
  MinimumStart,  \* minimum_start_command
  CommandMax,    \* MOTOR_DRIVER_COMMAND_MAX
  ProductMod     \* number of uint32_t values

WordCount == ByteCount * ByteCount
Int16 == -(WordCount \div 2) .. WordCount \div 2 - 1
Bytes == 0 .. ByteCount - 1

ASSUME VelocityAssumption ==
  /\ ByteCount \in Nat \ {0} /\ ByteCount % 2 = 0
  /\ MaxVelocity \in 1 .. WordCount - 1
  /\ CommandMax \in 1 .. WordCount \div 2 - 1
  /\ MinimumStart \in 1 .. CommandMax
  /\ ProductMod \in Nat /\ ProductMod > (WordCount - 1) * CommandMax

(***************************************************************************)
(* Codec                                                                   *)
(***************************************************************************)

encode_u16_be(value) == <<value \div ByteCount, value % ByteCount>>
decode_u16_be(bytes) == bytes[1] * ByteCount + bytes[2]

\* Two's complement: modulo WordCount, the least number too.
encode_i16_be(value) == encode_u16_be(value % WordCount)

decode_i16_be(bytes) ==
  LET value == decode_u16_be(bytes)
  IN  IF value <= WordCount \div 2 - 1 THEN value ELSE value - WordCount

Encoded(command) == encode_i16_be(command.left) \o encode_i16_be(command.right)

Decoded(wire) ==
  [left |-> decode_i16_be(SubSeq(wire, 1, 2)), right |-> decode_i16_be(SubSeq(wire, 3, 4))]

(***************************************************************************)
(* Feed-forward                                                            *)
(***************************************************************************)

Magnitude(velocity) == IF velocity < 0 THEN -velocity ELSE velocity

Saturated(magnitude) == IF magnitude > MaxVelocity THEN MaxVelocity ELSE magnitude

\* Faulty variant: the product in 16 bits.
CommandNarrow(magnitude) ==
  MinimumStart + ((magnitude * (CommandMax - MinimumStart)) % WordCount) \div MaxVelocity

CommandMagnitude(magnitude) ==
  MinimumStart + ((magnitude * (CommandMax - MinimumStart)) % ProductMod) \div MaxVelocity

convert_one(velocity) ==
  LET command == CommandMagnitude(Saturated(Magnitude(velocity)))
  IN  CASE velocity = 0 -> 0
        [] velocity < 0 -> -command
        [] OTHER -> command

convert(command) == [left |-> convert_one(command.left), right |-> convert_one(command.right)]

=============================================================================
