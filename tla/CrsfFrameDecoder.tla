-------------------------- MODULE CrsfFrameDecoder --------------------------
(***************************************************************************)
(* The decoder of the radio receiver's frames                              *)
(* (software/rpi/src/crsf_frame_decoder.cpp): an address byte, the number  *)
(* of bytes that follow the length byte, type, payload, checksum.  The     *)
(* line may carry frames, parts of them, and noise.                        *)
(*                                                                         *)
(* A byte has ByteCount values instead of 256; the checksum is any         *)
(* function of the checksum so far and a byte.                             *)
(***************************************************************************)
EXTENDS Optional, SequencesExt

CONSTANTS
  ByteCount,       \* number of byte values (256)
  Address,         \* 0xC8
  BufferSize,      \* size of buffer_
  PayloadSize,     \* size of CrsfFrame::payload
  CrcUpdate(_, _)  \* crsf_crc8_update

Bytes == 0 .. ByteCount - 1

ASSUME CrsfAssumption ==
  /\ ByteCount \in Nat \ {0} /\ Address \in Bytes
  /\ BufferSize \in Nat /\ BufferSize > 4 /\ BufferSize - 2 < ByteCount
  /\ PayloadSize = BufferSize - 4
  /\ \A crc, byte \in Bytes : CrcUpdate(crc, byte) \in Bytes

VARIABLES
  state,          \* state_
  buffer,         \* the first used_ bytes of buffer_
  expected_size,  \* expected_size_
  delivered,      \* frame handed out by the last call, or None
  stream          \* history: the last BufferSize bytes since the last delivery
                  \* or reset, each with whether it was read as an address

decoder == <<state, buffer, expected_size>>
crsfVars == <<decoder, delivered, stream>>

Crc(bytes) == FoldLeft(CrcUpdate, 0, bytes)

\* The wire form of a frame.
Wire(frame) ==
  <<Address, Len(frame.payload) + 2, frame.type>> \o frame.payload
  \o <<Crc(<<frame.type>> \o frame.payload)>>

\* Types, and the bounds of the two arrays: a byte is written at used_ only below
\* BufferSize, and the payload handed out fits CrsfFrame::payload.
CrsfTypeOK ==
  /\ state \in {"WaitingForAddress", "WaitingForLength", "Collecting"}
  /\ buffer \in Seq(Bytes) /\ Len(buffer) < BufferSize
  /\ expected_size \in 0 .. BufferSize
  /\ delivered # None =>
       /\ delivered.type \in Bytes
       /\ delivered.payload \in Seq(Bytes) /\ Len(delivered.payload) <= PayloadSize

CrsfInit ==
  /\ state = "WaitingForAddress"
  /\ buffer = <<>>
  /\ expected_size = 0
  /\ delivered = None
  /\ stream = <<>>

reset ==
  /\ state' = "WaitingForAddress"
  /\ buffer' = <<>>
  /\ expected_size' = 0

BeginWith(byte) ==
  /\ state' = "WaitingForLength"
  /\ buffer' = <<byte>>
  /\ UNCHANGED expected_size

WaitingForAddress(byte) ==
  /\ state = "WaitingForAddress"
  /\ IF byte = Address THEN BeginWith(byte) ELSE UNCHANGED decoder

LengthFits(byte) == byte \in 2 .. BufferSize - 2

\* Faulty variant: the address of the next frame is passed over.
LengthRefusedForgetting(byte) == reset

\* A byte that is no length may be the address of the next frame.
LengthRefused(byte) ==
  IF byte = Address
    THEN state' = "WaitingForLength" /\ buffer' = <<byte>> /\ expected_size' = 0
    ELSE reset

WaitingForLength(byte) ==
  /\ state = "WaitingForLength"
  /\ IF LengthFits(byte)
       THEN /\ state' = "Collecting"
            /\ buffer' = Append(buffer, byte)
            /\ expected_size' = byte + 2
       ELSE LengthRefused(byte)

\* The byte is the last of a frame.
Complete(byte) == state = "Collecting" /\ Len(buffer) + 1 = expected_size

CrcMatches(byte) == Crc(SubSeq(buffer, 3, expected_size - 1)) = byte

Collecting(byte) ==
  /\ state = "Collecting"
  /\ IF Complete(byte)
       THEN reset
       ELSE buffer' = Append(buffer, byte) /\ UNCHANGED <<state, expected_size>>

FrameRead == [type |-> buffer[3], payload |-> SubSeq(buffer, 4, expected_size - 1)]

feed_byte(byte) ==
  /\ WaitingForAddress(byte) \/ WaitingForLength(byte) \/ Collecting(byte)
  /\ delivered' = IF Complete(byte) /\ CrcMatches(byte) THEN FrameRead ELSE None
  /\ LET before == IF delivered = None THEN stream ELSE <<>>
         awaited ==
               state = "WaitingForAddress" \/ (state = "WaitingForLength" /\ ~LengthFits(byte))
         after == Append(before, [byte |-> byte, address |-> awaited])
     IN  stream' = IF Len(after) > BufferSize THEN Tail(after) ELSE after

\* The loop came too late and threw bytes away.
decoder_reset == reset /\ delivered' = None /\ stream' = <<>>

CrsfNext == (\E byte \in Bytes : feed_byte(byte)) \/ decoder_reset

CrsfSpec == CrsfInit /\ [][CrsfNext]_crsfVars

(***************************************************************************)
(* Properties                                                              *)
(***************************************************************************)

\* The last n bytes of the stream.
LastBytes(n) == [i \in 1 .. n |-> stream[Len(stream) - n + i].byte]

\* What is handed out is what the last bytes say: no frame is put together from
\* pieces of others, whatever noise there was before it.
ReceivedAsSent ==
  delivered # None =>
    LET wire == Wire(delivered)
    IN  Len(wire) <= Len(stream) /\ LastBytes(Len(wire)) = wire

\* The frame of which the last n bytes could be the wire form.
FrameIn(n) == [type |-> LastBytes(n)[3], payload |-> SubSeq(LastBytes(n), 4, n - 1)]

\* A frame whose first byte the decoder takes for an address, also in the place
\* of a length, is handed out with its last byte.
NoFrameMissed ==
  \A n \in 4 .. BufferSize :
    /\ n <= Len(stream)
    /\ stream[Len(stream) - n + 1].address
    /\ Wire(FrameIn(n)) = LastBytes(n)
    => delivered = FrameIn(n)

\* The decoder as a whole: what it hands out was sent, and what was sent is
\* handed out, without a step beyond either array.
RadioFramesAsSent == CrsfTypeOK /\ ReceivedAsSent /\ NoFrameMissed

=============================================================================
