------------------------ MODULE ProtocolFrameDecoder ------------------------
(***************************************************************************)
(* The streaming frame decoder of the UART protocol                        *)
(* (protocol/protocol_frame_decoder.c) against the encoder                 *)
(* (protocol_frame_encoder.c), with any bytes on the line: frames, parts   *)
(* of frames, noise, and payloads that look like frames.                   *)
(*                                                                         *)
(* A byte has ByteCount values instead of 256; a 16 bit field is two bytes *)
(* (byte_codec.c, big endian).  The checksum is any function of the        *)
(* checksum so far and a byte.                                             *)
(***************************************************************************)
EXTENDS Optional, SequencesExt

CONSTANTS
  ByteCount,       \* number of byte values (256)
  Magic0, Magic1,  \* PROTOCOL_FRAME_MAGIC_0, _1
  Version,         \* PROTOCOL_FRAME_VERSION
  MaxPayload,      \* PROTOCOL_FRAME_MAX_PAYLOAD_SIZE
  InitialCrc,      \* CRC16_CCITT_FALSE_INITIAL
  CrcUpdate(_, _)  \* crc16_ccitt_false_update, for one byte

Bytes == 0 .. ByteCount - 1
Words == 0 .. ByteCount * ByteCount - 1

Frames ==
  [type : Bytes, sequence : Words, payload : UNION {[1 .. n -> Bytes] : n \in 0 .. MaxPayload}]

ASSUME DecoderAssumption ==
  /\ ByteCount \in Nat \ {0} /\ MaxPayload \in Nat
  /\ {Magic0, Magic1, Version} \subseteq Bytes
  /\ Magic0 # Magic1 /\ Version # Magic0
  /\ InitialCrc \in Words
  /\ None \notin Frames
  /\ \A crc \in Words, byte \in Bytes : CrcUpdate(crc, byte) \in Words

(***************************************************************************)
(* Encoder                                                                 *)
(***************************************************************************)

High(word) == word \div ByteCount
Low(word) == word % ByteCount
Word(high, low) == high * ByteCount + low

Crc(bytes) ==
  LET value[i \in 0 .. Len(bytes)] ==
        IF i = 0 THEN InitialCrc ELSE CrcUpdate(value[i - 1], bytes[i])
  IN  value[Len(bytes)]

Covered(frame) ==
  <<Version, frame.type, High(frame.sequence), Low(frame.sequence),
    High(Len(frame.payload)), Low(Len(frame.payload))>> \o frame.payload

protocol_frame_encode(frame) ==
  <<Magic0, Magic1>> \o Covered(frame)
  \o <<High(Crc(Covered(frame))), Low(Crc(Covered(frame)))>>

\* Bytes of a frame besides its payload, and of the longest one.
Overhead == 10
MaxWire == Overhead + MaxPayload

(***************************************************************************)
(* Decoder                                                                 *)
(***************************************************************************)

VARIABLES
  state,      \* ProtocolFrameDecoderState
  type,       \* of the frame being read, 0 outside of one
  sequence,   \* likewise
  length,     \* payload_length, likewise
  payload,    \* the payload_index bytes read so far
  crc,        \* calculated_crc
  crc_high,   \* the first byte of received_crc
  delivered,  \* frame handed out by the last call, or None
  stream      \* history: the bytes since the last delivery or reset, the last
              \* MaxWire of them, each with whether the decoder was searching
              \* before it

reading == <<type, sequence, length, payload, crc, crc_high>>
decoderVars == <<state, reading, delivered, stream>>

Searching == state \in {"WAIT_MAGIC_0", "WAIT_MAGIC_1"}

\* Types, and the bound of the payload array: a byte is written at
\* payload_index only below MaxPayload.
DecoderTypeOK ==
  /\ state \in {"WAIT_MAGIC_0", "WAIT_MAGIC_1", "READ_VERSION", "READ_MESSAGE_TYPE",
                "READ_SEQUENCE_HIGH", "READ_SEQUENCE_LOW", "READ_LENGTH_HIGH",
                "READ_LENGTH_LOW", "READ_PAYLOAD", "READ_CRC_HIGH", "READ_CRC_LOW"}
  /\ type \in Bytes /\ sequence \in Words /\ length \in Words
  /\ payload \in Seq(Bytes)
  /\ Len(payload) <= MaxPayload
  /\ state = "READ_PAYLOAD" => Len(payload) < MaxPayload
  /\ crc \in Words /\ crc_high \in Bytes
  /\ delivered \in Frames \cup {None}

Cleared ==
  /\ type' = 0 /\ sequence' = 0 /\ length' = 0 /\ payload' = <<>>
  /\ crc' = InitialCrc /\ crc_high' = 0

DecoderInit ==
  /\ state = "WAIT_MAGIC_0"
  /\ type = 0 /\ sequence = 0 /\ length = 0 /\ payload = <<>>
  /\ crc = InitialCrc /\ crc_high = 0
  /\ delivered = None
  /\ stream = <<>>

begin_frame == state' = "READ_VERSION" /\ Cleared

\* Faulty variant: the frame begun by the two bytes is passed over.
reset_search_forgetting(previous, current) ==
  /\ Cleared
  /\ state' = IF current = Magic0 THEN "WAIT_MAGIC_1" ELSE "WAIT_MAGIC_0"

\* A frame is given up; its last two bytes may begin another one.
reset_search(previous, current) ==
  /\ Cleared
  /\ state' = CASE previous = Magic0 /\ current = Magic1 -> "READ_VERSION"
                [] current = Magic0 -> "WAIT_MAGIC_1"
                [] OTHER -> "WAIT_MAGIC_0"

\* A byte that goes into the checksum and leads on to the state next.
Take(byte, here, next) ==
  /\ state = here
  /\ state' = next
  /\ crc' = CrcUpdate(crc, byte)

WaitMagic0(byte) ==
  /\ state = "WAIT_MAGIC_0"
  /\ state' = IF byte = Magic0 THEN "WAIT_MAGIC_1" ELSE state
  /\ UNCHANGED reading

WaitMagic1(byte) ==
  /\ state = "WAIT_MAGIC_1"
  /\ \/ byte = Magic1 /\ begin_frame
     \/ byte = Magic0 /\ UNCHANGED <<state, reading>>
     \/ byte \notin {Magic0, Magic1} /\ state' = "WAIT_MAGIC_0" /\ UNCHANGED reading

ReadVersion(byte) ==
  \/ /\ byte = Version
     /\ Take(byte, "READ_VERSION", "READ_MESSAGE_TYPE")
     /\ UNCHANGED <<type, sequence, length, payload, crc_high>>
  \/ /\ byte # Version
     /\ state = "READ_VERSION"
     /\ reset_search(Magic1, byte)

ReadType(byte) ==
  /\ Take(byte, "READ_MESSAGE_TYPE", "READ_SEQUENCE_HIGH")
  /\ type' = byte
  /\ UNCHANGED <<sequence, length, payload, crc_high>>

ReadSequence(byte) ==
  /\ \/ Take(byte, "READ_SEQUENCE_HIGH", "READ_SEQUENCE_LOW") /\ sequence' = Word(byte, 0)
     \/ Take(byte, "READ_SEQUENCE_LOW", "READ_LENGTH_HIGH") /\ sequence' = sequence + byte
  /\ UNCHANGED <<type, length, payload, crc_high>>

ReadLengthHigh(byte) ==
  /\ Take(byte, "READ_LENGTH_HIGH", "READ_LENGTH_LOW")
  /\ length' = Word(byte, 0)
  /\ UNCHANGED <<type, sequence, payload, crc_high>>

\* Faulty variant: the limit is off by one.
TooLongByOne(size) == size > MaxPayload + 1

TooLong(size) == size > MaxPayload

ReadLengthLow(byte) ==
  LET size == length + byte
  IN  \/ /\ state = "READ_LENGTH_LOW"
         /\ TooLong(size)
         /\ reset_search(High(size), byte)
      \/ /\ ~TooLong(size)
         /\ Take(byte, "READ_LENGTH_LOW", IF size = 0 THEN "READ_CRC_HIGH" ELSE "READ_PAYLOAD")
         /\ length' = size
         /\ UNCHANGED <<type, sequence, payload, crc_high>>

ReadPayload(byte) ==
  /\ Take(byte, "READ_PAYLOAD",
          IF Len(payload) + 1 >= length THEN "READ_CRC_HIGH" ELSE "READ_PAYLOAD")
  /\ payload' = Append(payload, byte)
  /\ UNCHANGED <<type, sequence, length, crc_high>>

ReadCrcHigh(byte) ==
  /\ state = "READ_CRC_HIGH"
  /\ state' = "READ_CRC_LOW"
  /\ crc_high' = byte
  /\ UNCHANGED <<type, sequence, length, payload, crc>>

CrcMatches(byte) == Word(crc_high, byte) = crc

ReadCrcLow(byte) ==
  /\ state = "READ_CRC_LOW"
  /\ \/ CrcMatches(byte) /\ state' = "WAIT_MAGIC_0" /\ Cleared
     \/ ~CrcMatches(byte) /\ reset_search(crc_high, byte)

FrameRead == [type |-> type, sequence |-> sequence, payload |-> payload]

feed_byte(byte) ==
  /\ \/ WaitMagic0(byte) \/ WaitMagic1(byte)
     \/ ReadVersion(byte) \/ ReadType(byte) \/ ReadSequence(byte)
     \/ ReadLengthHigh(byte) \/ ReadLengthLow(byte) \/ ReadPayload(byte)
     \/ ReadCrcHigh(byte) \/ ReadCrcLow(byte)
  /\ delivered' = IF state = "READ_CRC_LOW" /\ CrcMatches(byte) THEN FrameRead ELSE None
  /\ LET before == IF delivered = None THEN stream ELSE <<>>
         after == Append(before, [byte |-> byte, searching |-> Searching])
     IN  stream' = IF Len(after) > MaxWire THEN Tail(after) ELSE after

\* The receiver lost bytes.
decoder_reset ==
  /\ state' = "WAIT_MAGIC_0"
  /\ Cleared
  /\ delivered' = None
  /\ stream' = <<>>

DecoderNext == (\E byte \in Bytes : feed_byte(byte)) \/ decoder_reset

DecoderSpec == DecoderInit /\ [][DecoderNext]_decoderVars

(***************************************************************************)
(* Properties                                                              *)
(***************************************************************************)

\* The last n bytes of the stream.
LastBytes(n) == [i \in 1 .. n |-> stream[Len(stream) - n + i].byte]

\* What is handed out is what the encoder makes the last bytes of: no frame is
\* put together from pieces of others, no byte is left out or taken twice.
DeliveredAsSent ==
  delivered # None =>
    LET wire == protocol_frame_encode(delivered)
    IN  Len(wire) <= Len(stream) /\ LastBytes(Len(wire)) = wire

\* The frame of which the last n bytes could be the encoding.
FrameIn(n) ==
  LET bytes == LastBytes(n)
  IN  [type |-> bytes[4], sequence |-> Word(bytes[5], bytes[6]),
       payload |-> SubSeq(bytes, 9, n - 2)]

\* A frame that begins while the decoder is searching is handed out with its
\* last byte.
NothingMissed ==
  \A n \in Overhead .. MaxWire :
    /\ n <= Len(stream)
    /\ stream[Len(stream) - n + 1].searching
    /\ protocol_frame_encode(FrameIn(n)) = LastBytes(n)
    => delivered = FrameIn(n)

\* The decoder as a whole: what it hands out was sent, and what was sent is
\* handed out, without a step beyond the payload array.
FramesAsSent == DecoderTypeOK /\ DeliveredAsSent /\ NothingMissed

\* Giving up a frame, for whatever reason, loses nothing of the next: the
\* decoder's place is what the last two bytes say, unless they are inside a
\* frame not yet given up.  So a frame whose first bytes were mistaken for
\* the length or the checksum of a broken one is still received.
SearchResumed ==
  LET n == Len(stream)
      magic == n > 1 /\ stream[n - 1].byte = Magic0 /\ stream[n].byte = Magic1
      half == n > 0 /\ stream[n].byte = Magic0
  IN  delivered = None =>
        /\ state = "READ_VERSION" => magic
        /\ Searching => ~magic /\ (state = "WAIT_MAGIC_1" <=> half)

=============================================================================
