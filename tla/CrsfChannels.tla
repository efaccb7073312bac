---------------------------- MODULE CrsfChannels ----------------------------
(***************************************************************************)
(* The channels of a radio frame (software/rpi/src/crsf_channels.cpp,      *)
(* crsf_channels_decode): 16 values of 11 bits packed into 22 bytes, least *)
(* significant bits first, taken apart through a 32 bit accumulator.       *)
(***************************************************************************)
EXTENDS CrsfFrameDecoder

CONSTANTS
  ByteBits,         \* 8
  ChannelBits,      \* 11
  ChannelCount,     \* 16
  PayloadLength,    \* 22
  AccumulatorBits,  \* 32
  RcChannels        \* 0x16, the type of a frame of channels

\* The weight of a bit, 1 << n.
Bit[n \in Nat] == IF n = 0 THEN 1 ELSE 2 * Bit[n - 1]

ASSUME ChannelsAssumption ==
  /\ {ByteBits, ChannelBits, ChannelCount, PayloadLength, AccumulatorBits} \subseteq Nat \ {0}
  /\ ByteBits * PayloadLength = ChannelBits * ChannelCount
  /\ ChannelBits + ByteBits - 1 <= AccumulatorBits
  /\ Bytes \subseteq 0 .. Bit[ByteBits] - 1
  /\ RcChannels \in Bytes

\* The function's variables before the first channel.
DecodeStart == [bits |-> 0, available |-> 0, byte_index |-> 0, values |-> <<>>]

EnoughBits(s) == s.available >= ChannelBits

\* The bits above available are zero, so "or" is a sum.
LoadByte(bytes, s) ==
  [s EXCEPT !.bits = (@ + bytes[s.byte_index + 1] * Bit[s.available]) % Bit[AccumulatorBits],
            !.available = @ + ByteBits,
            !.byte_index = @ + 1]

Load(bytes, s) == IF EnoughBits(s) THEN s ELSE LoadByte(bytes, s)

\* The inner loop.  Every byte brings a bit at least, so ChannelBits rounds see its end.
Loaded(bytes, s) ==
  LET load[n \in 0 .. ChannelBits] == IF n = 0 THEN s ELSE Load(bytes, load[n - 1])
  IN  load[ChannelBits]

\* Faulty variant: what is left of the last byte is dropped.
TakeChannelAlone(s) ==
  [s EXCEPT !.values = Append(@, s.bits % Bit[ChannelBits]), !.bits = 0,
            !.available = @ - ChannelBits]

TakeChannel(s) ==
  [s EXCEPT !.values = Append(@, s.bits % Bit[ChannelBits]),
            !.bits = @ \div Bit[ChannelBits],
            !.available = @ - ChannelBits]

\* The outer loop.
Unpack(bytes) ==
  LET after[i \in 0 .. ChannelCount] ==
        IF i = 0 THEN DecodeStart ELSE TakeChannel(Loaded(bytes, after[i - 1]))
  IN  after[ChannelCount]

\* None: the frame holds no channels.
crsf_channels_decode(frame) ==
  IF frame.type # RcChannels \/ Len(frame.payload) # PayloadLength
    THEN None
    ELSE Unpack(frame.payload)

(***************************************************************************)
(* Property                                                                *)
(***************************************************************************)

\* A payload as one number, its first byte the least significant.
Number(bytes) ==
  LET total[i \in 0 .. PayloadLength] ==
        IF i = 0 THEN 0 ELSE total[i - 1] + bytes[i] * Bit[ByteBits * (i - 1)]
  IN  total[PayloadLength]

\* Whatever bytes came over the line, a frame of channels with them as payload is
\* taken, and yields, channel by channel, the digits of the payload's number to the
\* base of ChannelBits bits: no bit is pushed out of the accumulator, used twice or
\* used before it is loaded.  At the end every byte has been loaded, and no bit is
\* left.
ChannelsExact ==
  Len(stream) >= PayloadLength =>
    LET bytes == LastBytes(PayloadLength)
        decoded == crsf_channels_decode([type |-> RcChannels, payload |-> bytes])
    IN  /\ decoded.values =
             [i \in 1 .. ChannelCount |->
                (Number(bytes) \div Bit[ChannelBits * (i - 1)]) % Bit[ChannelBits]]
        /\ decoded.byte_index = PayloadLength
        /\ decoded.available = 0

=============================================================================
