\* Lengths 2 to 4 are frames with up to two payload bytes; 0, 1 and the address
\* are refused.
CONSTANTS
  None = None
  ByteCount = 6
  Address = 5
  BufferSize = 6
  PayloadSize = 2
  CrcUpdate <- MCCrcUpdate
\* Bytes and channels of widths without a common divisor, and an accumulator
\* with no bit to spare.
  ByteBits = 3
  ChannelBits = 4
  ChannelCount = 3
  PayloadLength = 4
  AccumulatorBits = 6
  RcChannels = 1
SPECIFICATION CrsfSpec
INVARIANTS
  RadioFramesAsSent
  ChannelsExact
