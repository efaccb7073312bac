\* Three byte values, of which all but the version begin a frame: every field
\* can look like the beginning of a frame.
CONSTANTS
  None = None
  ByteCount = 3
  Magic0 = 1
  Magic1 = 2
  Version = 0
  MaxPayload = 1
  InitialCrc = 8
  CrcUpdate <- MCCrcUpdate
SPECIFICATION DecoderSpec
INVARIANTS
  FramesAsSent
  SearchResumed
