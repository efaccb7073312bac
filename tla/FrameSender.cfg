\* A frame of three bytes, an output buffer of two, two milliseconds of two
\* ticks.
CONSTANTS
  WireSize = 3
  OutputSize = 2
  SendTimeout = 4
  Millisecond = 2
SPECIFICATION SenderSpec
PROPERTIES
  SendEnds
  FailsEarlyOnlyFor
