\* The two timeouts are equal, as in the code.  The buffer holds the whole arming
\* gesture and a deflection; frames age up to one tick more than StickRecent
\* allows.  The age of the held command plays no part here.
CONSTANTS
  None = None
  GuardTimeout = 2
  Freshness = 0
  ReceiverStall = 2
  Inputs <- MCInputs
  BufferBound = 3
  AgeCap = 4
SPECIFICATION FairManualSpec
INVARIANT MotionRearmed
PROPERTIES
  StickRecent
  SilenceStops
