\* Two wheels, one session besides 0, three operation identifiers; every timeout
\* longer and shorter than some loop delay, all below the clock's range.  The
\* driver stops sooner or later.
CONSTANTS
  None = None
  SequenceHalf = 2
  MotionSessionIds = {0, 1}
  OperationMod = 3
  ClockMod = 8
  MaxStall = 3
  Wheels = {left, right}
  MotionTimeout = 2
  StopSettle = 2
  StopTimeout = 4
  HeartbeatTimeout = 4
  CommandFrames <- MCCommandFrames
SPECIFICATION DriverFairSpec
INVARIANTS
  MotionAuthorised
  CommandFresh
  OperationInStep
  RestBeforeOk
PROPERTIES
  LifecycleImplemented
  OperationResolved
  MotionNeedsCommands
