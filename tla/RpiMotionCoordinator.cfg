\* The 1500 ms of MOTION_TIMEOUT in ticks of 100 ms.
CONSTANTS
  None = None
  MotionTimeout = 15
SPECIFICATION FairControlSpec
INVARIANTS
  MotionAttended
  NoAuthorityNoMotion
PROPERTIES
  SafeAgainAtRest
  MotionRenewedOrEnded
