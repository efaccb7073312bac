\* One session number, used again and again: agreement does not rest on the
\* numbers being different.  Four sequence numbers, so that they wrap; a token for
\* a new epoch while frames of the one before are still on the line.
CONSTANTS
  None = None
  SessionIds = {0, 1}
  MotionSessionIds = {0, 1}
  SequenceCount = 4
  SequenceHalf = 2
  OperationMod = 2
  MaxRetries = 1
  Tokens = {t1, t2}
  ChannelBound = 2
SPECIFICATION RobotSpec
INVARIANTS
  EpochBarrier
  SessionsAgree
  LineInv
PROPERTY NoFalseLife
