\* Every timeout in ticks: the periods are shorter than the timeouts, as in
\* production, with a first and a last retry.  With three sequence numbers an
\* answer may be current, one behind or ahead; two sessions may follow each
\* other in an epoch.
CONSTANTS
  None = None
  SessionIds = {0, 1, 2}
  SequenceCount = 3
  AckTimeout = 1
  TerminalTimeout = 2
  MaxRetries = 2
  HeartbeatPeriod = 1
  LinkTimeout = 3
  PollStall = 1
  Freshness = 2
  WheelPeriod = 1
  SyncTimeout = 2
  ReconnectDelay = 1
SPECIFICATION FairRunnerSpec
INVARIANT SessionsInStep
PROPERTIES
  NoOutdatedMotion
  ClientImplemented
  PortImplemented
  TransactionEnds
  SessionNeedsCommands
  LinkNeedsAnswers
  AttemptsGoOn
