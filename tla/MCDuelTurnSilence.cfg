SPECIFICATION FairSpec
CONSTANTS
  None = None
  Limit = 2
  Second = 1
  Window = 2
  MaxAsks = 2
  MaxRetries = 1
  MaxResyncs = 1
  MaxLoops = 2
CHECK_DEADLOCK FALSE
CONSTRAINT Going
PROPERTIES SilentPlayerLoses
