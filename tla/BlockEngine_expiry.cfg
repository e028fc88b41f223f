SPECIFICATION Spec
CONSTANTS
  Key = {}
  Content <- NoBatches
  Ofac = {}
  Tables <- NoTables
  QueueCapacity = 1
  StreamCapacity = 1
  Period <- EveryUnit
  ResponseTimeout = 2
  SendTimeout = 1
  RetryDelay = 1
  Ttl = 1
  Margin = 5
  Lifetime <- AnyLifetime
  AuthAnswers = TRUE
  CallLag = 1
INVARIANTS ExpiryKnown
CHECK_DEADLOCK FALSE
