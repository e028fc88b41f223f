SPECIFICATION FairSpec
CONSTANTS
  Key = {}
  Content <- NoBatches
  Ofac = {}
  Tables <- NoTables
  QueueCapacity = 1
  StreamCapacity = 3
  Period <- RareAuth
  ResponseTimeout = 2
  SendTimeout = 1
  RetryDelay = 1
  Ttl = 1
  Margin = 6
  Lifetime <- AnyLifetime
  AuthAnswers = TRUE
  CallLag = 1
INVARIANTS StatusTruthful SilenceBounded
PROPERTIES TokensFresh NoFalseAlarm StallLeft HandlerStops
CHECK_DEADLOCK FALSE
