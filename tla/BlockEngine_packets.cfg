SPECIFICATION Spec
CONSTANTS
  Key = {"a"}
  Content <- SomeBatches
  Ofac = {"o"}
  Tables <- SomeTables
  QueueCapacity = 1
  StreamCapacity = 1
  Period <- EveryUnit
  ResponseTimeout = 1
  SendTimeout = 1
  RetryDelay = 1
  Ttl = 1
  Margin = 1
  Lifetime = {1}
  AuthAnswers = TRUE
  CallLag = 1
PROPERTIES ImplementsSessions StaleNeverSent SentOnInterest
CHECK_DEADLOCK FALSE
