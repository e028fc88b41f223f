SPECIFICATION FairSpec
CONSTANTS
  Threads = {t1, t2}
  PacketDelay = 2
  EngineCapacity = 1
  DelayCapacity = 1
  EngineConfigured = TRUE
  MaxBatches = 2
INVARIANTS ExactlyOnce PanicOnlyInShutdown
PROPERTIES ArrivalOrder ImplementsDelayLine EventuallyRelayed ThreadsStop
CHECK_DEADLOCK FALSE
