SPECIFICATION Spec
CONSTANTS
  Threads = {t1}
  PacketDelay = 1
  EngineCapacity = 1
  DelayCapacity = 1
  EngineConfigured = FALSE
  MaxBatches = 1
INVARIANTS PanicOnlyInShutdown
CHECK_DEADLOCK FALSE
