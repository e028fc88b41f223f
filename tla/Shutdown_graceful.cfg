SPECIFICATION ShutdownSpec
CONSTANTS
  Threshold = 2
  SlotCapacity = 1
  Batches = 2
  SizeOf <- SinglePackets
  QueueCapacity = 1
  ReadLimit = 1
INVARIANT GracefulShutdown
CHECK_DEADLOCK FALSE
