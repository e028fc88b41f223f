SPECIFICATION FairShutdownSpec
CONSTANTS
  Threshold = 2
  SlotCapacity = 1
  Batches = 2
  SizeOf <- SinglePackets
  QueueCapacity = 1
  ReadLimit = 1
INVARIANTS HealthFollowsSlots ForwardsKept
PROPERTIES ProcessEnds
CHECK_DEADLOCK FALSE
