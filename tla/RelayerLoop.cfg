SPECIFICATION FairSpec
CONSTANTS
  v1 = v1
  v2 = v2
  Validator = {v1, v2}
  Slot = {1, 4}
  Schedules <- TwoSchedules
  Owners <- OneOrBoth
  Content <- MixedBatch
  OfacConfigured = TRUE
  ForwardAll = FALSE
  SlotLookahead = 2
  BatchSize = 2
  StreamCapacity = 1
  SubscriptionCapacity = 1
  MaxConnections = 2
INVARIANTS LatestStreamServed WellFormedBatches
PROPERTIES LeadersOnly ImplementsStreams LiveStreamKept UnhealthyDropsAll ClosedStreamRemoved PacketsTaken
CHECK_DEADLOCK FALSE
