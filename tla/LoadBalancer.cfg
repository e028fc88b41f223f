SPECIFICATION FairSpec
CONSTANTS
  Server = {s1, s2}
  MaxSlot = 3
  SlotCapacity = 1
  SilenceLimit = 1
INVARIANTS OvertakingBounded HighestReported
PROPERTIES ImplementsBoard StallRecovered SlotReported
CHECK_DEADLOCK FALSE
