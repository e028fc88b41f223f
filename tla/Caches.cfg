SPECIFICATION Spec
CONSTANTS
  Server = {s1, s2}
  MaxSlot = 3
  AnnouncedSlots = {0, 1}
  EpochLength = 2
  Leader <- Leaders
  extended = extended
  closed = closed
  Table = {extended, closed}
  TablesAt <- History
INVARIANTS TrueLeaders OneSnapshot NoGap
PROPERTY CachesCatchUp
CHECK_DEADLOCK FALSE
