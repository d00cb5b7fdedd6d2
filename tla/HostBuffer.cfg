SPECIFICATION MCSpec
CHECK_DEADLOCK FALSE
CONSTANTS
  CallerSlots = {2}
  MaxSlot = 2
  Layouts <- MCLayouts
  Bytes <- MCBytes
  MaxGeneration = 3
  MaxViews = 2
  MaxSentinels = 1
  None = None
INVARIANTS HandlesAreSound VisibleIsPublished
PROPERTIES ReuseNeedsQuiescence BanksFixedUnderBorrow
