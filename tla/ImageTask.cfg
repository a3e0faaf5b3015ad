SPECIFICATION FairImageSpec
CONSTANTS
  Kinds <- SomeKinds
  Buffer = 1
  MaxRetries = 1
  MaxFaults = 1
INVARIANTS NoticeFollowsTask
PROPERTIES PanelShowsTheEnd
CHECK_DEADLOCK FALSE
