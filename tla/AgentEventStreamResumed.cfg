SPECIFICATION FairStreamSpec
CONSTANTS
  runner = runner
  tool = tool
  Publishers = {runner, tool}
  Runner = runner
  Emits <- Script
  Old = old
  Unstorable = {}
  Buffer = 3
  PageSize = 2
  MaxFetches = 2
  MaxDisconnects = 0
  MaxCrashes = 0
  None = None
CHECK_DEADLOCK FALSE
PROPERTIES ResumedStreamEnds
