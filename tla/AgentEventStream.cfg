SPECIFICATION FairStreamSpec
CONSTANTS
  runner = runner
  tool = tool
  Publishers = {runner, tool}
  Runner = runner
  Emits <- Script
  Old = old
  Unstorable = {"activity"}
  Buffer = 1
  PageSize = 1
  MaxFetches = 2
  MaxDisconnects = 1
  MaxCrashes = 1
  None = None
INVARIANTS MissesAreNoticed NothingShownTwice
PROPERTIES TranscriptConverges
CHECK_DEADLOCK FALSE
