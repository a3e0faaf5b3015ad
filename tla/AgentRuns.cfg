SPECIFICATION FairRunsSpec
CONSTANTS
  Runs = {r1, r2}
  Cancels = {c1, c2}
  MaxTurns = 1
  None = None
INVARIANTS ExecutingRunIsOnRecord OneAgentAtATime RowSaysRunningIffActive NothingSurvivesClose
PROPERTIES RunFateIsFinal CancelledRunEnds CloseReturns
