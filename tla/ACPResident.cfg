SPECIFICATION FairSpec
CONSTANTS
  s1 = s1
  Runs = {r1, r2}
  Sessions = {s1}
  Asks = {q1}
  Closers = {c1, c2}
  None = None
  SessionOf <- OneSession
INVARIANTS OneRunPerSession NoOrphanProcess CallbacksHaveTheirRun
PROPERTIES WorkingProcessIsLeftAlone CancelledPromptReleases ShutdownIsComplete
CHECK_DEADLOCK FALSE
