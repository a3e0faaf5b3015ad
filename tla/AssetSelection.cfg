SPECIFICATION Spec
CONSTANTS
  Tasks = {t1, t2}
  MaxSlot = 1
  Types = {character}
  Capabilities = {character}
  Sections = {sec}
  Media = {m1}
  Readers = {p1}
  PicksWhileActive = FALSE
  RetriesPolled = FALSE
  Uncached = TRUE
  None = None
SYMMETRY Symmetry
INVARIANTS SingleChoice SelectionHasTask FlaggedSlotHasRow
PROPERTIES OnlyCompletionReplaces
