SPECIFICATION WorkflowSpec
CONSTANTS
  a = a
  b = b
  c = c
  finalA = finalA
  finalB = finalB
  finalC = finalC
  handA = handA
  handB = handB
  handC = handC
  contA = contA
  contB = contB
  contC = contC
  c1 = c1
  c2 = c2
  Workflows = {a, b, c}
  Continuations = {contA, contB, contC}
  RootFinals = {finalA, finalB, finalC}
  Handoffs = {handA, handB, handC}
  RootLeases = {}
  ContinuationOf <- Continuation
  FinalOf <- Final
  HandoffOf <- Handoff
  Workers = {w1}
  Owners = {w1}
  OwnerOf <- OwnName
  Created = {{}}
  PromptReads = TRUE
  MaxToken = 1
  Clients = {c1, c2}
  Endings = {"completed"}
  MaxRev = 3
  None = None
SYMMETRY Symmetry
CONSTRAINTS HandoffsWait InvocationsEarly ContinuationsEarly
INVARIANTS PointerIsTheActiveOne EndedScopeIsQuiet OneOpenFinal EffectIsAcknowledged
PROPERTIES EndIsFinal
CHECK_DEADLOCK FALSE
