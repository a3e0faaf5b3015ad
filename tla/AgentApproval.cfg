SPECIFICATION Spec
CONSTANTS
  Runs = {r1}
  Cancels = {c1}
  MaxTurns = 1
  None = None
  Cards = {s1, s2}
  Questions = {q1}
  Asks = {a1}
  Calls = {g1, g2}
SYMMETRY SpendSymmetry
INVARIANTS AtMostOneSpend
PROPERTIES ImplementsApprovedSpend DecisionNeedsLiveRun DecisionIsFinal
