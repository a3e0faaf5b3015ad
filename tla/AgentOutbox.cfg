SPECIFICATION OutboxSpec
CONSTANTS
  w1 = w1
  w2 = w2
  w3 = w3
  server = server
  other = other
  Continuations = {c1}
  RootFinals = {f1}
  Handoffs = {h1}
  RootLeases = {l1}
  Workers = {w1, w2, w3}
  Owners = {server, other}
  OwnerOf <- TwoServers
  PromptReads = TRUE
  Created = {{c1}, {f1}, {h1}, {l1}}
  MaxToken = 4
  None = None
SYMMETRY Symmetry
INVARIANTS OneWriter PromptsAreReconciled
PROPERTIES UncertaintyIsKept ImplementsFencedDelivery
CHECK_DEADLOCK FALSE
