\* Two requests over two keys of different generations.
SPECIFICATION Spec
CONSTANTS
  Requests = {r1, r2}
  g1 = g1
  g2 = g2
  k1 = k1
  k2 = k2
  Keys = {k1, k2}
  Generations = {g1, g2}
  GenOf <- KeyPerGeneration
  MaxRevision = 2
CHECK_DEADLOCK FALSE
INVARIANTS
  DecisionsSound
PROPERTIES
  CallersDecided
