CONSTANTS
  Workers = {w1, w2}
  Keys = {k1}
  Chunks = {i1, i2, i3}
  None = None
  SetValues <- Values
  Settings <- Alternatives
  LruLimit = 1
  Tries = 2
  AllocTries = 2
  MaxCas = 2
  MaxVal = 1
  MaxRefs = 3
SPECIFICATION Spec
SYMMETRY Symmetry
INVARIANTS
  RefsCounted
  TableMatchesQueues
PROPERTIES
  StoreIsVersioned
