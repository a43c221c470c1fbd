\* The provisioner lowers and raises the limit twice; two classes share the pages.
CONSTANTS
  Workers = {w1}
  Pausers = {}
  ReassignEnabled = FALSE
  MayFailRealloc = FALSE
  PowerLargest = 3
  ItemClasses = {1, 2}
  Pages = {1, 2, 3}
  PerSlab = 1
  MemLimit = 3
  NewLimits = {1, 2}
  MaxFailedMallocs = 0
  MaxRounds = 2
  MaxEstimate = 0
SPECIFICATION FairSpec
INVARIANTS
  MemoryAccounted
  NoLostWakeup
  NoDivideByZero
PROPERTIES
  NoOverShrink
  LastPageKept
  DeallocateCompletes
