\* Pages malloc returned in descending order: hlls and slab_list differ in order.
CONSTANTS
  Workers = {w1}
  Pausers = {}
  ReassignEnabled = FALSE
  MayFailRealloc = FALSE
  PowerLargest = 2
  ItemClasses = {1}
  Pages = {1, 2}
  PerSlab = 1
  MemLimit = 2
  NewLimits = {1}
  MaxFailedMallocs = 0
  MaxRounds = 1
  MaxEstimate = 1
SPECIFICATION Spec
INVARIANT SetSlabActiveAsserts
