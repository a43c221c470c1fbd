\* slabs reassign moves pages between classes and the pool; nothing is deallocated.
\* A failed realloc leaves mon_slabs_lock held, after which everything may stop.
CHECK_DEADLOCK FALSE
CONSTANTS
  Workers = {w1}
  Pausers = {assoc}
  ReassignEnabled = TRUE
  MayFailRealloc = TRUE
  PowerLargest = 2
  ItemClasses = {1}
  Pages = {1, 2, 3}
  PerSlab = 2
  MemLimit = 3
  NewLimits = {}
  MaxFailedMallocs = 0
  MaxRounds = 0
  MaxEstimate = 1
SPECIFICATION FairSpec
PROPERTIES
  ReassignCompletes
