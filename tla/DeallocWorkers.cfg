\* Two workers fetch and store items of two classes while pages are removed.
CONSTANTS
  Workers = {w1, w2}
  Pausers = {}
  ReassignEnabled = FALSE
  MayFailRealloc = FALSE
  PowerLargest = 2
  ItemClasses = {1, 2}
  Pages = {1, 2, 3}
  PerSlab = 2
  MemLimit = 3
  NewLimits = {1}
  MaxFailedMallocs = 1
  MaxRounds = 1
  MaxEstimate = 1
SPECIFICATION Spec
SYMMETRY WorkerSymmetry
INVARIANTS
  TypeOK
  PagesOwnedOnce
  NoDanglingItem
  PageClearAtFinish
  MonitorConsistent
  SweptPageInPlace
  SegfaultOnlyInLargest
