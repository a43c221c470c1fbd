\* The fourth item can be linked again between the reset of started_expanding and the wait.
CONSTANTS
  Workers = {w1, w2}
  Background = {"crawler"}
  Keys = {0, 1, 2, 3}
  NoKey = NoKey
  hash <- MCHash
  Requested = {0}
  Resident = {0, 1, 2, 3}
  InitHashpower = 1
  ItemLockHashpower = 0
  MaxHashpower = 2
  MayFailCalloc = TRUE
  CrawlerCommands = TRUE
  MaxPauses = 2
SPECIFICATION Spec
INVARIANT
  NotInvokedWhileWaiting
CHECK_DEADLOCK FALSE
