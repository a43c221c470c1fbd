\* Six items in four buckets: a seventh one starts the expansion; two pauses.
CONSTANTS
  Workers = {w1, w2}
  Background = {"rebalancer"}
  Keys = {0, 1, 2, 3, 4, 5, 6}
  NoKey = NoKey
  hash <- MCHash
  Requested = {4}
  Resident = {0, 1, 2, 3, 5, 6}
  InitHashpower = 2
  ItemLockHashpower = 1
  MaxHashpower = 3
  MayFailCalloc = TRUE
  CrawlerCommands = TRUE
  MaxPauses = 2
SPECIFICATION FairSpec
INVARIANTS
  TableSound
PROPERTIES
  TableIsSet
  MaintenanceEnds
CHECK_DEADLOCK FALSE
