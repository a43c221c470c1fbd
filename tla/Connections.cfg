SPECIFICATION Spec
CONSTANTS
  Clients = {c1, c2}
  Fds = {f1}
  NumThreads = 2
  None = None
  Kinds = {"get", "set", "set noreply", "quit"}
  MaxConns = 1
  ReqsPerEvent = 1
  SocketRoom = 1
  MaxRequests = 2
INVARIANTS
  DescriptorsAccounted
  ConnsCounted
  ItemsHeld
  Wakeable
  RepliesInOrder
PROPERTIES
  RequestsAnswered
CHECK_DEADLOCK FALSE
