\* A client answers a reverse request of the adapter.
SPECIFICATION Spec
CONSTANTS
  Clients = {c1, c2}
  Requests = {"initialize"}
  MaxRequests = 1
  Events = {"initialized"}
  ReverseRequests = {"runInTerminal"}
  MaxEmitted = 1
  MayFail = {}
  AnnouncesContinued = TRUE
  OptIn = {}
  Orderly = TRUE
INVARIANTS
  ReverseResponsesDelivered
CHECK_DEADLOCK FALSE
