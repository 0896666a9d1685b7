\* A client sends configurationDone while the initialize of the first is in flight.
SPECIFICATION Spec
CONSTANTS
  Clients = {c1, c2}
  Requests = {"initialize", "configurationDone"}
  MaxRequests = 2
  Events = {"initialized"}
  ReverseRequests = {}
  MaxEmitted = 1
  MayFail = {}
  AnnouncesContinued = TRUE
  OptIn = {}
  Orderly = FALSE
INVARIANTS
  CapabilitiesShared
CHECK_DEADLOCK FALSE
