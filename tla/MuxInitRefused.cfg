\* The adapter refuses the first initialize.
SPECIFICATION FairSpec
CONSTANTS
  Clients = {c1, c2}
  Requests = {"initialize"}
  MaxRequests = 1
  Events = {"initialized"}
  ReverseRequests = {}
  MaxEmitted = 1
  MayFail = {"initialize"}
  AnnouncesContinued = TRUE
  OptIn = {}
  Orderly = TRUE
PROPERTIES
  InitializeAnswered
CHECK_DEADLOCK FALSE
