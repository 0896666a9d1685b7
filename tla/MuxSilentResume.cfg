\* An adapter that resumes on continue without a continued event, as DAP allows.
SPECIFICATION Spec
CONSTANTS
  Clients = {c1}
  Requests = {"initialize", "configurationDone", "continue"}
  MaxRequests = 3
  Events = {"initialized", "stopped", "continued"}
  ReverseRequests = {}
  MaxEmitted = 2
  MayFail = {}
  AnnouncesContinued = FALSE
  OptIn = {}
  Orderly = TRUE
INVARIANTS
  CachedStopIsCurrent
CHECK_DEADLOCK FALSE
