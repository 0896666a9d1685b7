\* Two clients send anything in any order, and the adapter may refuse anything
\* and asks clients to run programs, which only the second opted in to.
SPECIFICATION Spec
CONSTANTS
  Clients = {c1, c2}
  Requests = {"initialize", "attach", "configurationDone", "disconnect", "continue"}
  MaxRequests = 2
  Events = {"initialized", "stopped"}
  ReverseRequests = {"runInTerminal", "startDebugging", "custom"}
  MaxEmitted = 1
  MayFail = {"initialize", "attach"}
  AnnouncesContinued = FALSE
  OptIn = {c2}
  Orderly = FALSE
INVARIANTS
  ResponsesMatchRequests
  SharedSessionProtected
  UpstreamIsNumbered
  OwnersRegistered
PROPERTIES
  PhaseOnlyAdvances
  ReverseRequestReachesOne
CHECK_DEADLOCK FALSE
