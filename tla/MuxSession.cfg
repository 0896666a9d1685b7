\* Orderly clients share one session: the handshake, the stop events, and the
\* clients that come late or leave early; the adapter answers.
SPECIFICATION FairSpec
CONSTANTS
  Clients = {c1, c2}
  Requests = {"initialize", "configurationDone", "threads"}
  MaxRequests = 2
  Events = {"initialized", "stopped", "continued", "terminated", "debugpySockets"}
  ReverseRequests = {}
  MaxEmitted = 3
  MayFail = {"configurationDone"}
  AnnouncesContinued = TRUE
  OptIn = {}
  Orderly = TRUE
INVARIANTS
  TypeOK
  RequestsAccountedFor
  BufferAwaitsAnswer
  CapabilitiesDelivered
  HandshakeCompleted
  StopStateShared
  NoEventMissed
  CachedStopIsCurrent
PROPERTIES
  Routes
  RequestsAnswered
CHECK_DEADLOCK FALSE
