\* A frame that arrives after the debuggee went on.
SPECIFICATION Spec
CONSTANTS
  Main = main
  Fetchers = {f1}
  MaxSockets = 1
  MaxRequests = 2
INVARIANTS
  FrameIsCurrent
CHECK_DEADLOCK FALSE
