\* A client stays connected while the program shuts down.
SPECIFICATION FairSpec
CONSTANTS
  Clients = {c1}
  Upstream = upstream
  Unreadable = {}
  Unencodable = {}
PROPERTIES
  CloseEnds
CHECK_DEADLOCK FALSE
