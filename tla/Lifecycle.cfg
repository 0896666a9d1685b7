\* Two clients come and go while the program starts, serves and ends in either
\* mode; one may be sent what cannot be encoded, the other send what cannot be read.
SPECIFICATION FairSpec
CONSTANTS
  Clients = {c1, c2}
  Upstream = upstream
  Unreadable = {c2, upstream}
  Unencodable = {c1}
INVARIANTS
  TypeOK
  TeardownComplete
  OnlyUnreadableFails
  ForgottenIsClosed
  DeadWriterIsNoticed
  AwaitedIsEnding
PROPERTIES
  GoneIsForgotten
  ShutdownEnds
\* The program ends, and a client may keep it from ending.
CHECK_DEADLOCK FALSE
