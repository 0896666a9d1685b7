\* Two connections, one stop whose frame is fetched while magics run.
SPECIFICATION FairSpec
CONSTANTS
  Main = main
  Fetchers = {f1}
  MaxSockets = 2
  MaxRequests = 2
INVARIANTS
  TypeOK
  WireIsOrdered
  ConnectedIsRead
PROPERTIES
  AnswersAreOwn
  CallsReturn
\* The REPL may be left alone.
CHECK_DEADLOCK FALSE
