\* Two frames, of which foreign ones, cut into pieces and truncated anywhere.
SPECIFICATION FairSpec
CONSTANTS
  MaxFrames = 2
  MaxChars = 2
INVARIANTS
  TypeOK
  WholeMessages
  TruncationIsNoFailure
PROPERTIES
  CarriesMessages
  EveryStepCounts
  ParsersFinish
\* Reading ends with the stream.
CHECK_DEADLOCK FALSE
