SPECIFICATION MCSpec
CONSTANTS
  Clients = {c1, c2}
  ClientSeqs = {1, 2}
  MaxAllocated = 5
SYMMETRY Symmetry
INVARIANTS
  SeqMapTypeOK
  PendingWasAllocated
PROPERTIES
  NumbersNeverReturn
CHECK_DEADLOCK FALSE
