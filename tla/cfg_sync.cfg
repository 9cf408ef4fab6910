\* One guided and one unguided caller over the sync path.
SPECIFICATION Spec
SYMMETRY Symmetry
CONSTANTS
  Pairs = {p1}
  Plain = {x}
  Capacity = 3
  Draws = {a, b, stop}
  STOP = stop
  MaxTokens = 2
INVARIANTS
  RowsFollowBatch
  Lockstep
  NeverUnguided
  BreakRecorded
  BrokenNeverServed
  OwnTokens
CHECK_DEADLOCK FALSE
