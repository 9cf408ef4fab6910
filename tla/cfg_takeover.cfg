\* A guided caller leaves, two unguided callers take its rows over.
SPECIFICATION Spec
SYMMETRY Symmetry
CONSTANTS
  Pairs = {p1}
  Plain = {x, y}
  Capacity = 3
  Draws = {a, stop}
  STOP = stop
  MaxTokens = 2
INVARIANTS
  OwnTokens
CHECK_DEADLOCK FALSE
