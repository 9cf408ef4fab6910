\* A cancelled id is submitted once more.
SPECIFICATION Spec
CONSTANTS
  Rows = {row}
  Uncond = {}
  Draws = {a, b}
  STOP = STOP
  NONCODE = NONCODE
  FirstBlock = 2
  GrowthPct = 180
  MaxBlock = 4
  MaxTokens = 4
  MaxControl = 1
  MaxEpochs = 2
INVARIANTS
  RestartServedFresh
CHECK_DEADLOCK FALSE
