\* A guided pair through a growth of the ladder and its cap; a cancelled row may be
\* submitted again over the cursor of its first epoch, and may contradict it.
SPECIFICATION Spec
CONSTANTS
  Rows = {cond, uncond}
  Uncond = {uncond}
  Draws = {a}
  STOP = STOP
  NONCODE = NONCODE
  FirstBlock = 1
  GrowthPct = 200
  MaxBlock = 2
  MaxTokens = 6
  MaxControl = 1
  MaxEpochs = 2
INVARIANTS
  FinalCarriesCode
  RungsExact
  CodesOnce
PROPERTY
  TerminalReached
CHECK_DEADLOCK FALSE
