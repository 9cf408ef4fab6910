\* One row through up to four rungs and a flush; the context window opens.
SPECIFICATION Spec
CONSTANTS
  Rows = {row}
  Uncond = {}
  Draws = {a}
  STOP = STOP
  NONCODE = NONCODE
  FirstBlock = 2
  GrowthPct = 150
  MaxBlock = 4
  MaxTokens = 11
  MaxControl = 1
  MaxEpochs = 1
  Lookahead = 1
  MinEmit = 2
  Crossfade = 480
  CtxWindow = 4
  OverlapMargin = 3
  PromptCodes = 2
  BankUnit = 32
INVARIANTS
  LaddersAgree
  WholeUtteranceHeard
PROPERTIES
  ImplementsLedger
  Heard
CHECK_DEADLOCK FALSE
