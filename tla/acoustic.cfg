\* A scaled-down ladder with the tightest overlap margin the assumption allows.
SPECIFICATION Spec
CONSTANTS
  Streams = {r1, r2}
  FirstBlock = 1
  GrowthPct = 200
  MaxBlock = 4
  Lookahead = 1
  MinEmit = 2
  Crossfade = 480
  CtxWindow = 3
  OverlapMargin = 3
  PromptCodes = 2
  BankUnit = 17
  MaxPayload = 5
  MaxCodes = 16
INVARIANTS
  ExactlyOnce
  CompleteAtClose
  NoWindowGap
PROPERTY
  NoiseStable
