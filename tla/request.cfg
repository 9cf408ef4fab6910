\* Two requests, the first of 24 kinds; limits of a few tokens.
SPECIFICATION Spec
CONSTANTS
  Ids = {1, 2}
  Requests <- MCRequests
  Alias <- MCAlias
  Qualified = {"en", "ar"}
  TextLimit = 6
  SpeechTable = 5
  MaxModelLen = 13
  CondPrefix = 3
  PrefillBos = 1
  MaxNew = 3
  One = 4
  Ulp = 2
  WeightMax = 10
  PenaltyMin = 1
  PenaltyMax = 8
  DefaultWeight = 2
  DefaultPenalty = 2
  GuardMin = 5
  GuardPct = 60
  MinEmit = 2
INVARIANTS
  AcceptedServable
  ServedWhole
PROPERTIES
  Answered
CHECK_DEADLOCK FALSE
