\* Up to three rows of eleven kinds; the cache holds the warm shapes and one more.
SPECIFICATION BatchSpec
CONSTANTS
  Rows <- MCRows
  Reference <- MCReference
  Seeds = {"none", "7"}
  MaxBatchRows = 2
  BatchVocoder = TRUE
  Ragged = FALSE
  Lookahead = 1
  MinEmit = 2
  TokenMelRatio = 2
  GraphCacheSize = 5
  GraphMaxCodes = 6
  GraphRows = 2
  Prewarm = {2}
  MaxRows = 3
  FirstBlock = 3
  GrowthPct = 150
  MaxBlock = 3
INVARIANTS
  AsAlone
  AcceptedDecodes
  RungsWarm
