\* Five clips, four threads, room for two.
SPECIFICATION Spec
CONSTANTS
  Clips <- MCClips
  Users = {u1, u2, u3, u4}
  Capacity = 2
  NativeRate = 24
  MaxSeconds = 30
  TokenMelRatio = 2
SYMMETRY Threads
INVARIANTS
  OwnVoice
  LeasedStays
  LeasesCounted
  OvershootLeased
PROPERTY
  EvictsOldest
