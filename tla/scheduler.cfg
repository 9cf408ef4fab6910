\* Three streams on two slots; continuations fill a batch; the engine may stop.
SPECIFICATION Spec
CONSTANTS
  Streams = {r1, r2, r3}
  MaxRunning = 2
  FreshBatch = 1
  ContBatch = 2
  ChunkSizes = {1, 2}
  Pauses = {"unpaused", "all"}
INVARIANTS
  AdmissionBounded
  BatchesHomogeneous
  WorkConserving
  OldestTurn
PROPERTY
  RunningServed
