\* New work is paused while a continuation waits.
CONSTANTS
  Streams = {r1, r2}
  MaxRunning = 2
  FreshBatch = 1
  ContBatch = 1
  ChunkSizes = {2}
  Pauses = {"unpaused", "new"}
SPECIFICATION Spec
PROPERTIES RunningServed
