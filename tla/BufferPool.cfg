CONSTANTS
  Takers = {r1, r2, r3}
  Buffers = {b1, b2, b3}
  MayLose = TRUE
SPECIFICATION Spec
INVARIANTS TypeOK OneOwner NoLostWakeup
PROPERTIES FreeBufferIsTaken
