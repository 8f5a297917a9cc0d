CONSTANTS
  w1 = w1
  w2 = w2
  r1 = r1
  r2 = r2
  AllFiles <- FiveFiles
  AllWorkers = {w1, w2}
  AllReaders = {r1, r2}
  NoPath = NoPath
  Setups <- AllScans
SPECIFICATION Spec
INVARIANTS TypeOK BuffersAccounted CloseAfterLastPush
PROPERTIES ImplementsContract EndsUnlessStuck
CHECK_DEADLOCK FALSE
