CONSTANTS
  Lists <- SomeLists
  Numbers <- SomeNumbers
  Dashed <- AllDashed
  Lookback = 52
  LargeBytes = 50
  RegisterBits = 10
  ByteBits = 4
  PolyC <- SomePolyC
  PolyIeee <- SomePolyIeee
  Setups <- AllRuns
  FileAt <- AllFiles
  ByteAt <- SomeByte
  NoPath = NoPath
SPECIFICATION Spec
INVARIANTS TypeOK ParsedAsRead ThreadsForTheDisk ChecksumOfParts VerdictFits VerdictIsWorst EachFileOnce FlaggedStays RotIsFlagged
