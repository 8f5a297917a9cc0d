CONSTANTS
  Lists <- SomeLists
  Numbers <- SomeNumbers
  Dashed <- AllDashed
  Lookback = 52
  LargeBytes = 50
  RegisterBits = 10
  ByteBits = 4
  PolyC <- SomePolyC
  PolyIeee <- SomePolyIeee
  Setups <- TwoManifests
  FileAt <- AllFiles
  ByteAt <- SomeByte
  NoPath = NoPath
SPECIFICATION Spec
INVARIANTS BaselineKept
