CONSTANTS
  Trees <- AllTrees
  ExcludedDirNames <- DirNames
  ExcludedFiles <- FileNames
  MaxPath = 4
  MaxMoves = 2
  NoPath = NoPath
SPECIFICATION Spec
INVARIANTS TypeOK StableFound PathsWereReal NoLoop
