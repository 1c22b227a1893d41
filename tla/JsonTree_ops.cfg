SPECIFICATION Spec
CONSTANTS
  MaxNodes = 5
  MaxAllocs = 6
  MaxCalls = 5
  MaxElements = 2
  Kinds = {"string", "array", "object"}
  Values = {x, y}
  Names = {"k", "K"}
  Literals = {"K"}
  Fold <- FoldOf
SYMMETRY ValueSymmetry
INVARIANT MemorySound
INVARIANT CopiesFaithful
PROPERTY ImplementsForest
CHECK_DEADLOCK FALSE
