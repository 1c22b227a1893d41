SPECIFICATION Spec
CONSTANTS
  Words <- MCWords
  IntOf <- MCIntOf
  Tokens <- MCTokens
  Path <- MCPath
  Opts <- MCOpts
  UIntMod = 16
  MaxTokens = 12
INVARIANT ParsesTheFile
INVARIANT ConfigOfTheFile
CHECK_DEADLOCK FALSE
