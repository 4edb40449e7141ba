\* A program that keeps a token of a document after its handler has returned.
SPECIFICATION Spec
CONSTANTS
  Char <- MCChar
  Wide = {"e"}
  Marks = {"'"}
  Breaks <- MCBreaks
  LowerChar <- MCLowerChar
  MaxWordLen = 4
  MinWordLen = 1
  Block = 2
  Files <- MCFiles
  Directories <- MCDirectories
  Devices <- MCDevices
  Cases <- KeepingCases
  MaxDepth = 3
INVARIANTS
  ContextsOutliveTokens
\* The program ends.
CHECK_DEADLOCK FALSE
