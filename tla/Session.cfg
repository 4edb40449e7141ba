\* Every text of up to four characters, some of five, files that include each other, and directories.
SPECIFICATION Spec
CONSTANTS
  Char <- MCChar
  Wide = {"e"}
  Marks = {"'"}
  Breaks <- MCBreaks
  LowerChar <- MCLowerChar
  MaxWordLen = 4
  MinWordLen = 1
  Block = 2
  Files <- MCFiles
  Directories <- MCDirectories
  Devices <- MCDevices
  Cases <- MCCases
  MaxDepth = 3
INVARIANTS
  SessionTypeOK
  TokensAreWords
  TokenListSound
  CountsAreUsers
  IncludedWordsArrive
PROPERTIES
  Answered
\* The program ends, or its process dies.
CHECK_DEADLOCK FALSE
