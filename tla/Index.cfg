\* Up to three runs over one index, each of eighteen kinds, killed at any step.
SPECIFICATION Spec
CONSTANTS
  Lower <- MCLower
  DefaultMimes <- MCMimes
  DefaultParsers <- MCParsers
  DefaultIndex <- MCIndex
  DefaultTagAliases <- MCAliases
  ConfFiles <- MCFiles
  MaxOpen = 2
  Commands <- MCCommands
  MaxRuns = 3
INVARIANTS
  IndexTypeOK
  HeaderKeepsConfig
  OwnHeaderReadable
  AliasesResolve
  PrefixMeansName
  SlotMeansProperty
PROPERTIES
  ImplementsStore
  Terminates
\* The last run ends.
CHECK_DEADLOCK FALSE
