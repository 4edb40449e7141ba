\* Two runs with two configuration files.
SPECIFICATION Spec
CONSTANTS
  Lower <- MCLower
  DefaultMimes <- MCMimes
  DefaultParsers <- MCParsers
  DefaultIndex <- MCIndex
  DefaultTagAliases <- MCAliases
  ConfFiles <- MCFiles
  MaxOpen = 2
  Commands <- TwoCommands
  MaxRuns = 2
INVARIANTS
  IdsStayDistinct
\* The last run ends.
CHECK_DEADLOCK FALSE
