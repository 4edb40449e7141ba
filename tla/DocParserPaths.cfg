\* Names by DOM path, class attributes, nested aliased properties, ignored <meta>s.
SPECIFICATION Spec
CONSTANTS
  Word <- Words
  Configs <- PathConfigs
  NoAttr = NoAttr
  MaxDepth = 3
  MaxText = 3
  MaxEvents = 5
INVARIANTS
  PositionsFollowDocument
  LearntNamesHaveBuffers
  EveryWordOnce
PROPERTIES
  OnlyGrows
