\* XML: plain, cascading, aliased, attributes, autoall, error.
SPECIFICATION Spec
CONSTANTS
  Word <- Words
  Configs <- XmlConfigs
  NoAttr = NoAttr
  MaxDepth = 3
  MaxText = 3
  MaxEvents = 5
INVARIANTS
  TypeOK
  MetastackFollowsDocument
  PropstackFollowsDocument
  NoFailedLookup
  EveryWordOnce
  RoutedToInnermost
  PropertiesHoldTheirText
  BuffersMatchTokens
  CascadeFollowsDocument
  
  AutoWatchesEveryElement
  OnlyStartTagsAreRefused
