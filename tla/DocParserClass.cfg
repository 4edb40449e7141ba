\* XML, XMLClassAttributes.
SPECIFICATION Spec
CONSTANTS
  Word <- Words
  Configs <- ClassOnly
  NoAttr = NoAttr
  MaxDepth = 3
  MaxText = 3
  MaxEvents = 6
INVARIANTS
  RoutedToInnermost
