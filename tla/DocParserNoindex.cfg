\* XML, an undefined tag inside a noindex region.
SPECIFICATION Spec
CONSTANTS
  Word <- Words
  Configs <- PlainOnly
  NoAttr = NoAttr
  MaxDepth = 3
  MaxText = 3
  MaxEvents = 6
INVARIANTS
  HiddenTextStaysHidden
