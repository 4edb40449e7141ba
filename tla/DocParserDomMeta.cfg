\* XML, a metaname named by its DOM path that is no property.
SPECIFICATION Spec
CONSTANTS
  Word <- Words
  Configs <- DomMetaOnly
  NoAttr = NoAttr
  MaxDepth = 3
  MaxText = 3
  MaxEvents = 6
INVARIANTS
  NoFailedLookup
