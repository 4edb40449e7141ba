\* HTML, UndefinedMetaTags ignore.
SPECIFICATION Spec
CONSTANTS
  Word <- Words
  Configs <- HtmlIgnoreOnly
  NoAttr = NoAttr
  MaxDepth = 3
  MaxText = 3
  MaxEvents = 6
INVARIANTS
  OnlyCommentsHide
