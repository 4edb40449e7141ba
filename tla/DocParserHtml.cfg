\* HTML: block and inline tags, <meta> elements, noindex comments.
SPECIFICATION Spec
CONSTANTS
  Word <- Words
  Configs <- HtmlConfigs
  NoAttr = NoAttr
  MaxDepth = 2
  MaxText = 3
  MaxEvents = 6
INVARIANTS
  EveryWordOnce
  RoutedToInnermost
  HiddenTextStaysHidden
  VisibleTextIsKept
  AutoWatchesEveryElement
