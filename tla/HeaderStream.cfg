\* Streams and buffers of up to three documents, good and bad.
SPECIFICATION Spec
CONSTANTS
  Documents <- MCDocuments
  Entries = {"fh", "buffer"}
  MaxHeaders = 4
  Mimes <- MCMimes
  Parsers <- MCParsers
  DefaultMime = "plain"
  DefaultParser = "TXT"
  MaxDocs = 3
INVARIANTS
  TypeOK
PROPERTIES
  ImplementsDocStream
  AlwaysAnswers
  DeliversPromptly
\* The program ends.
CHECK_DEADLOCK FALSE
