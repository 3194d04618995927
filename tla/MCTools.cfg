SPECIFICATION ToolsSpec
CONSTANTS
  p1 = p1
  p2 = p2
  Procs <- MCProcs
  Sources = {"a", "b"}
  Contexts = {1}
  None = None
  Torn = Torn
  Classes = {"A", "B", "C"}
  Methods = {"m"}
  NoClass = "-"
  Uris = {"a", "b"}
  NoUri = "none"
  MaxEdits = 4
  MaxInbox = 2
  Units <- MCUnits
  LongUnits <- MCLong
  Garbage <- MCGarbage
  MaxLines = 3
  HCC_HAS_READLINE = FALSE
  Subjects = {"jit", "repl", "methods", "lsp"}
INVARIANTS
  RunsItsText
  PublishedWhole
  MethodsAreCurrent
  TextsAreAnswered
PROPERTIES
  Terminates
  DocumentsAreServed
  KeepsUp
CHECK_DEADLOCK FALSE
