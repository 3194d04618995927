SPECIFICATION FrontEndSpec
CONSTANTS
  Names <- MCNames
  MaxDecls = 4
  MaxDepth = 4
  Redeclare = FALSE
  Subjects = {"names"}
  Kinds <- FewKinds
  MaxTokens = 1
  MaxParseDepth = 1
  Awkward = {}
  MaxOpen = 2
  MaxGap = 2
  MaxNest = 2
  TextSize = 5
  Macros = {"A", "B"}
  NoBody = "-"
  Files = {"main", "a", "b"}
  MainFile = "main"
  AotMode = FALSE
  MaxInclude = 3
  MaxRead = 6
  MaxBytes = 8
INVARIANTS
  DeclaredAreKnown
CHECK_DEADLOCK FALSE
