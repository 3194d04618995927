SPECIFICATION FrontEndSpec
CONSTANTS
  Names <- MCNames
  MaxDecls = 1
  MaxDepth = 1
  Redeclare = FALSE
  Subjects = {"parser"}
  Kinds <- FewKinds
  MaxTokens = 6
  MaxParseDepth = 12
  Awkward = {}
  MaxOpen = 2
  MaxGap = 2
  MaxNest = 2
  TextSize = 5
  Macros = {"A", "B"}
  NoBody = "-"
  Files = {"main", "a", "b"}
  MainFile = "main"
  AotMode = FALSE
  MaxInclude = 3
  MaxRead = 6
  MaxBytes = 8
PROPERTIES
  ParseEnds
CHECK_DEADLOCK FALSE
