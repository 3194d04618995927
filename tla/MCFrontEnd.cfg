SPECIFICATION FrontEndSpec
CONSTANTS
  Names <- MCNames
  MaxDecls = 4
  MaxDepth = 4
  Redeclare = FALSE
  Subjects = {"env", "names", "pp", "parser", "places", "scan", "format"}
  Kinds <- AllKinds
  MaxTokens = 5
  MaxParseDepth = 6
  Awkward = {}
  MaxOpen = 2
  MaxGap = 2
  MaxNest = 2
  TextSize = 5
  Macros = {"A", "B"}
  NoBody = "-"
  Files = {"main", "a", "b"}
  MainFile = "main"
  AotMode = FALSE
  MaxInclude = 3
  MaxRead = 6
  MaxBytes = 8
INVARIANTS
  LookupIsInnermost
  NamesMeanTheSame
  AcceptedIsBalanced
  PlacedOnItsLine
  ScannersAgree
  FormattingRoundTrips
PROPERTIES
  ClosingIsExact
  ImplementsGroups
  EndsOrStandsStill
CHECK_DEADLOCK FALSE
