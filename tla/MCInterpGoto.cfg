SPECIFICATION ExecSpec
CONSTANTS
  Programs <- LoopJumpPrograms
  Funcs <- MCFuncs
  Labels <- MCLabels
  MaxCallDepth = 3
  Parts = {"control"}
  UnaryOps = {"-", "~"}
  VarPrograms <- DisjointPrograms
  Names <- MCNames
  MaxVal = 1
  Absent = Absent
  MaxFrames = 2
  MaxBlocks = 1
  CodePrograms <- OneProgram
  MaxDepth = 4
  VaValues = {7, 8}
  VaSlots = 2
  VaMaxExtra = 3
  VaMaxActive = 3
  VaBeyond = 0
  PlainSizes = {1, 3, 8}
  BitFields <- MCBitFields
  UnionSizes <- MCUnionSizes
  MaxMembers = 4
PROPERTIES
  GotoReachesLabel
