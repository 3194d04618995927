SPECIFICATION AnySpec
CONSTANTS
  n1 = n1
  n2 = n2
  n3 = n3
  h1 = h1
  h2 = h2
  End = End
  Junk = Junk
  Values <- MCValues
  InitialCap = 3
  RestartCap = 1
  CapLimit = 3
  Indices <- MCIndices
  MaxLen = 4
  SetKeys <- MCSetKeys
  SetSize = 4
  TreeKeys <- MCTreeKeys
  TreeMax = 5
  ListNodes <- MCNodes
  ListHeads <- MCHeads
  SortValues <- MCSortValues
  SortSizes <- MCSizes
  ShortRange = 3
SYMMETRY NodeSymmetry
INVARIANTS
  PatternsMatch
  TreeIsSearchTree
PROPERTIES
  IsFifoQueue
  VectorAndStackAreSequences
  SetAnswersRight
  SortSettles
  ListsStayRings
