SPECIFICATION Spec
CONSTANTS
  k1 = k1
  k2 = k2
  k3 = k3
  k4 = k4
  NoKey = NoKey
  NoValue = NoValue
  Keys <- MCKeys
  Hash <- MCHash
  Values <- MCValues
  InitialCap = 3
  MaxCap = 6
  AllocFails = TRUE
INVARIANTS
  StoredKeysAreFound
  CountersKeepRoom
PROPERTIES
  IsKeyMap
CHECK_DEADLOCK FALSE
