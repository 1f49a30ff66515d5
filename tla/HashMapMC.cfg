SPECIFICATION Spec
CONSTANTS
  Keys = {1, 2, 3, 4, 5}
  Values = {v1, v2, v3, v4}
  NULL = NULL
  hashKey <- MCHashKey
  MAX_LOOP = 1
  MaxLost = 1
INVARIANTS
  HashMapOK
  OneObjectPerKey
  OneOwner
  SizeCounts
PROPERTIES
  IsOwningMap
