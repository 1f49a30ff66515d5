SPECIFICATION Spec
CONSTANTS
  Items <- MCItems
  hash <- MChash
  NULL = NULL
  MinCap = 4
  GrowPower = 1
  GROW_AT = 60
  SHRINK_AT = 25
INVARIANTS
  TypeOK
  RobinHoodOrder
  AlwaysAnEmptyBucket
  CountsItems
PROPERTIES
  IsItemMap
  CallReturns
CHECK_DEADLOCK TRUE
