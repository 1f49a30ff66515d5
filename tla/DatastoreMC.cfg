SPECIFICATION Spec
CONSTANTS
  NULL = NULL
  UINT64 = 256
  StrToUmax <- MCStrToUmax
  Schema <- MCSchema
  KeyMapping <- MCKeyMapping
  Instance <- MCInstance
  KeyLists <- MCKeyLists
  Values <- MCValues
  MaxRecursion = 5
  MaxEntries = 2
INVARIANTS
  TypeOK
  TablesAgree
  UniqueEntries
PROPERTIES
  Refines
  OnlyTargetChanges
  WalkIsComplete
  CallReturns
