SPECIFICATION Spec
CONSTANTS
  NULL = NULL
  UINT64 = 256
  StrToUmax <- MCStrToUmax
  Schema <- FSchema
  KeyMapping <- FKeyMapping
  Instance <- FInstance
  KeyLists <- FKeyLists
  Values <- FValues
  MaxRecursion = 50
  MaxEntries = 2
PROPERTY
  ReplacedHasTheKeys
