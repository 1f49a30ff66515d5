SPECIFICATION HSpec
CONSTANTS
  NULL = NULL
  UINT64 = 16777216
  StrToUmax <- SchcStrToUmax
  Schema <- SchcSchema
  KeyMapping <- SchcKeyMapping
  Instance <- SchcInstance
  KeyLists <- SchcKeyLists
  Values <- SchcValues
  Handlers <- SchcHandlerTable
  MaxRecursion = 50
  MaxEntries = 5
PROPERTIES
  ImplementsTemplates
  KeysTold
  DeepQueries
