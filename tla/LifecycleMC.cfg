SPECIFICATION Spec
CONSTANTS
  NULL = NULL
  Descs <- descs
  CORECONF_MAX_LOOP = 6
  MaxBlocks = 13
  MaxFaults = 2
INVARIANTS
  OneOwner
  NothingLeft
  LoadedIsWhole
PROPERTIES
  CallReturns
