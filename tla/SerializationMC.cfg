SPECIFICATION Spec
CONSTANTS
  Closing = Closing
  Values <- Payloads
  Malformed <- malformed
  Capacity = 7
  Largest <- SmallIntegers
  Bucket <- SmallBuckets
  CORECONF_MAX_DEPTH = 2
  CORECONF_MAX_LOOP = 1
INVARIANTS
  TypeOK
  RoundTrip
  NothingLost
PROPERTIES
  CallReturns
