CONSTANTS
  Branch = {main}
  Unknown = Unknown
  MaxReads = 1
  MaxWire = 2
  MaxEvents = 2
SPECIFICATION MetaSpec
INVARIANTS UnknownReachesTheTab
CHECK_DEADLOCK FALSE
