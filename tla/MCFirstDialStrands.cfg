\* One fault is enough: the path of the first dial dies before its ack.
CONSTANTS
  Socket = {k1, k2}
  NoSocket = NoSocket
  Cap = 1
  MaxSilent = 2
  MaxFaults = 1
SPECIFICATION LinkSpec
PROPERTY NeverStranded
CHECK_DEADLOCK FALSE
