\* Three requests of two operators and a fault, a heartbeat that may be late;
\* then the probe beats on.
SPECIFICATION FairSpec
CONSTANTS
  MaxKeys = 3
  MaxActs = 3
  MaxFaults = 1
  Job = {1, 2}
  Beat = {1, 2}
  None = None
INVARIANTS
  KeyWorks
  EveryKeyIsNoted
PROPERTIES
  OrderlyPromotedIsHeld
  KeySettles
