\* Losses, duplicates, changes of attachment and stops, on small buffers; a
\* tick outlasts a post, as the task must read faster than the bus fills.
SPECIFICATION FairSpec
CONSTANTS
  Mixes <- MCMixes
  MaxActs = 2
  MaxMeasures = 3
  BusSize = 2
  MaxPoints = 2
  MaxAge = 1
  PersistEvery = 2
  BackoffMax = 2
  Timeout = 1
  Attachments = {0, 1}
  None = None
INVARIANTS
  NothingLostSilently
  PersistedInTime
PROPERTY
  EventuallyDelivered
CHECK_DEADLOCK FALSE
