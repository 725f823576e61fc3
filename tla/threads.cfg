\* A thread of the window and the heartbeat task, which also executes
\* commands, on one target.
SPECIFICATION TSpec
CONSTANTS
  Target = {t1}
  Window = {w1}
  Hub = hub
  Caller = {w1, hub}
  Loop = {l1, l2, l3}
  MaxCalls = 4
  Free = free
INVARIANTS RunningMeansMeasured PurgedStaysPurged
PROPERTY StoppedFallsSilent
CHECK_DEADLOCK FALSE
