\* One target, decided on from both sides, with a command and a thread of the
\* window beside the heartbeat task; heartbeats lost, late and repeated,
\* crashes, failing databases and files; then both sides settle.
SPECIFICATION HFairSpec
CONSTANTS
  Window = {w1}
  Task = task
  t1 = t1
  w1 = w1
  task = task
  None = None
  NoOrder = NoOrder
  Target = {t1}
  Order <- MCOrder
  MaxAge = 1
  MaxCommands = 1
  MaxDeliveries = 2
  MaxTime = 2
  Budgets <- MCBudgets
INVARIANT PendingGestureHolds
PROPERTIES
  GestureLeavesOnlyArbitrated
  SilenceStopsNothing
  EventuallyAgree
