\* Every writer of the application, a few of each.
SPECIFICATION Spec
CONSTANTS
  Allowed <- Everything
  MaxActs = 4
  MaxGestures = 1
  None = None
INVARIANTS
  NoSectionUndone
  AnnouncedKeyIsOnDisk
CHECK_DEADLOCK FALSE
