\* Two hosts to find, two machines to scan, two at the same time.
CONSTANTS
  Slot = {s1, s2}
  Host = {h1, h2}
  Machine = {m1, m2}
  ScanId = {1, 2}
  Mixes <- MCMixes
  None = None
SPECIFICATION ScansSpec
INVARIANTS
  GuardTellsTheSearch
  ShowsWhatWasFound
PROPERTY
  InventoryOnlyGetsNewer
SYMMETRY MCSymmetry
CHECK_DEADLOCK FALSE
