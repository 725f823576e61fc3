\* Searches alone: one gives up for want of an address.
CONSTANTS
  Slot = {s1, s2}
  Host = {h1, h2}
  Machine = {m1, m2}
  ScanId = {1, 2}
  Mixes <- MCMixes
  None = None
SPECIFICATION ScansSpec
INVARIANT BusyMeansSearching
SYMMETRY MCSymmetry
CHECK_DEADLOCK FALSE
