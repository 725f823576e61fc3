\* A seeded profile and another one, two probes, an operator, a backup.
SPECIFICATION ProfilesSpec
CONSTANTS
  Probe = {p1, p2}
  Id = {x, y}
  Seeded = {x}
  Name = {m, n}
  Writer = {w1}
  Beat = {b1, b2}
  MaxRev = 3
  MaxEdits = 2
  MaxFaults = 1
  Nothing = nothing
SYMMETRY Symmetry
CONSTRAINT Orderly
CHECK_DEADLOCK FALSE
INVARIANT
  OrderlyUpToDate
PROPERTIES
  PrunedIsLearnt
  NoResurrection
