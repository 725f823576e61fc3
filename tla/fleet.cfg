\* One operator, two sites (deleted and made again), two requests at once, four in all.
CONSTANTS
  User = {u1}
  Site = {s1, s2}
  Probe = {p1, p2}
  Name = {n1, n2}
  Code = {c1}
  Machine = {m1, m2}
  Request = {r1, r2}
  MaxActs = 4
  None = None
SPECIFICATION Spec
SYMMETRY Symmetry
INVARIANTS
  ProbesFollow
  WithinScope
PROPERTY
  CodeLetsOneIn
CHECK_DEADLOCK FALSE
