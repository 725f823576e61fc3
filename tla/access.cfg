\* Two accounts, two requests at once; two telephones and one code, or two steps of thirty seconds; three requests in all.
CONSTANTS
  User = {u1, u2}
  Request = {r1, r2}
  Device = {d1, d2}
  Code = {c1}
  MaxActs = 3
  MaxLoginActs = 3
  MaxStep = 1
  None = None
SPECIFICATION Spec
SYMMETRY Symmetry
INVARIANTS
  OrderlyAdminRemains
  RevokedIsShutOut
  OneSessionPerProof
  NobodyLockedOut
PROPERTY
  CodeLetsOneIn
CHECK_DEADLOCK FALSE
