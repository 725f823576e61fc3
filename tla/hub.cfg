\* One probe, two reports, one archive kept, a backup every other tick, two
\* fetches of packages and one version kept.
CONSTANTS
  Probe = {p1}
  Report = {r1, r2}
  Wanted = {{"down", "up"}, {"down", "up", "link down", "link up"}}
  MaxTime = 3
  Mixes <- MCMixes
  ReportDays = {1}
  Keep = 1
  Interval = 2
  Fetch = {f1, f2}
  MaxVersion = 3
  KeepVersions = 1
  None = None
SPECIFICATION Spec
INVARIANTS
  NewsIsNew
  ReadyHasFile
  OneArchiveRemains
  SecretsCanBeOpened
  OfferedIsWhole
PROPERTY
  RequestsEnd
CHECK_DEADLOCK FALSE
