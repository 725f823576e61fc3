\* Two networks and two addresses for five heartbeats; three stretches of measures, at one and at six seconds.
CONSTANTS
  Lan = {l1, l2}
  Address = {a, b}
  Ttl = 3
  Floor = 2
  MaxIntervals = 2
  Setting <- MCSetting
  MaxClock = 4
  MaxMoves = 2
  MaxFaults = 1
  Nobody = nobody
  Rounds = {1, 5, 12}
  Cadence = {1, 6}
  Sleeps = {14, 30}
  MaxStretches = 3
  Nothing = Nothing
SPECIFICATION FiguresSpec
SYMMETRY Symmetry
INVARIANTS
  AttributedWhereItWas
  BelievedIsFresh
  CardSaysLess
CHECK_DEADLOCK FALSE
