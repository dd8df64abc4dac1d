SPECIFICATION Spec
CONSTANTS
  Objects = {h1}
  Runners = {ipc, peer}
  Here = ipc
  Untracked = untracked
  Interval = 1
  Windows = {0, 1}
  CheckTimeout = 1
  DataTimeout = 0
  MaxTime = 8
  MaxUnheard = 1
  Pollers = {p1, p2, p3}
  AutoDeletes = {1, 2}
  CheckInterval = 1
  MaxSilence = 1
  MaxClock = 4
  Clients = {c1, c2}
  MaxFile = 1
SYMMETRY Symmetry
INVARIANTS
  OrphansCounted
  OrphansReported
  DeletedInTime
  AnsweredOnce
PROPERTIES
  DeletedRightly
  NeverRolledBack
CHECK_DEADLOCK FALSE
