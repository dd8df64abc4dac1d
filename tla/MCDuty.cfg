SPECIFICATION Spec
CONSTANTS
  m1 = m1  m2 = m2  p1 = p1  p2 = p2
  Masters = {m1, m2}
  Pollers = {p1, p2}
  NumHosts = 4
  Hostgroups <- MCHostgroups
  Confs <- MCConfs
  FirstStart <- MCFirstStart
  Times = {1, 2, 3}
  MaxDeaths = 2
  MaxStarts = 1
  Daemon = TRUE
INVARIANTS
  OneNodeActs
  OwnerIsRunner
  NobodyLeftOut
CHECK_DEADLOCK FALSE
