SPECIFICATION Spec
CONSTANTS
  Masters = {m1, m2}
  Poller = p
  MaxEdits = 2
  MaxFails = 1
INVARIANTS
  NewestKept
PROPERTIES
  PollerNotRolledBack
  EventuallySynced
CHECK_DEADLOCK FALSE
