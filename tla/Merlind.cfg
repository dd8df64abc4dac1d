SPECIFICATION Spec
CONSTANTS
  MaxEvents = 2
  Perf = {2}
  Settings = {{}, {"interval"}, {"queries"}, {"interval", "pgsql"}}
  CommitQueries = 2
  SockCap = 2
  MaxPulses = 1
  MaxFaults = 1
INVARIANTS
  RowsInOrder
  EventsAccounted
  CommitsInTime
PROPERTIES
  EventuallyStored
