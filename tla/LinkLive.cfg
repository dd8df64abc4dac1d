SPECIFICATION FairSpec
CONSTANTS
  Connectors = {1}
  UuidChoices = {{}, {2}}
  SlowChoices = {{}, {1}, {2}, {1, 2}}
  MaxConns = 3
  MaxFaults = 2
  Timely = TRUE
PROPERTIES
  EventuallyLinked
  DeadNodeNoticed
