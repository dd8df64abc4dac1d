SPECIFICATION Spec
CONSTANTS
  Connectors = {1, 2}
  UuidChoices = {{}, {1, 2}}
  SlowChoices = {{}}
  MaxConns = 3
  MaxFaults = 1
  Timely = FALSE
INVARIANTS
  StateHasSocket
  BothUseOneSocket
