SPECIFICATION Spec
CONSTANTS
  MaxMem = 6
  MaxFile = 12
  Prefix = 1
  EntrySize = 1
  Lens = {2}
  MaxEvents = 5
  Writes = {"ok", "data_fails"}
  MaxRestarts = 3
  MaxKills = 2
INVARIANTS
  NothingLostByRestart
  SentInOrderAcrossRestarts
