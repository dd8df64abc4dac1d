SPECIFICATION Spec
CONSTANTS
  MaxMem = 6
  MaxFile = 7
  Prefix = 1
  EntrySize = 1
  Lens = {1, 2}
  MaxEvents = 6
  Writes = {"ok", "prefix_fails", "data_fails"}
INVARIANTS
  UnreadLosesNothing
