SPECIFICATION QueueSpec
CONSTANTS
  MaxMem = 4
  MaxFile = 6
  Prefix = 1
  EntrySize = 1
  AddLens = {1, 2}
  MaxAdded = 6
INVARIANTS
  SequentialOrder
  CountersMatchFile
  EntriesCounted
PROPERTY
  ImplementsQueue
