SPECIFICATION Spec
CONSTANTS
  MAX_BUF = 4
  MaxSize = 9
  MaxGrowth = 2
  MaxTime = 3
  MaxLines = 3
  MaxFiles = 2
  LogNodes = {n1, n2}
  MaxStamp = 2
  MaxLog = 2
  MaxLimit = 2
  MaxKills = 1
  MaxEntries = 3
  MaxDate = 3
  MaxKilled = 1
  MaxRuns = 2
  Named = {x, y}
  MaxRenames = 2
  MaxStops = 1
  SplitPollers = 2
  MaxSplitStops = 1
SYMMETRY Symmetry
INVARIANTS
  LinesOnce
  ShownExact
  MergedExact
  ImportComplete
  NamesCurrent
  SelfContained
CHECK_DEADLOCK FALSE
