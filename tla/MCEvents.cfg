SPECIFICATION Spec
CONSTANTS
  n1 = n1  n2 = n2  n3 = n3
  Nodes = {n1, n2, n3}
  Nets <- MCNets
  Items = {i}
  i = i
  MaxOps = 3
  MaxPassive = 1
  MaxAcks = 1
  MaxMoves = 1
  ExecTimes = {0, 2}
  NotifiesIn = {TRUE, FALSE}
INVARIANTS
  ResultsInOrder
  StatesAgree
  PassiveOnce
  ItemsAgree
CHECK_DEADLOCK FALSE
