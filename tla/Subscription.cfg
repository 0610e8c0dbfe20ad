CONSTANTS
  c1 = c1
  Subscribers = {c1}
  Visible = {0, 1, 3}
  kPageLimit = 2
  MaxScan = 2
  MaxCommits = 3
SPECIFICATION Spec
INVARIANT DeliversInOrder
INVARIANT SeesPriorCommits
PROPERTY NothingAfterRevocation
CHECK_DEADLOCK FALSE
