CONSTANTS
  c1 = c1
  Subscribers = {c1}
  Visible = {0, 1}
  kPageLimit = 1
  MaxScan = 3
  MaxCommits = 2
SPECIFICATION Spec
INVARIANT StartupCoversPriorCommits
CHECK_DEADLOCK FALSE
