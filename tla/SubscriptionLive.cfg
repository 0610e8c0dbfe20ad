CONSTANTS
  c1 = c1
  Subscribers = {c1}
  Visible = {0, 2}
  kPageLimit = 1
  MaxScan = 1
  MaxCommits = 2
SPECIFICATION FairSpec
PROPERTY StreamsEnd
PROPERTY MessagesArrive
CHECK_DEADLOCK FALSE
