CONSTANTS
  w1 = w1
  c1 = c1
  Workers = {w1}
  Creds = {c1}
  MaxObject = 2
SPECIFICATION FairSpec
PROPERTY EventuallyServes
