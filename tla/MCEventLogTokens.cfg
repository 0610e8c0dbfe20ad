CONSTANTS
  w1 = w1
  w2 = w2
  p1 = p1
  t1 = t1
  t2 = t2
  Workers = {w1, w2}
  Principals = {p1}
  Tokens = {t1, t2}
  kMaxChannelMembers = 2
  Ops = {"AllocateUuids", "PublishAutoSeq", "CreateChannel", "AddToken", "DeleteToken"}
  RecipientChoices = {{}}
  VisibilityChoices = {"private"}
  kMaxUuidBatch = 1
  StockedUuids = 0
  MaxSeq = 2
  MaxUuid = 2
  MaxChannel = 1
SPECIFICATION Spec
SYMMETRY WorkerSymmetry
INVARIANT RevokedIsShutOut
PROPERTY ImplementsPublicationLog
