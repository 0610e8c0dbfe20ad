CONSTANTS
  w1 = w1
  w2 = w2
  p1 = p1
  t1 = t1
  Workers = {w1, w2}
  Principals = {p1}
  Tokens = {t1}
  kMaxChannelMembers = 2
  Ops = {"AllocateUuids", "GetSeqByUuid", "Publish", "PublishAutoSeq", "CreateChannel", "AddToken"}
  RecipientChoices = {{}}
  VisibilityChoices = {"public"}
  kMaxUuidBatch = 2
  StockedUuids = 0
  MaxSeq = 3
  MaxUuid = 3
  MaxChannel = 1
SPECIFICATION Spec
SYMMETRY WorkerSymmetry
INVARIANT TypeOK
INVARIANT LogIsDense
INVARIANT UuidNamesOneMessage
INVARIANT AckedIsPermanent
INVARIANT UuidsHaveOneOwner
INVARIANT StatusTellsOutcome
