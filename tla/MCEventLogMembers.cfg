CONSTANTS
  w1 = w1
  w2 = w2
  p1 = p1
  p2 = p2
  p3 = p3
  t1 = t1
  Workers = {w1, w2}
  Principals = {p1, p2, p3}
  Tokens = {t1}
  kMaxChannelMembers = 2
  Ops = {"PublishAutoSeq", "CreateChannel", "AddMember", "RemoveMember"}
  RecipientChoices = {{p2}}
  VisibilityChoices = {"private", "public"}
  kMaxUuidBatch = 1
  StockedUuids = 1
  MaxSeq = 4
  MaxUuid = 5
  MaxChannel = 1
SPECIFICATION StockedSpec
SYMMETRY WorkerSymmetry
INVARIANT CoordinatorInv
INVARIANT MembershipReplays
INVARIANT AuthorsWereAdmitted
INVARIANT NothingReadsAsCorrupt
INVARIANT MembersWithinLimit
PROPERTY CommittedIsImmutable
PROPERTY ImplementsPublicationLog
