SPECIFICATION Spec
CONSTANTS
  owner = owner
  other = other
  token = token
  Principals = {owner, other}
  Tokens = {token}
  kMaxChannelMembers = 4
  Limit = 2
  SoftLimit = 3
  MaxScan = 3
  MaxSeq = 4
  Writes = {"publish", "members", "token"}
  Damages = {"message", "fields", "channel"}
  StartDb <- MCStartDb
  Requests <- MCRequests
INVARIANTS PagesKeepBudget NoFalseAlarm ListingsAgree PagingAdvances
PROPERTIES PagesAreExact NoDamageIsHidden
CHECK_DEADLOCK FALSE
