CONSTANTS
  w1 = w1
  w2 = w2
  c1 = c1
  c2 = c2
  Workers = {w1, w2}
  Creds = {c1, c2}
  MaxObject = 2
  MaxMessages = 1
SPECIFICATION ComposedSpec
SYMMETRY Symmetry
INVARIANT CommittedIsReadable
INVARIANT NoOrphanFile
INVARIANT NoFalseCorruption
INVARIANT ObjectIdsAreUnique
PROPERTY NoCommitAfterRevocation
PROPERTY StartsClean
INVARIANT NamedObjectsAreDurable
