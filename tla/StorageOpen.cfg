SPECIFICATION FairSpec
CONSTANTS
  Depth = 3
  MaxRows = 3
INVARIANT ServesOnlyComplete
PROPERTIES InitializesFreshStorage InitializedStorageServes CommitsSurvive
