SPECIFICATION FairSpec
INVARIANT QuietBeforeDestruction
PROPERTY ProcessExits
CHECK_DEADLOCK FALSE
