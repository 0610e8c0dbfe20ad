SPECIFICATION Spec
INVARIANT FatalErrorIsReported
CHECK_DEADLOCK FALSE
