SPECIFICATION FairSpec
CONSTANT MaxImages = 2
INVARIANT QuietAfterStop
PROPERTIES WorkGetsDone ReleaseReturns
CHECK_DEADLOCK FALSE
