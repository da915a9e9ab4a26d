SPECIFICATION FairSpec
CONSTANTS
  build_ = build_  test = test
  Jobs = {build_, test}
  Listing <- TestTwice
  Lines = 1
  Capacity = 1
  NoJob = NoJob
CHECK_DEADLOCK FALSE
INVARIANTS
  FeedIsComplete
  VerdictIsServers
PROPERTIES
  FeedsRenderer
  RunEnds
