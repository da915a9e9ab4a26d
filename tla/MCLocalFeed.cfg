SPECIFICATION FairSpec
CONSTANTS
  lib = lib  test = test
  Steps = {lib, test}
  Cacheable = {test}
  Lines <- TestWrites
  Ring = 7
  Capacity = 1
  NoStep = NoStep
CHECK_DEADLOCK FALSE
INVARIANTS
  OnlyLagLoses
  SummaryIsTrue
PROPERTIES
  FeedIsFifo
  FeedEnds
