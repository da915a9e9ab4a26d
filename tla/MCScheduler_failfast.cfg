SPECIFICATION FairSpec
CONSTANTS
  base_ = base_  lib = lib  test = test  lint = lint  docs = docs
  Steps = {base_, lib, test, lint}
  BuildsIn <- ChainBuildsIn
  DependsOn <- ChainDependsOn
  Parallelism = 2
  KeepGoing = FALSE
  HasDeadline = TRUE
  Timed = {lint}
  Cached = {base_}
  Unresolved = {}
  NoImage = NoImage
INVARIANTS
  LineageAlive
  PassedMeansAllPassed
  VerdictExplained
  StreamsClosed
  LeaksAccounted
PROPERTIES
  BuildTerminates
