SPECIFICATION Spec
CONSTANTS
  base_ = base_  lib = lib  test = test  lint = lint  docs = docs
  Steps = {base_, lib, test, lint}
  BuildsIn <- ChainBuildsIn
  DependsOn <- ChainDependsOn
  Parallelism = 2
  KeepGoing = FALSE
  HasDeadline = FALSE
  Timed = {}
  Cached = {}
  Unresolved = {}
  NoImage = NoImage
INVARIANTS
  CanceledMeansInterrupted
