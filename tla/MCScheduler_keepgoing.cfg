SPECIFICATION FinishSpec
CONSTANTS
  base_ = base_  lib = lib  test = test  lint = lint  docs = docs
  Steps = {base_, lib, test, lint, docs}
  BuildsIn <- ForkBuildsIn
  DependsOn <- ForkDependsOn
  Parallelism = 2
  KeepGoing = TRUE
  HasDeadline = FALSE
  Timed = {docs}
  Cached = {base_}
  Unresolved = {lint}
  NoImage = NoImage
INVARIANTS
  FailureSealsDescendants
  PermitsConserved
PROPERTIES
  ImplementsBuild
  AllStepsFinish
