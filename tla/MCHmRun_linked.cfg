SPECIFICATION Spec
CONSTANTS
  r1 = r1  r2 = r2  web = web  docs = docs
  Runs = {r1, r2}
  Pipes = {web, docs}
  Setups <- MCSetups
  MaxBuilds = 2
  NoPipe = NoPipe  NoDomain = NoDomain  Discovery = Discovery
INVARIANTS
  LinkedProjectRuns
