SPECIFICATION ToolsSpec
CONSTANTS
  source = source  lockfile = lockfile  v1 = v1  v2 = v2
  base = base  dep = dep  test = test  pack = pack  lint = lint
  Files = {source, lockfile}
  Watched <- MCWatched
  Versions = {v1, v2}
  Steps = {base, dep, test, pack, lint}
  ParentOf <- MCParentOf
  NoStep = NoStep
  Policy <- MCPolicy
  MaxEdits = 1
  MaxBuilds = 2
  MaxFaults = 1
  Skills <- MCSkills
  Ours <- MCOurs
  Theirs = {"dist/"}
  MaxRuns = 2
  MaxTouches = 2
  Alphabet = {"a", "wide", "nl", "cr", "csi"}
  MaxChars = 4
  Graphemes <- MCGraphemes
  Budgets <- MCBudgets
  NameColumns = 3
  Ticks = {1, 999, 59000, 3599999, 82800000}
  MaxInput = 4
  Size = 4
  MaxEdges = 4
  Backends = {"none", "docker", "cloud", "other"}
  Formats = {"human", "json", "other"}
  Branches = {"main", "topic"}
  Urls <- MCUrls
  PathNames = {"home", "group", "owner", "repo"}
  MaxCommit = 3
  MaxMoves = 2
CHECK_DEADLOCK FALSE
INVARIANTS
  BoxIsProject
  ImagesAreOwn
  OutputComesThrough
  LayoutIsRight
  ChainsAreRight
  FrontIsSound
  MetaIsOfCheckout
PROPERTIES
  ScaffoldKeeps
