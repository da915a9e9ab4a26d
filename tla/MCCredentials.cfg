SPECIFICATION FairSpec
CONSTANTS
  p1 = p1  p2 = p2
  Procs = {p1, p2}
  Old = Old  TokenFile = TokenFile
INVARIANTS
  StoreIsSound
  NoTokenMissed
PROPERTIES
  BrowserLoginEnds
