CONSTANTS
  m = m
  d = d
  Address = {m, d}
  Garbage = Garbage
  NoAddress = NoAddress
  Rosters <- MCRosters
  LinkPool <- MCLinkPool
  RevocationPool <- MCRevocationPool
  MAX_LINKS_PER_UPDATE = 2
  NoUpdate = NoUpdate
  MaxInFlight = 2
SPECIFICATION FairSpec
INVARIANTS
  RevocationSurvivesRestart
  HistoryLeavesNoTrace
PROPERTY
  RevocationTakesEffect
