CONSTANTS
  m1 = m1
  m2 = m2
  d1 = d1
  d2 = d2
  w = w
  Address = {m1, m2, d1, d2, w}
  Garbage = Garbage
  NoAddress = NoAddress
  Rosters <- MCRosters
  LinkPool <- KeyLinkPool
  RevocationPool <- KeyRevocationPool
  MAX_LINKS_PER_UPDATE = 4
SPECIFICATION HistorySpec
INVARIANT
  RevokedKeyStaysOut
