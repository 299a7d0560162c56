\* One group more than the daemon serves, one CID more than a set holds.
CONSTANTS
  m = m
  d = d
  g1 = g1
  g2 = g2
  g3 = g3
  Address = {m, d}
  Garbage = Garbage
  NoAddress = NoAddress
  Group = {g1, g2, g3, Blank}
  Blank = Blank
  NoGroup = NoGroup
  Cid = {c1, c2}
  Malformed = Malformed
  Rosters <- MCRosters
  LinkPool <- MCLinkPool
  RevocationPool <- MCRevocationPool
  MAX_LINKS_PER_UPDATE = 1
  MAX_GROUPS = 2
  MAX_SHARED_FILES = 1
SPECIFICATION Spec
SYMMETRY Symmetry
INVARIANTS
  SessionFollowsRegistry
  WithinLimits
PROPERTIES
  RefusedRecordsNothing
  RevocationOutlivesLeave
