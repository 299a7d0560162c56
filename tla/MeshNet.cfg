CONSTANTS
  a = a
  b = b
  d = d
  c1 = c1
  c2 = c2
  Node = {a, b, d}
  Cid = {c1, c2}
  Authors <- MCAuthors
  Links <- MCLinks
  First <- MCFirst
  Rosters <- MCRosters
  MAX_INBOX = 2
  MAX_SHARED_FILES = 2
SPECIFICATION FairSpec
INVARIANTS
  NothingReachesTheBarred
  CoPinsAreFromTrusted
PROPERTY
  SharedIsListed
