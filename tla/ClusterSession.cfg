CONSTANTS
  a = a
  b = b
  c = c
  d = d
  e = e
  Address = {a, b, c, d, e}
  Garbage = Garbage
  NoAddress = NoAddress
  SessionRosters <- MCRosters
  Candidates <- MCCandidates
SPECIFICATION SessionSpec
INVARIANT
  WireTracksRoster
PROPERTY
  ImplementsAdmission
