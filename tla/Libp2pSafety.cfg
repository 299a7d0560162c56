\* Two peers, two connections each (the code's limit), one co-pin in flight.
CONSTANTS
  Peer = {p1, p2}
  NoPeer = NoPeer
  Cid = {c1}
  MAX_ESTABLISHED_PER_PEER = 2
  MAX_INBOX = 1
  MaxCmds = 2
SPECIFICATION Spec
SYMMETRY PeerSymmetry
INVARIANTS
  EvictionInFlight
  GatedUntilIdentified
  OnlineIsReal
  AuthorizedIsAllowed
  NoPublishToEvicted
  AtMostOneLateMessage
PROPERTY
  ImplementsAdmission
