\* More addresses than a list holds or a tick dials.
CONSTANTS
  a1 = a1
  b1 = b1
  a2 = a2
  bare = bare
  self = self
  Peer = {1, 2}
  Local = Local
  NoPeer = NoPeer
  Addr = {a1, b1, a2, bare, self}
  PeerOf <- MCPeerOf
  Listener <- MCListener
  StartLists <- MCStartLists
  Seeds <- MCSeeds
  Found <- MCFound
  MAX_BOOTSTRAP = 2
  MAX_REDIAL_PER_TICK = 1
  MAX_DISCOVERED_PEERS = 1
  MAX_DISCOVERED_ADDRS = 1
  MAX_SEED_ADDRS = 2
  MaxCmds = 1
SPECIFICATION Spec
PROPERTIES
  ListsBounded
  BootstrapPeerLetIn
  DiscoveredPeerLetIn
