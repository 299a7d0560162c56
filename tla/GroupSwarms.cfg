CONSTANTS
  n1 = n1
  n2 = n2
  g1 = g1
  g2 = g2
  Node = {n1, n2}
  Group = {g1, g2}
  NoPeer = NoPeer
  NoGroup = NoGroup
  Swarm = {s1, s2, s3}
  NoSwarm = NoSwarm
  NodeConfigs <- MCNodeConfigs
  Hash <- MCHash
  GROUP_PORT_SPAN = 4
  MaxPort = 3
  MAX_BOOTSTRAP = 3
  MAX_REDIAL_PER_TICK = 2
  Ephemeral = {1}
  MaxSeeds = 1
SPECIFICATION FairSpec
INVARIANTS
  ConnectionsStayInGroup
  PortsAsConfigured
PROPERTY
  SeedLeads
