\* One peer is enough: no handler makes one peer wait for another.
CONSTANTS
  Peer = {p1}
  NoPeer = NoPeer
  Cid = {c1}
  MAX_ESTABLISHED_PER_PEER = 2
  MAX_INBOX = 1
  MaxCmds = 2
SPECIFICATION FairSpec
PROPERTIES
  EvictionCompletes
  UnidentifiedIsReaped
