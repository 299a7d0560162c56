\* Two clients, so that each can be in the other's way; two lines each, the bearer
\* and one more, in up to two pieces.
CONSTANTS
  c1 = c1
  c2 = c2
  Conn = {c1, c2}
  Says <- MCSays
  NoConn = NoConn
  MAX_LINE = 2
  SocketBuffer = 1
  MaxLines = 2
SPECIFICATION FairSpec
INVARIANT
  ServedAsAsked
PROPERTIES
  IdleIsKept
  HandshakeEnds
  ServedDespiteOthers
\* When every client has gone, the server waits in accept.
CHECK_DEADLOCK FALSE
