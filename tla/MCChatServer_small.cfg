\* Room for one client while two connect, one of them expected; the peers
\* may also send messages the server discards.  The server ends by exit(),
\* after which nothing moves.
CONSTANTS
  p1 = p1
  p2 = p2
  Peers <- MCPeers
  Expected = 1
  MaxClients = 1
  MaxSends = 2
  EndsPerPeer = 1
  MsgTypes = {"reg", "end", "bad"}
SPECIFICATION Spec
CHECK_DEADLOCK FALSE
INVARIANTS
  TypeOK
PROPERTY
  AllFinishedLeadsToCommit
