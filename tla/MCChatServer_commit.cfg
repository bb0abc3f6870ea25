\* The bounds of MCChatServer.cfg; is the Phase 2 commit delivered?
CONSTANTS
  p1 = p1
  p2 = p2
  Peers <- MCPeers
  Expected = 2
  MaxClients = 2
  MaxSends = 2
  EndsPerPeer = 1
  MsgTypes = {"reg", "end"}
SPECIFICATION Spec
CHECK_DEADLOCK FALSE
INVARIANT
  CommitDelivered
