\* Two expected clients, room for both, at most two messages each (Type 0
\* or Type 1), of which at most one is a Type 1 message.
CONSTANTS
  p1 = p1
  p2 = p2
  Peers <- MCPeers
  Expected = 2
  MaxClients = 2
  MaxSends = 2
  EndsPerPeer = 1
  MsgTypes = {"reg", "end"}
SPECIFICATION Spec
\* The server ends by exit() in cleanup_and_exit, after which nothing moves;
\* whether it gets there is the question of the ShutdownCompletes run.
CHECK_DEADLOCK FALSE
INVARIANTS
  ClientListMatchesThreads
  BroadcastOrder
PROPERTIES
  AllFinishedLeadsToCommit
