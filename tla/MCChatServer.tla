---------------------------- MODULE MCChatServer ----------------------------
(* Model-checking instance of ChatServer: two remote clients, both of them   *)
(* expected (./servertest <port> 2).                                         *)
EXTENDS ChatServer

CONSTANTS p1, p2

MCPeers == {p1, p2}

=============================================================================
