----------------------------- MODULE MCPeerHub ------------------------------
(* PeerHub with one instance and two clients.                              *)
EXTENDS PeerHub
=============================================================================
