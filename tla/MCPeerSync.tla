----------------------------- MODULE MCPeerSync ------------------------------
(* Two servers that both have sync enabled, a song, and no failure. *)
EXTENDS PeerSync

MCConfigured == {{Here, Peer}}
=============================================================================
