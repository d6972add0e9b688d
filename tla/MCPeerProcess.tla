--------------------------- MODULE MCPeerProcess ----------------------------
(* One process in either mode, against every broker and remote peer that   *)
(* the bounds allow.                                                       *)
EXTENDS PeerProcess

=============================================================================
