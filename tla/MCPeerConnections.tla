------------------------- MODULE MCPeerConnections -------------------------
(***************************************************************************)
(* Peer 0 in a 4-bit id space with nine other peers, spread so that its   *)
(* four non-empty distance buckets hold 1, 2, 2 and 4 peers.              *)
(***************************************************************************)
EXTENDS PeerConnections

MCAllPeers == {0, 1, 2, 3, 4, 6, 8, 11, 13, 15}

\* Self joins with no Connected peer, or is established and starts
\* Connected to every other peer.
MCInitialConnected == {{}, MCAllPeers \ {0}}

=============================================================================
