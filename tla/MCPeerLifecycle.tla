--------------------------- MODULE MCPeerLifecycle ---------------------------
(***************************************************************************)
(* Model-checking instance of PeerLifecycle: a 3-bit address space, three *)
(* established peers (one of them with id 0), one joining peer that is    *)
(* told of one established peer, and a degree bound of 2 so that the      *)
(* joining peer pushes established peers over the bound.                  *)
(***************************************************************************)
EXTENDS PeerLifecycle

MCEstablished == {0, 3, 5}
MCJoining     == {6}
MCOrder       == <<5, 0, 3, 6>>

\* A 2-bit instance for the liveness runs: two established peers (one of
\* them 0), one joining peer, four targets, and a degree bound of 1 so
\* that the joining peer pushes an established peer over it.
MCEstablishedSmall == {0, 1}
MCJoiningSmall     == {2}
MCOrderSmall       == <<1, 0, 2>>

=============================================================================
