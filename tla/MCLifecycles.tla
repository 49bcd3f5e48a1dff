---------------------------- MODULE MCLifecycles ----------------------------
(***************************************************************************)
(* The fixed simulator (NetworkSimulator), the realistic one             *)
(* (RealisticNetworkSimulator) and the gradient one                       *)
(* (GradientNetworkSimulator) on one instance, checked in one run: Init   *)
(* picks the simulator, whose rounds then run.  The instance is that of   *)
(* MCPeerLifecycle with a joining peer told of two established peers;    *)
(* on the 3-bit ring peer 6 then knows its nearest peer 5 and one of 0   *)
(* and 3, so both parts of the gradient initial sample occur.            *)
(* With max_connections 2 the realistic network starts with no Connected *)
(* record (min(2 - 2, 3) = 0 initial picks), so its connections are all  *)
(* made by the protocol under loss.                                       *)
(***************************************************************************)
EXTENDS MCPeerLifecycle, LossyLifecycle

VARIABLE sim   \* "fixed", "realistic" or "gradient"

svars == <<rel, inbox, outbox, phase, cursor, maint, requested, sim>>

Simulators == {"fixed", "realistic", "gradient"}

\* GradientNetworkSimulator on the same peers and constants; it keeps no
\* maint and no requested.
Gradient == INSTANCE GradientLifecycle

\* The formula of the simulator that runs.
BySim(f, r, g) == CASE sim = "fixed" -> f [] sim = "realistic" -> r [] sim = "gradient" -> g

SimInit ==
    /\ sim \in Simulators
    /\ BySim(Init /\ requested = {},
             LossyInit,
             Gradient!Init /\ maint = {} /\ requested = {})

SimNext ==
    /\ BySim(Next /\ UNCHANGED requested,
             LossyNext,
             Gradient!Next /\ UNCHANGED <<maint, requested>>)
    /\ UNCHANGED sim

SimSpec == SimInit /\ [][SimNext]_svars

SimTypeOK == LossyTypeOK /\ sim \in Simulators

(* The degree bound of PeerLifecycle!DegreeBound for the fixed simulator, *)
(* whose established peers start at the bound: once a peer's own          *)
(* remove_excess_connections has run, it holds at most max_connections    *)
(* Connected peers until the next round.                                  *)
FixedDegreeBound == sim = "fixed" => DegreeBound

\* One peer's Connected set as the abstract per-peer specification with
\* uniform eviction.  The peer has been trimmed this round once the
\* phase-3 loop has passed it.  ConnectionsOfK is the K-th peer of the
\* order; the last peer is left out, because its phase-3 step ends the
\* round and the state it reaches cannot be told from the initial one.
ConnEnforced(P) == phase = "consume" /\ Pos(P) < cursor
ConnInitial(P)  ==
    IF P \in Established
    THEN {Established \ {P}} \cup {c[P] : c \in InitialConnections}
    ELSE {{}}

ConnectionsOf1 == INSTANCE PeerConnections
    WITH Self <- MCOrder[1], AllPeers <- Peers, Policy <- "uniform",
         InitialConnected <- ConnInitial(MCOrder[1]),
         conn <- ConnectedPeers(MCOrder[1]), enforced <- ConnEnforced(MCOrder[1])

ConnectionsOf2 == INSTANCE PeerConnections
    WITH Self <- MCOrder[2], AllPeers <- Peers, Policy <- "uniform",
         InitialConnected <- ConnInitial(MCOrder[2]),
         conn <- ConnectedPeers(MCOrder[2]), enforced <- ConnEnforced(MCOrder[2])

ConnectionsOf3 == INSTANCE PeerConnections
    WITH Self <- MCOrder[3], AllPeers <- Peers, Policy <- "uniform",
         InitialConnected <- ConnInitial(MCOrder[3]),
         conn <- ConnectedPeers(MCOrder[3]), enforced <- ConnEnforced(MCOrder[3])

\* The same peers under the gradient simulator, with gradient eviction.
GradientConnectionsOf1 == INSTANCE PeerConnections
    WITH Self <- MCOrder[1], AllPeers <- Peers, Policy <- "gradient",
         InitialConnected <- ConnInitial(MCOrder[1]),
         conn <- ConnectedPeers(MCOrder[1]), enforced <- ConnEnforced(MCOrder[1])

GradientConnectionsOf2 == INSTANCE PeerConnections
    WITH Self <- MCOrder[2], AllPeers <- Peers, Policy <- "gradient",
         InitialConnected <- ConnInitial(MCOrder[2]),
         conn <- ConnectedPeers(MCOrder[2]), enforced <- ConnEnforced(MCOrder[2])

GradientConnectionsOf3 == INSTANCE PeerConnections
    WITH Self <- MCOrder[3], AllPeers <- Peers, Policy <- "gradient",
         InitialConnected <- ConnInitial(MCOrder[3]),
         conn <- ConnectedPeers(MCOrder[3]), enforced <- ConnEnforced(MCOrder[3])

\* PeerConnections!Spec of the three peers, for the policy of the
\* simulator that runs, written out as one initial condition and one step
\* so that the choice of policy can follow sim.
ConnectionsInit ==
    IF sim = "gradient"
    THEN GradientConnectionsOf1!Init /\ GradientConnectionsOf2!Init /\ GradientConnectionsOf3!Init
    ELSE ConnectionsOf1!Init /\ ConnectionsOf2!Init /\ ConnectionsOf3!Init

ConnectionsStep ==
    IF sim = "gradient"
    THEN /\ [GradientConnectionsOf1!Next]_(GradientConnectionsOf1!vars)
         /\ [GradientConnectionsOf2!Next]_(GradientConnectionsOf2!vars)
         /\ [GradientConnectionsOf3!Next]_(GradientConnectionsOf3!vars)
    ELSE /\ [ConnectionsOf1!Next]_(ConnectionsOf1!vars)
         /\ [ConnectionsOf2!Next]_(ConnectionsOf2!vars)
         /\ [ConnectionsOf3!Next]_(ConnectionsOf3!vars)

(* In every simulator each peer's Connected set changes only as           *)
(* PeerConnections allows, with uniform eviction in the fixed and the     *)
(* realistic simulator and class-budget eviction in the gradient one: it  *)
(* grows in the peer's own discovery step, is never touched by the steps  *)
(* of other peers, lost invites included, and shrinks only in the peer's  *)
(* own phase-3 step, where process_invites and then                       *)
(* remove_excess_connections act on it.                                   *)
ConnectionsRefined == ConnectionsInit /\ [][ConnectionsStep]_svars

=============================================================================
