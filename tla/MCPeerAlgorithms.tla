--------------------- MODULE MCPeerAlgorithms ------------------------
(***************************************************************************)
(* The per-peer algorithms of the XOR simulators checked in one run.     *)
(* Init picks one of them:                                                *)
(*   - an eviction policy ("static", "prefix" or "gradient"): the         *)
(*     Connected set of peer 0 then evolves as PeerConnections with that  *)
(*     policy allows.  Peer 0 lives in a 4-bit id space with nine other   *)
(*     peers, spread so that its four non-empty XOR buckets hold 1, 2, 2  *)
(*     and 4 peers and its ring classes 1 to 4 hold 2, 3, 3 and 1 peers;  *)
(*   - "router": a Connected graph over 4 peers of a 3-bit id space,      *)
(*     which never changes, on which the mapping request's walk is        *)
(*     checked for every start and target (MCDiscoveryRouter).            *)
(***************************************************************************)
EXTENDS Naturals

CONSTANTS Bits, MaxConnections, MaxHops, None

VARIABLES
    conn,      \* the peers peer 0 holds as Connected
    enforced,  \* TRUE right after its remove_excess_connections
    graph,     \* graph[q]: the Connected peers of q, for the router
    policy     \* "static", "prefix", "gradient" or "router"

vars == <<conn, enforced, graph, policy>>

Algorithms == {"static", "prefix", "gradient", "router"}

MCAllPeers == {0, 1, 2, 3, 4, 6, 8, 11, 13, 15}

\* Peer 0 joins with no Connected peer, or is established and starts
\* Connected to every other peer.
MCInitialConnected == {{}, MCAllPeers \ {0}}

Static == INSTANCE PeerConnections
    WITH Self <- 0, AllPeers <- MCAllPeers, InitialConnected <- MCInitialConnected,
         Policy <- "static"
Prefix == INSTANCE PeerConnections
    WITH Self <- 0, AllPeers <- MCAllPeers, InitialConnected <- MCInitialConnected,
         Policy <- "prefix"
Gradient == INSTANCE PeerConnections
    WITH Self <- 0, AllPeers <- MCAllPeers, InitialConnected <- MCInitialConnected,
         Policy <- "gradient"

Router == INSTANCE MCDiscoveryRouter WITH Bits <- 3, conn <- graph

\* The formula of the algorithm that runs.
ByPolicy(s, p, g, r) ==
    CASE policy = "static" -> s [] policy = "prefix" -> p [] policy = "gradient" -> g
      [] policy = "router" -> r

\* The state the algorithms that do not run keep.
NoGraph == [q \in Router!MCPeers |-> {}]

Init ==
    /\ policy \in Algorithms
    /\ ByPolicy(Static!Init /\ graph = NoGraph,
                Prefix!Init /\ graph = NoGraph,
                Gradient!Init /\ graph = NoGraph,
                Router!Init /\ conn = {} /\ enforced = FALSE)

Next ==
    /\ ByPolicy(Static!Next /\ UNCHANGED graph,
                Prefix!Next /\ UNCHANGED graph,
                Gradient!Next /\ UNCHANGED graph,
                Router!Next /\ UNCHANGED <<conn, enforced>>)
    /\ UNCHANGED policy

Spec == Init /\ [][Next]_vars

TypeOK == Static!TypeOK /\ policy \in Algorithms

(* After peer 0's remove_excess_connections its Connected count is within *)
(* the soft maximum of the bucketed policies (static and prefix), whose   *)
(* eviction only starts above it.                                         *)
BoundAfterEnforce == ByPolicy(Static!BoundAfterEnforce, Prefix!BoundAfterEnforce, TRUE, TRUE)

(* remove_excess_connections never evicts below max_connections under the *)
(* static policy (which cuts its list to the excess, "Ensure we don't     *)
(* remove too many") and the gradient policy (which caps each class's    *)
(* removal by the excess left).                                           *)
NoOverEviction == ByPolicy(Static!NoOverEviction, TRUE, Gradient!NoOverEviction, TRUE)

(* Within a bucket the bucketed policies keep the closest peers whenever  *)
(* the bucket targets alone bring the set within max_connections.         *)
ClosestKeptInBucket == ByPolicy(Static!ClosestKeptInBucket, Prefix!ClosestKeptInBucket, TRUE, TRUE)

(* Gradient eviction proceeds furthest class first: no nearer peer is     *)
(* evicted while a further class is left over its budget.                 *)
FurthestClassesFirst == ByPolicy(TRUE, TRUE, Gradient!FurthestClassesFirst, TRUE)

(* The walk of _recursive_search_with_hop_limit ends where greedy descent *)
(* towards the target ends, from every start and on every Connected      *)
(* graph, asymmetric ones included (MCDiscoveryRouter!                   *)
(* RouterMatchesReference).                                               *)
RouterMatchesReference == ByPolicy(TRUE, TRUE, TRUE, Router!RouterMatchesReference)

=============================================================================
