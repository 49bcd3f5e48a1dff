-------------------------- MODULE MCDiscoveryRouter --------------------------
(***************************************************************************)
(* The greedy walk of DiscoveryRouter checked on every Connected graph    *)
(* over a few peers, against a declarative definition of where a greedy   *)
(* descent towards the target ends.  The graph is the only state; it is   *)
(* chosen in Init and never changes.  Connected records need not be       *)
(* symmetric (a peer's eviction deletes only its own record), so every    *)
(* irreflexive relation is a graph the simulator can hold.                *)
(***************************************************************************)
EXTENDS DiscoveryRouter
LOCAL INSTANCE Graphs

MCPeers == {0, 3, 5, 6}

VARIABLE conn   \* conn[q]: the peers q holds as Connected

Init == conn \in {g \in [MCPeers -> SUBSET MCPeers] : \A q \in MCPeers : q \notin g[q]}

Next == UNCHANGED conn

Spec == Init /\ [][Next]_conn

\* The descent graph for target t: an edge from x to y when y is a
\* Connected peer of x that is strictly closer to t than x and no further
\* from t than any other Connected peer of x.
Descent(t) ==
    [node |-> MCPeers,
     edge |-> {<<x, y>> \in MCPeers \X MCPeers :
                 /\ y \in conn[x]
                 /\ XorDistance(y, t) < XorDistance(x, t)
                 /\ \A z \in conn[x] : XorDistance(y, t) <= XorDistance(z, t)}]

\* The peers reachable from s along descent edges at which no descent
\* edge leaves: the local minima a greedy descent from s can end at.
DescentEnds(s, t) ==
    LET G == Descent(t)
        R == ConnectionsIn(G)
    IN  {w \in MCPeers : R[s, w] /\ \A y \in MCPeers : <<w, y>> \notin G.edge}

(* _recursive_search_with_hop_limit from any start peer, for any target,  *)
(* returns the one peer where the descent from that start ends: it never *)
(* stops early at a peer that still has a strictly closer Connected peer, *)
(* never steps to a Connected peer that is not the closest to the target, *)
(* and with max_hops = 10 the hop limit never cuts a descent short.       *)
RouterMatchesReference ==
    \A s \in MCPeers, t \in IdSpace :
        DescentEnds(s, t) = {Walk(conn, s, t, MaxHops)}

=============================================================================
