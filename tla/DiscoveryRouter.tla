--------------------------- MODULE DiscoveryRouter ---------------------------
(***************************************************************************)
(* The mapping request of NetworkSimulator: starting points taken from    *)
(* the requester's known peers and a greedy, hop-limited walk over the    *)
(* Connected sets of the peers it visits.  The Connected sets are an      *)
(* argument, conn[q] being the Connected peers of q, so the operators can *)
(* be used by the simulator model and checked on their own.               *)
(***************************************************************************)
EXTENDS Naturals, FiniteSets, FiniteSetsExt, DistanceMetric

CONSTANTS
    MaxHops,  \* max_hops passed to _recursive_search_with_hop_limit
    None      \* a lookup without result

\* min(candidates, key=xor distance to target); XOR distances from one
\* target to distinct ids are distinct, so the minimum is unique.
ClosestTo(S, t) == CHOOSE c \in S : \A o \in S : XorDistance(c, t) <= XorDistance(o, t)

\* Mutation of Walk: the next hop is the Connected peer closest to the
\* current peer instead of the one closest to the target.
RECURSIVE WalkNearestNeighbour(_, _, _, _)
WalkNearestNeighbour(conn, s, t, hops) ==
    IF hops <= 0 \/ conn[s] = {} THEN s
    ELSE LET c == ClosestTo(conn[s], s)
         IN  IF XorDistance(s, t) <= XorDistance(c, t) THEN s
             ELSE WalkNearestNeighbour(conn, c, t, hops - 1)

\* NetworkSimulator._recursive_search_with_hop_limit
RECURSIVE Walk(_, _, _, _)
Walk(conn, s, t, hops) ==
    IF hops <= 0 \/ conn[s] = {} THEN s
    ELSE LET c == ClosestTo(conn[s], t)
         IN  IF XorDistance(s, t) <= XorDistance(c, t) THEN s
             ELSE Walk(conn, c, t, hops - 1)

\* Peer.find_closest_peer_to_target over the known peers, no state excluded
FindClosest(known, t) == IF known = {} THEN None ELSE ClosestTo(known, t)

\* Starting point 1: the closest known peer, if it is truthy.  Python reads
\* the id 0 as false, so a closest peer with id 0 is not a starting point.
ClosestStart(known, t) ==
    LET c == FindClosest(known, t) IN IF c = None \/ c = 0 THEN {} ELSE {c}

\* The known peers other than the closest one, from which 2 are sampled.
RandomPool(known, t) == {q \in known : q # FindClosest(known, t)}

\* random.sample(available_randoms, min(2, len(available_randoms)))
RandomStarts(known, t) ==
    LET pool == RandomPool(known, t)
    IN  kSubset(IF Cardinality(pool) < 2 THEN Cardinality(pool) ELSE 2, pool)

\* NetworkSimulator.simulate_mapping_request for target t and the sampled
\* random starting points R.  Walk results are kept only when truthy, so a
\* walk ending at id 0 is dropped.
Lookup(conn, known, t, R) ==
    LET starts    == ClosestStart(known, t) \cup R
        responses == {Walk(conn, s, t, MaxHops) : s \in starts} \ {0}
    IN  IF responses = {} THEN None ELSE ClosestTo(responses, t)

=============================================================================
