--------------------------- MODULE GradientRouter ---------------------------
(***************************************************************************)
(* The mapping request of GradientNetworkSimulator: a class-restricted    *)
(* closest known peer, up to 2 random Connected peers of the target's      *)
(* distance class, and greedy hop-limited walks under the ring metric.    *)
(*                                                                         *)
(* Ring distances tie (a target midway between two ids), and Python's min *)
(* then returns the first candidate in known_peers' insertion order.  The *)
(* model does not track that order, so each operator returns the SET of   *)
(* results a tie can give.                                                *)
(***************************************************************************)
EXTENDS Naturals, Integers, FiniteSets, Sequences, FiniteSetsExt, DistanceMetric

CONSTANTS
    MaxHops,  \* max_hops passed to _gradient_recursive_search
    None      \* a lookup without result

\* GradientPeer._get_distance_class(_ring_distance(self, q)), the
\* distance_class stored in q's PeerInfo
ClassOf(self, q) == RingClass(RingDistance(self, q))

\* The members of S a min(S, key=ring distance to t) may return.
RingNearest(S, t) == {c \in S : \A o \in S : RingDistance(c, t) <= RingDistance(o, t)}

\* GradientNetworkSimulator._gradient_recursive_search: the peers the walk
\* from s may end at.  conn[q] is the Connected set of q.
RECURSIVE GradientWalk(_, _, _, _)
GradientWalk(conn, s, t, hops) ==
    IF hops <= 0 \/ conn[s] = {} THEN {s}
    ELSE UNION {IF RingDistance(s, t) <= RingDistance(c, t) THEN {s}
                ELSE GradientWalk(conn, c, t, hops - 1) :
                    c \in RingNearest(conn[s], t)}

\* GradientPeer.find_closest_peer_to_target with no excluded state: the
\* known peers of the target's class; else of the first non-empty class at
\* offset 1, -1, 2, -2; else every known peer; the nearest of them.
GradientFindClosest(self, known, t) ==
    LET tc       == ClassOf(self, t)
        InClass(c) == {q \in known : ClassOf(self, q) = c}
        offsets  == SelectSeq(<<1, -1, 2, -2>>,
                              LAMBDA o : 0 <= tc + o /\ tc + o <= Bits /\ InClass(tc + o) # {})
        cands    == IF InClass(tc) # {} THEN InClass(tc)
                    ELSE IF offsets # <<>> THEN InClass(tc + Head(offsets))
                    ELSE known
    IN  IF known = {} THEN {None} ELSE RingNearest(cands, t)

\* Starting point 1: the closest peer when it is truthy (id 0 is not).
GradientClosestStart(c) == IF c = None \/ c = 0 THEN {} ELSE {c}

\* Starting points 2: the first of the classes tc, tc+1, tc-1 in
\* distance_classes (Connected peers only) that holds a peer other than
\* the closest one; random.sample of min(2, n) of those peers.
GradientClassStarts(self, connected, t, c) ==
    LET tc       == ClassOf(self, t)
        Avail(o) == {q \in connected : ClassOf(self, q) = tc + o /\ q # c}
        offsets  == SelectSeq(<<0, 1, -1>>, LAMBDA o : Avail(o) # {})
    IN  IF offsets = <<>> THEN {{}}
        ELSE LET A == Avail(Head(offsets))
             IN  kSubset(IF Cardinality(A) < 2 THEN Cardinality(A) ELSE 2, A)

\* The response lists the walks from the starts S may give: one end per
\* start, a falsy end (id 0) dropped.
RECURSIVE WalkEnds(_, _, _)
WalkEnds(conn, S, t) ==
    IF S = {} THEN {{}}
    ELSE LET s == CHOOSE x \in S : TRUE
         IN  {E \cup ({e} \ {0}) : E \in WalkEnds(conn, S \ {s}, t),
                                   e \in GradientWalk(conn, s, t, MaxHops)}

\* The min over the response list Rsp = F \cup E, where F holds the end of
\* the closest start's walk: listed first, it wins a tie.
FirstNearest(F, E, t) ==
    LET Rsp == F \cup E
    IN  IF Rsp = {} THEN {None}
        ELSE IF F # {} /\ F \subseteq RingNearest(Rsp, t) THEN F
        ELSE RingNearest(Rsp, t)

\* GradientNetworkSimulator.simulate_mapping_request for target t: the
\* peers (or None) it may return.
GradientLookup(conn, self, known, connected, t) ==
    UNION {
      UNION {
        LET First == IF GradientClosestStart(c) = {} THEN {{}}
                     ELSE {{e} \ {0} : e \in GradientWalk(conn, c, t, MaxHops)}
        IN  IF GradientClosestStart(c) \cup R = {} THEN {None}
            ELSE UNION {FirstNearest(F, E, t) : F \in First, E \in WalkEnds(conn, R, t)}
        : R \in GradientClassStarts(self, connected, t, c)}
      : c \in GradientFindClosest(self, known, t)}

=============================================================================
