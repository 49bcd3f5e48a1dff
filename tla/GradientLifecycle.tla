-------------------------- MODULE GradientLifecycle --------------------------
(***************************************************************************)
(* The round-synchronous life cycle of GradientNetworkSimulator in         *)
(* src/peer_lifecycle/peer_lifecycle_simulator_gradient.py.  The round has *)
(* the three phases of the fixed simulator (discover, dispatch, consume),  *)
(* one atomic step per peer visit in dictionary order; it differs in the   *)
(* mapping request (GradientRouter), in the choice of maintenance targets  *)
(* (one per distance class first) and in eviction (class budgets).        *)
(***************************************************************************)
EXTENDS Naturals, FiniteSets, Sequences, FiniteSetsExt, EvictionPolicy, GradientRouter

CONSTANTS
    Established,        \* ids of the connected_set, mutually Connected at start
    Joining,            \* ids of the candidate_set
    Order,              \* iteration order of GradientNetworkSimulator.peers
    InitialIdentified   \* SimulationConfig.initial_identified_peers

Peers == Established \cup Joining

ASSUME /\ Peers \subseteq IdSpace
       /\ Established \cap Joining = {}
       /\ Order \in Seq(Peers) /\ Len(Order) = Cardinality(Peers)
       /\ \A i, j \in 1..Len(Order) : i # j => Order[i] # Order[j]
       /\ MaxConnections \in Nat \ {0}
       /\ InitialIdentified \in Nat \ {0}
       /\ None \notin IdSpace

\* PeerState, with "Unknown" standing for the absence of a known_peers entry.
Unknown    == "Unknown"
Identified == "Identified"
Pending    == "Pending"
Prospect   == "Prospect"
Connected  == "Connected"
States == {Unknown, Identified, Pending, Prospect, Connected}

VARIABLES
    rel,     \* rel[p][q]: the state of q in p.known_peers
    inbox,   \* inbox[p]: senders of the invites in p.pending_invites
    outbox,  \* invites_to_send of phase 1: set of <<sender, receiver>>
    phase,   \* "discover", "dispatch" or "consume"
    cursor   \* index into Order of the peer the current phase visits next

vars == <<rel, inbox, outbox, phase, cursor>>

Known(p) == {q \in Peers : rel[p][q] # Unknown}

\* get_connected_peers, and distance_classes, which holds exactly these
\* peers after every _update_distance_class_membership.
ConnectedPeers(p) == {q \in Peers : rel[p][q] = Connected}

ConnGraph == [q \in Peers |-> ConnectedPeers(q)]

-----------------------------------------------------------------------------
(* Admission protocol: the same branches as the fixed simulator *)

\* Phase 1 of simulate_round: the state set for a discovered peer that gets
\* an invite (a Pending record has no branch and sends none).
Initiate == [s \in {Unknown, Identified, Prospect, Connected} |->
                IF s = Prospect \/ s = Connected THEN Connected ELSE Pending]

\* GradientPeer.process_invites (a Prospect sender has no branch).
React(s) == CASE s = Pending    -> Connected
              [] s = Identified -> Prospect
              [] s = Unknown    -> Prospect
              [] OTHER          -> s

\* The maintenance targets with at least 2 Connected peers: a first pass
\* in known_peers order takes the first peer of each new distance class,
\* up to 2, and random.choice fills the rest.  The insertion order is not
\* tracked, so any pair of distinct classes may be the first pass's result;
\* with one class only, the pass takes one peer and the fill any other.
DiverseTargets(p, C) ==
    IF Cardinality(C) < 2 THEN {{}}
    ELSE IF \E x, y \in C : ClassOf(p, x) # ClassOf(p, y)
    THEN {T \in kSubset(2, C) : \E x, y \in T : ClassOf(p, x) # ClassOf(p, y)}
    ELSE kSubset(2, C)

-----------------------------------------------------------------------------
(* Initial state: GradientNetworkSimulator._initialize_network *)

NumIdentified == Smaller(InitialIdentified, Cardinality(Established))
CloseCount    == Larger(1, (NumIdentified * 2) \div 3)
DistantCount  == NumIdentified - CloseCount

\* connected_by_distance[:close_count]: the close_count established peers
\* nearest to p on the ring (a stable sort of an unordered list, so ties
\* may go either way).
ClosePeers(p) ==
    {S \in kSubset(Smaller(CloseCount, Cardinality(Established)), Established) :
        \A x \in S, y \in Established \ S : RingDistance(p, x) <= RingDistance(p, y)}

\* The identified sets of joining peer p: the close peers plus a random
\* sample of the distant ones.
IdentifiedChoices(p) ==
    UNION {{S \cup D : D \in kSubset(Smaller(DistantCount, Cardinality(Established \ S)),
                                      Established \ S)} :
           S \in ClosePeers(p)}

InitialRel(ident) ==
    [p \in Peers |-> [q \in Peers |->
        IF p \in Established /\ q \in Established /\ p # q THEN Connected
        ELSE IF p \in Joining /\ q \in ident[p] THEN Identified
        ELSE Unknown]]

Init ==
    /\ \E ident \in [Joining -> UNION {IdentifiedChoices(p) : p \in Joining}] :
          /\ \A p \in Joining : ident[p] \in IdentifiedChoices(p)
          /\ rel = InitialRel(ident)
    /\ inbox = [p \in Peers |-> {}]
    /\ outbox = {}
    /\ phase = "discover"
    /\ cursor = 1

-----------------------------------------------------------------------------
(* Actions *)

\* Mutation of Advance: the loop runs one index past the last peer.
AdvancePastEnd(last, next) ==
    IF cursor > Len(Order)
    THEN /\ phase' = next /\ cursor' = 1
    ELSE /\ phase' = last /\ cursor' = cursor + 1

\* Move the cursor to the next peer, or on to the next phase.
Advance(last, next) ==
    IF cursor = Len(Order)
    THEN /\ phase' = next /\ cursor' = 1
    ELSE /\ phase' = last /\ cursor' = cursor + 1

\* Mutation of Discover: the discovered peer is not compared with the
\* requesting peer's own id.
DiscoverWithoutSelfCheck ==
    /\ phase = "discover"
    /\ LET p == Order[cursor] IN
       \E t \in IdSpace :
         \E d \in GradientLookup(ConnGraph, p, Known(p), ConnectedPeers(p), t) :
           IF d # None /\ d # 0 /\ rel[p][d] # Pending
           THEN /\ rel' = [rel EXCEPT ![p][d] = Initiate[@]]
                /\ outbox' = outbox \cup {<<p, d>>}
           ELSE UNCHANGED <<rel, outbox>>
    /\ Advance("discover", "dispatch")
    /\ UNCHANGED inbox

\* Phase 1 for one peer: simulate_mapping_request for a random target and
\* the self-initiated transition on the discovered peer (a falsy id 0 is
\* ignored like None).
Discover ==
    /\ phase = "discover"
    /\ LET p == Order[cursor] IN
       \E t \in IdSpace :
         \E d \in GradientLookup(ConnGraph, p, Known(p), ConnectedPeers(p), t) :
           IF d # None /\ d # 0 /\ d # p /\ rel[p][d] # Pending
           THEN /\ rel' = [rel EXCEPT ![p][d] = Initiate[@]]
                /\ outbox' = outbox \cup {<<p, d>>}
           ELSE UNCHANGED <<rel, outbox>>
    /\ Advance("discover", "dispatch")
    /\ UNCHANGED inbox

\* Phase 2: every collected invite lands in its receiver's inbox.
Dispatch ==
    /\ phase = "dispatch"
    /\ inbox' = [q \in Peers |-> inbox[q] \cup {s \in Peers : <<s, q>> \in outbox}]
    /\ outbox' = {}
    /\ phase' = "consume"
    /\ UNCHANGED <<rel, cursor>>

\* Mutation of Consume: the excess is evicted before the inbox is processed.
ConsumeEvictFirst ==
    /\ phase = "consume"
    /\ LET p         == Order[cursor]
           processed == [q \in Peers |-> IF q \in inbox[p] THEN React(rel[p][q])
                                                            ELSE rel[p][q]]
           C         == {q \in Peers : processed[q] = Connected}
       IN  \E M \in DiverseTargets(p, C), X \in GradientEvictions(p, ConnectedPeers(p), Peers) :
             /\ rel' = [rel EXCEPT ![p] = [q \in Peers |->
                          IF q \in X THEN Unknown ELSE processed[q]]]
             /\ inbox' = [q \in Peers |->
                          IF q = p THEN {}
                          ELSE IF q \in M THEN inbox[q] \cup {p} ELSE inbox[q]]
    /\ Advance("consume", "discover")
    /\ UNCHANGED outbox

\* Phase 3 for one peer: process_invites, maintenance invites to two
\* Connected peers of different classes, delivered at once, then the
\* gradient remove_excess_connections.
Consume ==
    /\ phase = "consume"
    /\ LET p         == Order[cursor]
           processed == [q \in Peers |-> IF q \in inbox[p] THEN React(rel[p][q])
                                                            ELSE rel[p][q]]
           C         == {q \in Peers : processed[q] = Connected}
       IN  \E M \in DiverseTargets(p, C), X \in GradientEvictions(p, C, Peers) :
             /\ rel' = [rel EXCEPT ![p] = [q \in Peers |->
                          IF q \in X THEN Unknown ELSE processed[q]]]
             /\ inbox' = [q \in Peers |->
                          IF q = p THEN {}
                          ELSE IF q \in M THEN inbox[q] \cup {p} ELSE inbox[q]]
    /\ Advance("consume", "discover")
    /\ UNCHANGED outbox

Next == Discover \/ Dispatch \/ Consume

Spec == Init /\ [][Next]_vars

\* run_simulation calls simulate_round for every round, so a round that
\* can take a step does: weak fairness of the round.
Fairness == WF_vars(Next)

FairSpec == Spec /\ Fairness

-----------------------------------------------------------------------------
(* Properties *)

TypeOK ==
    /\ rel \in [Peers -> [Peers -> States]]
    /\ inbox \in [Peers -> SUBSET Peers]
    /\ outbox \subseteq Peers \X Peers
    /\ phase \in {"discover", "dispatch", "consume"}
    /\ cursor \in 1..Len(Order)

\* A peer never records itself: the gradient walk may end at the requesting
\* peer, and only the discovery's id test keeps it out of known_peers.
NoSelfRelationship == \A p \in Peers : rel[p][p] = Unknown

\* Spec 8 scenario in the gradient simulator: every joining peer
\* eventually holds a Connected relationship.  The initial Identified
\* peers are the ring-nearest established ones; simulate_mapping_request
\* drops a closest peer with id 0 as falsy, and its other starts come from
\* distance_classes, which holds Connected peers only.
GradientJoinerConnects == \A p \in Joining : <>(ConnectedPeers(p) # {})

=============================================================================
