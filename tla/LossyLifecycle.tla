--------------------------- MODULE LossyLifecycle ---------------------------
(***************************************************************************)
(* RealisticNetworkSimulator of                                            *)
(* src/peer_lifecycle/realistic_connection_analysis.py: the round of the  *)
(* fixed simulator (PeerLifecycle) under the perturbations that class     *)
(* adds.                                                                   *)
(*   - The established peers start partly connected: each picks a few     *)
(*     others, and the reverse records are added while there is room.     *)
(*   - Phase 1 runs for a random half of the peers, in random order; a    *)
(*     request may be lost, and a connection attempt may fail.            *)
(*   - Phase 2 may lose any invite.                                       *)
(*   - Phase 3 sends at most one maintenance invite, only sometimes, and  *)
(*     it may be lost.                                                    *)
(* Every probability is an \E choice: the properties are about what can  *)
(* happen at all.  The admission transitions, the mapping request and    *)
(* the uniform eviction are the inherited Peer and NetworkSimulator code. *)
(***************************************************************************)
EXTENDS PeerLifecycle

VARIABLE requested  \* the peers of active_peers whose phase-1 step has run

lvars == <<rel, inbox, outbox, phase, cursor, maint, requested>>

\* random.sample(connected_peers, num_initial_connections) raises for a
\* negative count, which max_connections_per_peer < 2 gives.
ASSUME MaxConnections >= 2

\* self.max_invites_per_round
MaxInvitesPerRound == 1

\* max(1, len(self.peers) // 2): the size of active_peers
ActiveCount == Max({1, Cardinality(Peers) \div 2})

-----------------------------------------------------------------------------
(* Initial state: RealisticNetworkSimulator._initialize_network *)

\* num_initial_connections
InitialCount ==
    Min({MaxConnections - 2, Max({3, Cardinality(Established) \div 4})})

\* The peers established peer p may pick: a sample of InitialCount others,
\* or none when there are fewer others than that.
InitialPicks(p) ==
    IF Cardinality(Established) - 1 >= InitialCount
    THEN kSubset(InitialCount, Established \ {p})
    ELSE {{}}

\* The established peers in the insertion order of self.peers.
EstablishedOrder == SelectSeq(Order, LAMBDA q : q \in Established)

\* The loop that makes connections bidirectional, from the i-th established
\* peer on, over the Connected sets c: every peer q that p holds gets p
\* when it does not hold p yet and has fewer than max_connections.
RECURSIVE ReversePass(_, _)
ReversePass(c, i) ==
    IF i > Len(EstablishedOrder) THEN c
    ELSE LET p == EstablishedOrder[i]
         IN  ReversePass([q \in Established |->
                            IF q \in c[p] /\ p \notin c[q] /\ Cardinality(c[q]) < MaxConnections
                            THEN c[q] \cup {p} ELSE c[q]],
                         i + 1)

\* The Connected sets _initialize_network can give the established peers.
InitialConnections ==
    {ReversePass(f, 1) : f \in {g \in [Established -> UNION {InitialPicks(p) : p \in Established}] :
                                   \A p \in Established : g[p] \in InitialPicks(p)}}

RealisticRel(c, ident) ==
    [p \in Peers |-> [q \in Peers |->
        IF p \in Established /\ q \in c[p] THEN Connected
        ELSE IF p \in Joining /\ q \in ident[p] THEN Identified
        ELSE Unknown]]

LossyInit ==
    /\ \E c \in InitialConnections, ident \in [Joining -> kSubset(NumIdentified, Established)] :
          rel = RealisticRel(c, ident)
    /\ inbox = [p \in Peers |-> {}]
    /\ outbox = {}
    /\ phase = "discover"
    /\ cursor = 1
    /\ maint = {}
    /\ requested = {}

-----------------------------------------------------------------------------
(* Actions: RealisticNetworkSimulator.simulate_round *)

\* Phase 1 for an active peer p not yet visited this round: the request is
\* lost, or it runs and its connection attempt may fail; either failure
\* leaves every state alone.
LossyDiscover ==
    /\ phase = "discover"
    /\ \E p \in Peers \ requested :
         /\ \/ \E t \in IdSpace : Request(p, t)
            \/ UNCHANGED <<rel, outbox>>
         /\ requested' = requested \cup {p}
         /\ phase' = IF Cardinality(requested') = ActiveCount THEN "dispatch" ELSE phase
    /\ UNCHANGED <<inbox, cursor, maint>>

\* Phase 2: every invite whose random() is not below message_loss_rate
\* lands in its receiver's inbox; the others are gone.
LossyDispatch ==
    /\ phase = "dispatch"
    /\ \E D \in SUBSET outbox :
          inbox' = [q \in Peers |-> inbox[q] \cup {s \in Peers : <<s, q>> \in D}]
    /\ outbox' = {}
    /\ phase' = "consume"
    /\ requested' = {}
    /\ UNCHANGED <<rel, cursor, maint>>

\* The maintenance invites that arrive: with at least 2 Connected peers and
\* random() < 0.3, random.sample of MaxInvitesPerRound of them, each of
\* which may be lost.
LossyMaintenance(C) ==
    IF Cardinality(C) >= 2
    THEN UNION {SUBSET M : M \in kSubset(MaxInvitesPerRound, C)}
    ELSE {{}}

\* Phase 3 for the peer at the cursor, over all peers in dictionary order:
\* process_invites, the maintenance invite, remove_excess_connections.
LossyConsume ==
    /\ phase = "consume"
    /\ LET p         == Order[cursor]
           processed == [q \in Peers |-> IF q \in inbox[p] THEN React(rel[p][q])
                                                            ELSE rel[p][q]]
           C         == {q \in Peers : processed[q] = Connected}
       IN  \E M \in LossyMaintenance(C), X \in Evictions(C) :
             /\ rel' = [rel EXCEPT ![p] = [q \in Peers |->
                          IF q \in X THEN Unknown ELSE processed[q]]]
             /\ inbox' = [q \in Peers |->
                          IF q = p THEN {}
                          ELSE IF q \in M THEN inbox[q] \cup {p} ELSE inbox[q]]
    /\ Advance("consume", "discover")
    /\ UNCHANGED <<outbox, maint, requested>>

LossyNext == LossyDiscover \/ LossyDispatch \/ LossyConsume

LossySpec == LossyInit /\ [][LossyNext]_lvars

-----------------------------------------------------------------------------
(* Properties *)

LossyTypeOK == TypeOK /\ requested \subseteq Peers

=============================================================================
