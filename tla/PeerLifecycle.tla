---------------------------- MODULE PeerLifecycle ----------------------------
(***************************************************************************)
(* The round-synchronous peer life-cycle simulation of                     *)
(* src/peer_lifecycle/peer_lifecycle_simulator_fixed.py (NetworkSimulator  *)
(* with uniform-random eviction).                                          *)
(*                                                                         *)
(* A round is the loop body of simulate_round: phase 1 visits every peer   *)
(* in dictionary order and runs a mapping request, phase 2 delivers the    *)
(* collected invites, phase 3 visits every peer in the same order and      *)
(* processes its inbox, sends maintenance invites and evicts excess        *)
(* connections.  Each visit of a peer is one atomic step of the model, so  *)
(* a later peer sees every change an earlier peer made in the same phase,  *)
(* exactly as the Python loops do.  Random choices (target id, random      *)
(* starting points, maintenance targets, evicted peers) are \E choices.   *)
(***************************************************************************)
EXTENDS Naturals, FiniteSets, Sequences, FiniteSetsExt, DiscoveryRouter

CONSTANTS
    Established,        \* ids of the connected_set, mutually Connected at start
    Joining,            \* ids of the candidate_set
    Order,              \* iteration order of NetworkSimulator.peers
    MaxConnections,     \* SimulationConfig.max_connections_per_peer
    InitialIdentified   \* SimulationConfig.initial_identified_peers

Peers == Established \cup Joining

ASSUME /\ Peers \subseteq IdSpace
       /\ Established \cap Joining = {}
       /\ Order \in Seq(Peers) /\ Len(Order) = Cardinality(Peers)
       /\ \A i, j \in 1..Len(Order) : i # j => Order[i] # Order[j]
       /\ MaxConnections \in Nat \ {0}
       /\ InitialIdentified \in Nat
       /\ MaxHops \in Nat
       /\ None \notin IdSpace

\* PeerState, with "Unknown" standing for the absence of a known_peers entry.
Unknown    == "Unknown"
Identified == "Identified"
Pending    == "Pending"
Prospect   == "Prospect"
Connected  == "Connected"
States == {Unknown, Identified, Pending, Prospect, Connected}

VARIABLES
    rel,     \* rel[p][q]: the state of q in p.known_peers
    inbox,   \* inbox[p]: senders of the invites in p.pending_invites
    outbox,  \* invites_to_send of phase 1: set of <<sender, receiver>>
    phase,   \* "discover" (phase 1), "dispatch" (phase 2), "consume" (phase 3)
    cursor,  \* index into Order of the peer the current phase visits next
    maint    \* <<sender, receiver>> maintenance invites sent in this phase 3

vars == <<rel, inbox, outbox, phase, cursor, maint>>

-----------------------------------------------------------------------------
(* Peer queries *)

Known(p) == {q \in Peers : rel[p][q] # Unknown}

ConnectedPeers(p) == {q \in Peers : rel[p][q] = Connected}

\* The Connected sets the mapping request reads, for every peer.
ConnGraph == [q \in Peers |-> ConnectedPeers(q)]

-----------------------------------------------------------------------------
(* Admission protocol *)

\* Phase 1 of simulate_round: state reached when p discovers d, for the
\* states that send an invite (a Pending record has no branch).
Initiate == [s \in {Unknown, Identified, Prospect, Connected} |->
                IF s = Prospect \/ s = Connected THEN Connected ELSE Pending]

\* Mutation of React: the branch for a sender with no record is missing.
ReactWithoutUnknown(s) == CASE s = Pending    -> Connected
                            [] s = Identified -> Prospect
                            [] OTHER          -> s

\* Peer.process_invites: the state of a sender after its invite is
\* handled (a Prospect sender has no branch and is left alone).
React(s) == CASE s = Pending    -> Connected
              [] s = Identified -> Prospect
              [] s = Unknown    -> Prospect
              [] OTHER          -> s

\* random.sample(connected_peers, 2) when at least 2 are connected
MaintenanceTargets(C) == IF Cardinality(C) >= 2 THEN kSubset(2, C) ELSE {{}}

\* Mutation of Evictions: the limit test is off by one.
EvictionsOffByOne(C) ==
    IF Cardinality(C) <= MaxConnections + 1 THEN {{}}
    ELSE kSubset(Cardinality(C) - MaxConnections, C)

\* Peer.remove_excess_connections: a uniformly random excess subset
Evictions(C) ==
    IF Cardinality(C) <= MaxConnections THEN {{}}
    ELSE kSubset(Cardinality(C) - MaxConnections, C)

-----------------------------------------------------------------------------
(* Initial state: NetworkSimulator._initialize_network *)

InitialRel(ident) ==
    [p \in Peers |-> [q \in Peers |->
        IF p \in Established /\ q \in Established /\ p # q THEN Connected
        ELSE IF p \in Joining /\ q \in ident[p] THEN Identified
        ELSE Unknown]]

NumIdentified == IF InitialIdentified < Cardinality(Established)
                 THEN InitialIdentified ELSE Cardinality(Established)

Init ==
    /\ \E ident \in [Joining -> kSubset(NumIdentified, Established)] :
          rel = InitialRel(ident)
    /\ inbox = [p \in Peers |-> {}]
    /\ outbox = {}
    /\ phase = "discover"
    /\ cursor = 1
    /\ maint = {}

-----------------------------------------------------------------------------
(* Actions *)

\* Mutation of Advance: the loop runs one index past the last peer.
AdvancePastEnd(last, next) ==
    IF cursor > Len(Order)
    THEN /\ phase' = next /\ cursor' = 1
    ELSE /\ phase' = last /\ cursor' = cursor + 1

\* Move the cursor to the next peer, or on to the next phase.
Advance(last, next) ==
    IF cursor = Len(Order)
    THEN /\ phase' = next /\ cursor' = 1
    ELSE /\ phase' = last /\ cursor' = cursor + 1

\* Mutation of Request: the discovered peer is not compared with p's id.
RequestWithoutSelfCheck(p, t) ==
    \E R \in RandomStarts(Known(p), t) :
      LET d == Lookup(ConnGraph, Known(p), t, R) IN
      IF d # None /\ rel[p][d] # Pending
      THEN /\ rel' = [rel EXCEPT ![p][d] = Initiate[@]]
           /\ outbox' = outbox \cup {<<p, d>>}
      ELSE UNCHANGED <<rel, outbox>>

\* The body of the phase-1 loop for peer p: a mapping request for the
\* random target t and the self-initiated transition on the discovered
\* peer, whose invite is queued in invites_to_send.
Request(p, t) ==
    \E R \in RandomStarts(Known(p), t) :
      LET d == Lookup(ConnGraph, Known(p), t, R) IN
      IF d # None /\ d # p /\ rel[p][d] # Pending
      THEN /\ rel' = [rel EXCEPT ![p][d] = Initiate[@]]
           /\ outbox' = outbox \cup {<<p, d>>}
      ELSE UNCHANGED <<rel, outbox>>

\* Phase 1 for the peer at the cursor, with target t.
DiscoverFor(t) ==
    /\ phase = "discover"
    /\ Request(Order[cursor], t)
    /\ maint' = IF cursor = 1 THEN {} ELSE maint
    /\ Advance("discover", "dispatch")
    /\ UNCHANGED inbox

Discover == \E t \in IdSpace : DiscoverFor(t)

\* Phase 2: every collected invite lands in its receiver's inbox.
Dispatch ==
    /\ phase = "dispatch"
    /\ inbox' = [q \in Peers |-> inbox[q] \cup {s \in Peers : <<s, q>> \in outbox}]
    /\ outbox' = {}
    /\ phase' = "consume"
    /\ UNCHANGED <<rel, cursor, maint>>

\* Mutation of Consume: the excess is evicted before the inbox is processed.
ConsumeEvictFirst ==
    /\ phase = "consume"
    /\ LET p         == Order[cursor]
           processed == [q \in Peers |-> IF q \in inbox[p] THEN React(rel[p][q])
                                                            ELSE rel[p][q]]
           C         == {q \in Peers : processed[q] = Connected}
       IN  \E M \in MaintenanceTargets(C), X \in Evictions(ConnectedPeers(p)) :
             /\ rel' = [rel EXCEPT ![p] = [q \in Peers |->
                          IF q \in X THEN Unknown ELSE processed[q]]]
             /\ inbox' = [q \in Peers |->
                          IF q = p THEN {}
                          ELSE IF q \in M THEN inbox[q] \cup {p} ELSE inbox[q]]
             /\ maint' = maint \cup {<<p, m>> : m \in M}
    /\ Advance("consume", "discover")
    /\ UNCHANGED outbox

\* Phase 3 for one peer: process_invites, two maintenance invites that are
\* put straight into the targets' inboxes, then remove_excess_connections.
Consume ==
    /\ phase = "consume"
    /\ LET p         == Order[cursor]
           processed == [q \in Peers |-> IF q \in inbox[p] THEN React(rel[p][q])
                                                            ELSE rel[p][q]]
           C         == {q \in Peers : processed[q] = Connected}
       IN  \E M \in MaintenanceTargets(C), X \in Evictions(C) :
             /\ rel' = [rel EXCEPT ![p] = [q \in Peers |->
                          IF q \in X THEN Unknown ELSE processed[q]]]
             /\ inbox' = [q \in Peers |->
                          IF q = p THEN {}
                          ELSE IF q \in M THEN inbox[q] \cup {p} ELSE inbox[q]]
             /\ maint' = maint \cup {<<p, m>> : m \in M}
    /\ Advance("consume", "discover")
    /\ UNCHANGED outbox

Next == Discover \/ Dispatch \/ Consume

Spec == Init /\ [][Next]_vars

\* run_simulation calls simulate_round for simulation_rounds rounds, and
\* every mapping request draws its target with random.randint over the
\* whole id space.  A visit of peer p recurs every round, and each target
\* has probability 2^-Bits at each visit, so with probability 1 every
\* target is drawn at p's visit infinitely often.  The model assumes part
\* of that: strong fairness (the visit is enabled only when the cursor is
\* at p) of a joining peer's requests for established ids and of an
\* established peer's requests for joining ids, and weak fairness of the
\* round loop.  Assuming less fairness than the code has keeps a passing
\* liveness check valid.
FairTarget == (Joining \X Established) \cup (Established \X Joining)

Fairness ==
    /\ WF_vars(Next)
    /\ \A pt \in FairTarget : SF_vars(Order[cursor] = pt[1] /\ DiscoverFor(pt[2]))

FairSpec == Spec /\ Fairness

-----------------------------------------------------------------------------
(* Properties *)

TypeOK ==
    /\ rel \in [Peers -> [Peers -> States]]
    /\ inbox \in [Peers -> SUBSET Peers]
    /\ outbox \subseteq Peers \X Peers
    /\ phase \in {"discover", "dispatch", "consume"}
    /\ cursor \in 1..Len(Order)
    /\ maint \subseteq Peers \X Peers

\* Position of a peer in the iteration order.
Pos(p) == CHOOSE i \in 1..Len(Order) : Order[i] = p

\* p's enforcement step has run and no later step of this round changes p.
Settled(p) == \/ phase = "discover" /\ cursor = 1
              \/ phase = "consume" /\ Pos(p) < cursor

\* Degree bound (spec 3 and 8): once remove_excess_connections has run for
\* a peer in a round, and until the next round's mapping requests, the peer
\* has at most MaxConnections Connected relationships, whatever the other
\* peers process or send after it in the same phase-3 loop.
DegreeBound ==
    \A p \in Peers : Settled(p) => Cardinality(ConnectedPeers(p)) <= MaxConnections

\* A peer never records itself (spec 3): neither discovery, which may walk
\* back to the requesting peer, nor an invite or maintenance step ever
\* creates a known_peers entry for the peer's own id.
NoSelfRelationship == \A p \in Peers : rel[p][p] = Unknown

\* Spec 4.5: a maintenance invite sent in phase 3 is consumed only at the
\* next round, so at a round boundary every maintenance invite of the
\* round is still waiting in its receiver's inbox.  simulate_round delivers
\* it at once, and a receiver later in the iteration order consumes it in
\* the same round.
MaintenanceDeferred ==
    (phase = "discover" /\ cursor = 1) =>
        \A m \in maint : m[1] \in inbox[m[2]]

\* Spec 8 scenario (a joining peer with one Identified relation reaches
\* Connected with an established peer): every joining peer eventually holds a Connected
\* relationship.  simulate_mapping_request drops a closest peer with id 0,
\* and id 0 is never in the random pool, so a peer that knows only 0 has
\* no starting point at all.
JoinerConnects == \A p \in Joining : <>(ConnectedPeers(p) # {})

\* The same with id 0 set apart: a joining peer that initially knows a
\* peer other than 0 eventually holds a Connected relationship, through
\* its invite, the receiver's Prospect record of it, the receiver's own
\* discovery of it and the invite back.
JoinerWithNonZeroConnects ==
    \A p \in Joining : Known(p) \ {0} # {} => <>(ConnectedPeers(p) # {})

\* A Pending record is eventually resolved (spec 4.3: Pending is left on
\* the peer's invite back).  The code has no timeout for Pending: only an
\* invite from the other peer ends it, and process_invites ignores an
\* invite from a Prospect sender, phase 1 sends nothing on discovering a
\* Pending peer, and eviction deletes records on one side only.  Under the
\* fairness of the random targets the other peer's discovery of p comes,
\* except for p = 0, which simulate_mapping_request never returns: peer 0
\* waits forever for a peer that holds it as Prospect.
PendingResolves ==
    \A p \in Peers \ {0} : \A q \in Peers \ {p} : rel[p][q] = Pending ~> rel[p][q] # Pending

=============================================================================
