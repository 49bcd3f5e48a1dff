--------------------------- MODULE VoteSimulation ---------------------------
(***************************************************************************)
(* The vote propagation simulation of src/Design/vote_simulation.py.       *)
(* Nodes hold a fixed set of connections chosen at setup; in each round    *)
(* the active, uncommitted nodes (and every Byzantine node) send a vote to *)
(* up to 2 random connections (Byzantine nodes: to every node), the votes  *)
(* are delivered where the partition allows, committed nodes answer a vote *)
(* with +1, and every node whose vote balance exceeds 2 commits.           *)
(*                                                                         *)
(* One round of run_simulation_step is one step.  Its loops cannot be told *)
(* apart by their order: the messages are collected from the state before  *)
(* the round, committed does not change while they are processed, active   *)
(* only grows, and a vote cell votes[n][m] is written either by m's own    *)
(* vote or by m's +1 answer, never both in one round (a committed honest   *)
(* node sends no vote).                                                    *)
(***************************************************************************)
EXTENDS Integers, FiniteSets, FiniteSetsExt

CONSTANTS
    Nodes,              \* range(num_nodes)
    ConnectionsPerNode, \* connections_per_node
    StartingNodes,      \* starting_nodes
    ByzantinePct,       \* byzantine_ratio, in percent
    ReverseByzantine,   \* reverse_byzantine
    IllegalResistance,  \* illegal_resistance
    PartitionMode,      \* "none", "binary" or "bridge"
    PartitionPct        \* partition_ratio, in percent

ASSUME /\ StartingNodes \in 0..Cardinality(Nodes)
       /\ ByzantinePct \in 0..100 /\ PartitionPct \in 0..100
       /\ PartitionMode \in {"none", "binary", "bridge"}

VARIABLES
    conn,       \* conn[n]: node n's connections
    part,       \* part[n]: node n's partition
    byz,        \* the Byzantine nodes
    active,     \* the nodes with active = True
    committed,  \* the nodes with committed = True
    votes,      \* votes[n][m]: the vote n keeps from m, 0 when it has none
    stopped     \* run_full_simulation has left its loop

vars == <<conn, part, byz, active, committed, votes, stopped>>

N == Cardinality(Nodes)

Smaller(a, b) == IF a <= b THEN a ELSE b
Larger(a, b)  == IF a >= b THEN a ELSE b

-----------------------------------------------------------------------------
(* Setup: _setup_network, _setup_partitions, _setup_byzantine_nodes,      *)
(* _activate_starting_nodes.                                              *)

\* Each node samples min(connections_per_node, N-1) peers; each sampled
\* edge m -> n may be mirrored by n -> m (random() < bidirectional_prob).
\* Mutation of SampledPeers: available_peers keeps the node's own id.
SampledPeersWithSelf ==
    [Nodes -> kSubset(Smaller(ConnectionsPerNode, N - 1), Nodes)]

SampledPeers ==
    {S \in [Nodes -> kSubset(Smaller(ConnectionsPerNode, N - 1), Nodes)] :
        \A n \in Nodes : n \notin S[n]}

\* The connections after sampling S and mirroring the edges R.
SetupConnections(S, R) == [n \in Nodes |-> S[n] \cup {m \in Nodes : <<m, n>> \in R}]

\* The sampled edges m -> n of S, each of which may be mirrored.
SampledEdges(S) == {<<m, n>> \in Nodes \X Nodes : n \in S[m]}

\* int(num_nodes * ratio), the ratio given in percent
Share(pct, k) == (k * pct) \div 100

SetupPartitions ==
    CASE PartitionMode = "none" -> {[n \in Nodes |-> 0]}
      [] PartitionMode = "binary" ->
            {[n \in Nodes |-> IF n \in A THEN 0 ELSE 1] :
                A \in kSubset(Share(PartitionPct, N), Nodes)}
      [] PartitionMode = "bridge" ->
            LET bridge == Larger(1, Share(20, N))
                a      == Share(PartitionPct, N - bridge)
            IN  UNION {{[n \in Nodes |-> IF n \in A THEN 0 ELSE IF n \in B THEN 1 ELSE 2] :
                          B \in kSubset(N - bridge - a, Nodes \ A)} :
                       A \in kSubset(a, Nodes)}

\* byzantine_testing is set on every node whenever byzantine_ratio > 0.
ByzantineTesting == ByzantinePct > 0

Init ==
    /\ \E S \in SampledPeers : \E R \in SUBSET SampledEdges(S) : conn = SetupConnections(S, R)
    /\ part \in SetupPartitions
    /\ byz \in kSubset(Share(ByzantinePct, N), Nodes)
    /\ active \in kSubset(StartingNodes, Nodes)
    /\ committed = {}
    /\ votes = [n \in Nodes |-> [m \in Nodes |-> 0]]
    /\ stopped = FALSE

-----------------------------------------------------------------------------
(* One round: run_simulation_step *)

\* VotingSimulation._can_communicate
CanCommunicate(f, t) ==
    CASE PartitionMode = "none"   -> TRUE
      [] PartitionMode = "binary" -> part[f] = part[t]
      [] PartitionMode = "bridge" -> part[f] = 2 \/ part[t] = 2 \/ part[f] = part[t]

\* Node.generate_vote
GenerateVote(n) ==
    CASE n \in committed                          -> 1
      [] ByzantineTesting /\ n \in byz            -> IF ReverseByzantine THEN -1 ELSE 1
      [] ByzantineTesting /\ n \notin byz         -> IF ReverseByzantine THEN 1 ELSE -1
      [] OTHER                                    -> 1

\* The nodes the round loop asks for outgoing votes.
Senders == {n \in Nodes : n \in byz \/ (n \in active /\ n \notin committed)}

\* Node.get_outgoing_votes: the target lists random.sample may return.
OutgoingChoices(n) ==
    IF n \in byz THEN {Nodes \ {n}}
    ELSE IF n \notin active \/ n \in committed \/ conn[n] = {} THEN {{}}
    ELSE kSubset(Smaller(2, Cardinality(conn[n])), conn[n])

\* The vote_messages lists the collection loop may build from senders S.
RECURSIVE VoteMessages(_)
VoteMessages(S) ==
    IF S = {} THEN {{}}
    ELSE LET n == CHOOSE x \in S : TRUE
         IN  {M \cup {<<n, t, GenerateVote(n)>> : t \in T} :
                 M \in VoteMessages(S \ {n}), T \in OutgoingChoices(n)}

\* Node.receive_vote(from_peer) at node t: not committed, from a connection.
Accepts(t, f) == t \notin committed /\ f \in conn[t]

\* Messages that reach receive_vote and are stored ("Byzantine votes
\* always go through" the loop's own test, then meet receive_vote's).
Stored(M) ==
    {m \in M : /\ CanCommunicate(m[1], m[2])
               /\ m[1] \in byz \/ m[1] \in conn[m[2]]
               /\ Accepts(m[2], m[1])}

\* Mutation of Answered: the answer is given only inside the branch that
\* stored the vote.
AnsweredOnlyIfStored(M) ==
    {m \in M : /\ CanCommunicate(m[1], m[2])
               /\ Accepts(m[2], m[1])
               /\ m[2] \notin byz
               /\ m[2] \in committed
               /\ CanCommunicate(m[2], m[1])
               /\ m[2] \in conn[m[1]]
               /\ Accepts(m[1], m[2])}

\* Node.respond_to_vote: a committed honest receiver answers +1, and the
\* sender stores it when it can hear the receiver and is connected to it.
Answered(M) ==
    {m \in M : /\ CanCommunicate(m[1], m[2])
               /\ m[2] \notin byz
               /\ m[2] \in committed
               /\ CanCommunicate(m[2], m[1])
               /\ m[2] \in conn[m[1]]
               /\ Accepts(m[1], m[2])}

\* votes_received after every message of M is processed
VotesAfter(M) ==
    [n \in Nodes |-> [m \in Nodes |->
        IF \E s \in Stored(M) : s[1] = m /\ s[2] = n
        THEN GenerateVote(m)
        ELSE IF \E a \in Answered(M) : a[1] = n /\ a[2] = m THEN 1
        ELSE votes[n][m]]]

\* Node.calculate_vote_balance
Balance(v) == MapThenSumSet(LAMBDA m : v[m], Nodes)

\* Mutation of ShouldCommit: the threshold test is >= 2.
ShouldCommitAtTwo(n, v) ==
    /\ n \notin committed
    /\ ~(IllegalResistance /\ n \notin byz)
    /\ Balance(v[n]) >= 2

\* Node.should_commit, for the votes v the node holds
ShouldCommit(n, v) ==
    /\ n \notin committed
    /\ ~(IllegalResistance /\ n \notin byz)
    /\ Balance(v[n]) > 2

\* A round that sends the messages M: processing, commits, and the loop's
\* stop test (no votes sent, or no node left active).
Step(M) ==
    LET v       == VotesAfter(M)
        act     == active \cup {s[2] : s \in Stored(M)} \cup {a[1] : a \in Answered(M)}
        commits == {n \in Nodes : ShouldCommit(n, v)}
    IN  /\ votes' = v
        /\ committed' = committed \cup commits
        /\ active' = act \ commits
        /\ stopped' = (M = {} \/ act \ commits = {})
        /\ UNCHANGED <<conn, part, byz>>

Round == ~stopped /\ \E M \in VoteMessages(Senders) : Step(M)

Next == Round

Spec == Init /\ [][Next]_vars

\* run_full_simulation runs rounds until it stops.  A round redraws every
\* random.sample, and each outcome has a positive probability, so when
\* some outcome would change the state, one that does is drawn in some
\* later round (with probability 1): weak fairness of the round, whose
\* state-changing steps are the ones <<Next>>_vars counts.
Fairness == WF_vars(Next)

FairSpec == Spec /\ Fairness

-----------------------------------------------------------------------------

TypeOK ==
    /\ conn \in [Nodes -> SUBSET Nodes]
    /\ \A n \in Nodes : n \notin conn[n]
    /\ part \in [Nodes -> 0..2]
    /\ byz \subseteq Nodes
    /\ active \subseteq Nodes /\ committed \subseteq Nodes
    /\ votes \in [Nodes -> [Nodes -> {-1, 0, 1}]]
    /\ stopped \in BOOLEAN

(* Forcing attack (Byzantine nodes vote +1, honest ones -1 until they     *)
(* commit): with at most 2 Byzantine nodes no node ever commits, in any   *)
(* partition and on any connection graph.  A first commit would need a    *)
(* balance above 2 from +1 votes, and before it only Byzantine nodes give *)
(* +1: committed nodes' +1 votes and answers come later.                  *)
NoForcedCommit ==
    ByzantineTesting /\ ~ReverseByzantine /\ Cardinality(byz) <= 2
        => committed = {}

(* The round loop's comment says "Byzantine votes always go through": in  *)
(* a round, every uncommitted node a Byzantine node can reach stores that  *)
(* node's vote.  receive_vote still drops a vote from a node that is not  *)
(* one of the receiver's connections.                                     *)
ByzantineVotesDelivered ==
    [][Round => \A f \in byz : \A t \in Nodes \ {f} :
                   CanCommunicate(f, t) /\ t \notin committed
                       => votes'[t][f] = GenerateVote(f)]_vars

(* Without Byzantine nodes or partitions, and with every pair of nodes    *)
(* connected, every node eventually commits: committed nodes stop sending, *)
(* but a late node still collects their +1 through respond_to_vote.      *)
EventuallyAllCommit == <>(committed = Nodes)

=============================================================================
