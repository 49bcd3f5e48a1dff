--------------------------- MODULE CompetitiveSync ---------------------------
(***************************************************************************)
(* The competitive synchronisation of src/competitive_sync_analysis.py.    *)
(* A new node (CompetitiveSyncNode) learns token -> transaction mappings  *)
(* by signature-directed queries to the peers of a CompetitiveNetwork.   *)
(* A peer answers with the tokens find_tokens_by_signature picks from its *)
(* sorted tokens; a token that two answers map to different transactions *)
(* becomes a conflict, and the driver analyze_sync_to_competitive_        *)
(* threshold then asks for votes (query_for_voting) and resolves          *)
(* conflicts by strict majority (resolve_conflicts_by_voting).            *)
(*                                                                         *)
(* Tokens and transactions are small values: a token is an integer whose  *)
(* order and low bits matter, a transaction is "canon" (the network's     *)
(* canonical one), "conflict" (its competing one) or "own" (the node's    *)
(* initial transaction).  A signature chunk is ChunkBits wide instead of  *)
(* 10, and a signature has NumChunks chunks of which the first            *)
(* AboveCount are used above the lookup position (10 and 5 in the code).  *)
(***************************************************************************)
EXTENDS Naturals, FiniteSets, Sequences, SequencesExt, FiniteSetsExt, SignatureScan

CONSTANTS
    NetTokens,       \* the tokens of canonical_mappings
    ConflictTokens,  \* the tokens of conflicting_mappings
    OwnToken,        \* initial_token, held by no peer
    Peers,           \* range(peer_count)
    HeldCount,       \* int(total_tokens * density): the tokens a peer holds
    TargetTokens,    \* target_tokens = int(network_size * target_density)
    NumVoters        \* num_voters of query_for_voting (3 in the driver)

ASSUME /\ ConflictTokens \subseteq NetTokens
       /\ OwnToken \notin NetTokens
       /\ HeldCount \in 1..Cardinality(NetTokens)

AllTokens == NetTokens \cup {OwnToken}
Txs       == {"canon", "conflict", "own"}
Missing   == "missing"     \* token_id not in discovered_mappings

-----------------------------------------------------------------------------
(* The network: CompetitiveNetwork *)

VARIABLES
    held,        \* held[p]: the tokens of network_peers[p]
    txOf,        \* txOf[p][t]: the transaction network_peers[p] maps t to
    disc,        \* disc[t]: the transaction of discovered_mappings[t]
    obj,         \* obj[t][x]: the live TokenMapping of t to x, NoObj if none
    conf,        \* conf[t]: t is a key of conflicted_mappings
    heard,       \* every <<t, p, x>>: peer p's answer mapped t to x
    queries      \* queries_made of the driver

vars == <<held, txOf, disc, obj, conf, heard, queries>>

\* The transactions a peer may hold for t: the canonical one, or, for a
\* token of conflicting_mappings, the conflicting one (random() < 0.05).
PeerTxs(t) == IF t \in ConflictTokens THEN {"canon", "conflict"} ELSE {"canon"}

\* The tokens of a peer, sorted as handle_query_with_peer_diversity sorts.
SortedTokens(p) == SetToSortSeq(held[p], <)

\* handle_query_with_peer_diversity when random.randint picks peer p: the
\* <<token, transaction>> pairs of its answer, in answer order.
Respond(p, lookup, c) ==
    LET found == FindTokensBySignature(SortedTokens(p), lookup, c)
    IN  [k \in DOMAIN found |-> <<found[k], txOf[p][found[k]]>>]

-----------------------------------------------------------------------------
(* The node: CompetitiveSyncNode *)

\* A TokenMapping: votes, and the set of voters.
NoObj == [votes |-> 0, voters |-> {}]

\* The sources a mapping is received from: a responding peer p,
\* f"voter_{k}", or "self".
PeerSource(p)   == <<"peer", p>>
VoterSource(k)  == <<"voter", k>>
SelfSource      == <<"self", 0>>

\* The truthiness of source_peer: only peer 0 is falsy.
Truthy(s) == s # PeerSource(0)

\* TokenMapping(token, tx, source_peer): a self-vote, and the source as a
\* voter only when it is truthy.
NewMapping(s) == [votes |-> 1, voters |-> IF Truthy(s) THEN {s} ELSE {}]

\* TokenMapping.add_vote
AddVote(m, s) ==
    IF s \in m.voters THEN m
    ELSE [votes |-> m.votes + 1, voters |-> m.voters \cup {s}]

\* The node's state as one record, threaded through the calls of a step.
Node == [disc |-> disc, obj |-> obj, conf |-> conf]

\* receive_mapping(t, x, s) on node state S.  When t is already in
\* conflicted_mappings, the list holds the discovered mapping and one live
\* mapping per other transaction, which obj[t] keeps.
ReceiveMapping(S, t, x, s) ==
    LET d == S.disc[t]
        m == S.obj[t][x]
    IN  IF d = Missing
        THEN [S EXCEPT !.disc[t] = x, !.obj[t][x] = NewMapping(s)]
        ELSE IF d # x
        THEN [S EXCEPT !.conf[t] = TRUE,
                       !.obj[t][x] = IF m # NoObj THEN AddVote(m, s) ELSE NewMapping(s)]
        ELSE [S EXCEPT !.obj[t][x] = AddVote(m, s)]

\* The mappings of a conflicted token, and the total of their votes.
Candidates(S, t) == {x \in Txs : S.obj[t][x] # NoObj}
TotalVotes(S, t) == MapThenSumSet(LAMBDA x : S.obj[t][x].votes, Candidates(S, t))

\* max(candidates, key=votes).  Which of two equal maxima wins does not
\* matter: neither of them has more than half of the votes.
Winner(S, t) ==
    CHOOSE w \in Candidates(S, t) :
        \A x \in Candidates(S, t) : S.obj[t][x].votes <= S.obj[t][w].votes

Resolves(S, t) ==
    /\ S.conf[t]
    /\ Cardinality(Candidates(S, t)) > 1
    /\ 2 * S.obj[t][Winner(S, t)].votes > TotalVotes(S, t)

\* resolve_conflicts_by_voting: every conflict with a strict majority is
\* resolved to its winner, whose mapping becomes the discovered one.
ResolveConflictsByVoting(S) ==
    [disc |-> [t \in AllTokens |-> IF Resolves(S, t) THEN Winner(S, t) ELSE S.disc[t]],
     obj  |-> [t \in AllTokens |->
                 IF Resolves(S, t)
                 THEN [x \in Txs |-> IF x = Winner(S, t) THEN S.obj[t][x] ELSE NoObj]
                 ELSE S.obj[t]],
     conf |-> [t \in AllTokens |-> S.conf[t] /\ ~Resolves(S, t)]]

\* receive_mapping for every pair of an answer, in answer order.
ReceiveAll(S, resp, s) ==
    FoldLeft(LAMBDA acc, e : ReceiveMapping(acc, e[1], e[2], s), S, resp)

-----------------------------------------------------------------------------
(* query_for_voting *)

NoAnswer == <<>>

\* What one query of query_for_voting(t) gets from peer p with chunks c:
\* <<transaction, p>> of the first answer pair for token t, or NoAnswer.
VoteAnswer(p, t, c) ==
    LET r == Respond(p, t, c)
    IN  IF \E k \in DOMAIN r : r[k][1] = t
        THEN <<r[CHOOSE k \in DOMAIN r : r[k][1] = t][2], p>>
        ELSE NoAnswer

\* The answers one voting query for t can get, over the random peer and
\* signature.
VoteOutcomes(t) == {VoteAnswer(p, t, c) : p \in Peers, c \in ChunkVectors}

\* The loop of query_for_voting(t) over the answers o: each answer is
\* received from f"voter_{k}", k counting the votes collected so far.
RECURSIVE VoteLoop(_, _, _, _, _)
VoteLoop(S, t, o, i, k) ==
    IF i > Len(o) THEN [node |-> S, collected |-> k]
    ELSE IF o[i] = NoAnswer THEN VoteLoop(S, t, o, i + 1, k)
    ELSE VoteLoop(ReceiveMapping(S, t, o[i][1], VoterSource(k)), t, o, i + 1, k + 1)

\* The driver's loop "for token_id in new_peer.conflicted_mappings", with
\* the answers f[t] of the voting queries for t; tokens do not interact.
RECURSIVE VoteAll(_, _, _)
VoteAll(S, f, T) ==
    IF T = {} THEN [node |-> S, collected |-> 0]
    ELSE LET t    == CHOOSE u \in T : TRUE
             one  == VoteLoop(S, t, f[t], 1, 0)
             rest == VoteAll(one.node, f, T \ {t})
         IN  [node |-> rest.node, collected |-> one.collected + rest.collected]

\* The answers the voting queries for the conflicted tokens of S can get.
VotingChoices(S) ==
    LET T == {t \in AllTokens : S.conf[t]}
    IN  {f \in [T -> [1..NumVoters -> UNION {VoteOutcomes(u) : u \in T}]] :
            \A t \in T : \A i \in 1..NumVoters : f[t][i] \in VoteOutcomes(t)}

-----------------------------------------------------------------------------
(* The driver: analyze_sync_to_competitive_threshold *)

Discovered == {t \in AllTokens : disc[t] # Missing}

\* CompetitiveNetwork(...) and CompetitiveSyncNode(...) with
\* receive_mapping(initial_token, initial_tx, "self").
Init ==
    /\ held \in [Peers -> kSubset(HeldCount, NetTokens)]
    /\ txOf \in {f \in [Peers -> UNION {[H -> {"canon", "conflict"}] : H \in SUBSET NetTokens}] :
                   \A p \in Peers : DOMAIN f[p] = held[p] /\ \A t \in held[p] : f[p][t] \in PeerTxs(t)}
    /\ disc = [t \in AllTokens |-> IF t = OwnToken THEN "own" ELSE Missing]
    /\ obj = [t \in AllTokens |-> [x \in Txs |->
                IF t = OwnToken /\ x = "own" THEN NewMapping(SelfSource) ELSE NoObj]]
    /\ conf = [t \in AllTokens |-> FALSE]
    /\ heard = {}
    /\ queries = 0

SetNode(S) == disc' = S.disc /\ obj' = S.obj /\ conf' = S.conf

\* One pass of the driver's while loop: a query for a discovered token to
\* a random peer with a random signature, receive_mapping of its answer,
\* and, when the answer made new conflicts, query_for_voting(t, 3) for
\* every conflicted token and resolve_conflicts_by_voting.  The query
\* candidates are always discovered tokens: the first is initial_token,
\* and the distance test that adds answered tokens holds for a 256-bit
\* token with probability 2^-224, so the list is refilled by
\* random.sample of the discovered tokens.
SyncStep ==
    /\ Cardinality(Discovered) < TargetTokens
    /\ queries < 2 * TargetTokens
    /\ \E lookup \in Discovered, c \in ChunkVectors, p \in Peers :
         LET resp  == Respond(p, lookup, c)
             S1    == ReceiveAll(Node, resp, PeerSource(p))
             fresh == {<<resp[k][1], p, resp[k][2]>> : k \in DOMAIN resp}
         IN  IF Cardinality({t \in AllTokens : S1.conf[t]}) > Cardinality({t \in AllTokens : conf[t]})
             THEN \E f \in VotingChoices(S1) :
                    LET V == VoteAll(S1, f, DOMAIN f)
                    IN  /\ SetNode(ResolveConflictsByVoting(V.node))
                        /\ queries' = queries + 1 + V.collected
                        /\ heard' = heard \cup fresh \cup
                                      UNION {{<<t, f[t][i][2], f[t][i][1]>> :
                                                 i \in {j \in 1..NumVoters : f[t][j] # NoAnswer}} :
                                             t \in DOMAIN f}
             ELSE /\ SetNode(S1)
                  /\ queries' = queries + 1
                  /\ heard' = heard \cup fresh
    /\ UNCHANGED <<held, txOf>>

Next == SyncStep

\* The driver leaves its loop at the target or at the query budget.
Spec == Init /\ [][Next]_vars

-----------------------------------------------------------------------------
(* Properties *)

TypeOK ==
    /\ held \in [Peers -> SUBSET NetTokens]
    /\ disc \in [AllTokens -> Txs \cup {Missing}]
    /\ conf \in [AllTokens -> BOOLEAN]
    /\ \A t \in AllTokens : conf[t] => disc[t] # Missing
    /\ queries \in 0..(2 * TargetTokens + Cardinality(AllTokens) * NumVoters)

(* query_for_voting is there "to gather votes for a conflicted token": a  *)
(* voting query for a conflicted token that some peer holds can get that *)
(* peer's mapping for it, for some responding peer and signature.        *)
VotersCanAnswer ==
    \A t \in NetTokens :
        conf[t] /\ (\E p \in Peers : t \in held[p]) => VoteOutcomes(t) # {NoAnswer}

(* resolve_conflicts_by_voting resolves a conflict by majority: the       *)
(* transaction a conflict is resolved to is the one a strict majority of *)
(* the distinct peers whose answers mapped the token sent.               *)
MajorityOfDistinctPeers ==
    [][\A t \in NetTokens :
          conf[t] /\ ~conf'[t] =>
              2 * Cardinality({p \in Peers : <<t, p, disc'[t]>> \in heard'})
                > Cardinality({p \in Peers : \E x \in Txs : <<t, p, x>> \in heard'})]_vars

=============================================================================
