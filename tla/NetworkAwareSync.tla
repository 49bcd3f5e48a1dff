-------------------------- MODULE NetworkAwareSync --------------------------
(***************************************************************************)
(* The network-aware synchronisation of src/network_aware_synchronization *)
(* .py: one trial of analyze_network_aware_sync.  A new peer               *)
(* (NetworkAwareSyncNode) starts with its own mapping in its discovered    *)
(* mappings and its query queue, and queries a SimulatedNetwork: each      *)
(* query samples AvailCount of the network's tokens and answers with the  *)
(* tokens find_tokens_by_signature picks for a random signature.  Tokens  *)
(* of an answer that lie near the node's address join the queue; when    *)
(* the queue runs dry, the driver refills it with a discovered token      *)
(* nearer still to the address, or leaves its loop.                       *)
(*                                                                         *)
(* Tokens and the address are W-bit integers instead of 256-bit ones, and *)
(* the distance bounds 1 << 32 (queue) and 1 << 40 (refill) become       *)
(* NearBound and RefillBound.  The network maps every token to one        *)
(* transaction, "net"; the node's own mapping is "own".  A mapping's      *)
(* timestamp only decides detect_conflicts' newer-wins branch: the        *)
(* network's are up to an hour old at SimulatedNetwork creation, the own  *)
(* one is time.time() at the trial, so the own one is the newest.         *)
(***************************************************************************)
EXTENDS Naturals, FiniteSets, Sequences, SequencesExt, FiniteSetsExt, Bitwise,
        SignatureScan

CONSTANTS
    NetTokens,     \* the tokens of SimulatedNetwork.token_mappings
    AvailCount,    \* int(len(sorted_tokens) * network_density)
    Address,       \* new_peer_address, the node_address
    OwnToken,      \* initial_token of the peer's own mapping
    TargetTokens,  \* target_tokens = int(network_size * target_coverage)
    NearBound,     \* 1 << 32 of make_query's queue filter
    RefillBound    \* 1 << 40 of the driver's refill filter

ASSUME /\ OwnToken \notin NetTokens
       /\ AvailCount \in 1..Cardinality(NetTokens)
       /\ TargetTokens \in Nat \ {0}
       /\ NearBound <= RefillBound

AllTokens == NetTokens \cup {OwnToken}
NetTx     == "net"
OwnTx     == "own"
Missing   == "missing"     \* token_id not in discovered_mappings

\* TokenMapping.timestamp: the own mapping is newer than every network one.
Stamp(tx) == IF tx = OwnTx THEN 1 ELSE 0

\* max_queries = min(target_tokens * 10, 200)
MaxQueries == Min({TargetTokens * 10, 200})

-----------------------------------------------------------------------------
(* NetworkAwareSyncNode, as a record [d, cf, q, n]: discovered_mappings   *)
(* (token -> transaction or Missing), conflicted_mappings, query_queue    *)
(* and queries_made.                                                      *)

\* detect_conflicts for the network's mapping of t: the node afterwards,
\* and whether it reported a conflict.
DetectConflicts(s, t) ==
    CASE s.d[t] = Missing -> <<[s EXCEPT !.d[t] = NetTx], FALSE>>
      [] s.d[t] # NetTx   -> <<[s EXCEPT !.d[t] = IF Stamp(NetTx) > Stamp(@) THEN NetTx ELSE @,
                                         !.cf = @ \cup {t}], TRUE>>
      [] OTHER            -> <<s, FALSE>>

\* The queue filter of make_query for a mapping that is no conflict.
QueueIfNear(s, t) ==
    IF (Address ^^ t) < NearBound /\ t \notin Range(s.q)
    THEN [s EXCEPT !.q = Append(@, t)]
    ELSE s

\* make_query's loop over the response mappings, in response order.
RECURSIVE ProcessMappings(_, _)
ProcessMappings(s, resp) ==
    IF resp = <<>> THEN s
    ELSE LET r == DetectConflicts(s, Head(resp))
         IN  ProcessMappings(IF r[2] THEN r[1] ELSE QueueIfNear(r[1], Head(resp)),
                             Tail(resp))

\* The random draws of one query: handle_query's sample of the network's
\* tokens (all of them at density 1.0) and the signature's chunks.
QueryChoices == kSubset(AvailCount, NetTokens) \X ChunkVectors

\* SimulatedNetwork.handle_query: the scan over the sorted sample.
HandleQuery(lookup, ch) == FindTokensBySignature(SetToSortSeq(ch[1], <), lookup, ch[2])

\* make_query: count the query, then process the network's answer.
MakeQuery(s, lookup, ch) == ProcessMappings([s EXCEPT !.n = @ + 1], HandleQuery(lookup, ch))

RECURSIVE QueryEach(_, _, _)
QueryEach(s, toks, chs) ==
    IF toks = <<>> THEN s
    ELSE QueryEach(MakeQuery(s, Head(toks), Head(chs)), Tail(toks), Tail(chs))

\* resolve_conflicts: list(conflicted_mappings), in the set's iteration
\* order, which the model leaves open; the set is cleared, then each token
\* is queried again.
ResolveConflicts(s) ==
    { QueryEach([s EXCEPT !.cf = {}], o, chs) :
        o \in SetToSeqs(s.cf), chs \in [1..Cardinality(s.cf) -> QueryChoices] }

\* sync_step on a non-empty queue: popleft, then make_query.
SyncStep(s) == { MakeQuery([s EXCEPT !.q = Tail(@)], Head(s.q), ch) : ch \in QueryChoices }

\* The driver's refill: a random discovered token within RefillBound.
NearAddress(s) == {t \in AllTokens : s.d[t] # Missing /\ (Address ^^ t) < RefillBound}

Refill(s) == { [s EXCEPT !.q = Append(@, t)] : t \in NearAddress(s) }

\* "Periodically resolve conflicts" at the end of each iteration.
Periodically(S) == UNION { IF Cardinality(s.cf) > 5 THEN ResolveConflicts(s) ELSE {s} : s \in S }

-----------------------------------------------------------------------------
(* The trial of analyze_network_aware_sync *)

VARIABLES
    disc,     \* discovered_mappings
    conf,     \* conflicted_mappings
    queue,    \* query_queue
    queries,  \* queries_made
    iter,     \* iteration_count
    pc        \* "first", "loop", "final" (after the loop) or "done"

vars == <<disc, conf, queue, queries, iter, pc>>

node == [d |-> disc, cf |-> conf, q |-> queue, n |-> queries]

SetNode(s) == disc' = s.d /\ conf' = s.cf /\ queue' = s.q /\ queries' = s.n

Discovered == {t \in AllTokens : disc[t] # Missing}

\* The while condition of the synchronisation loop.
LoopCondition ==
    /\ Cardinality(Discovered) < TargetTokens
    /\ queries < MaxQueries
    /\ iter < TargetTokens * 2

\* NetworkAwareSyncNode(new_peer_address, initial_mapping)
Init ==
    /\ disc = [t \in AllTokens |-> IF t = OwnToken THEN OwnTx ELSE Missing]
    /\ conf = {}
    /\ queue = <<OwnToken>>
    /\ queries = 0
    /\ iter = 0
    /\ pc = "first"

\* "First query from initial token"
FirstQuery ==
    /\ pc = "first"
    /\ IF queue # <<>> THEN \E s \in SyncStep(node) : SetNode(s)
                       ELSE UNCHANGED <<disc, conf, queue, queries>>
    /\ pc' = "loop"
    /\ UNCHANGED iter

\* One iteration of the loop: a sync step, a refill, or the break.
LoopIteration ==
    /\ pc = "loop"
    /\ LoopCondition
    /\ iter' = iter + 1
    /\ \/ /\ queue # <<>>
          /\ \E s \in Periodically(SyncStep(node)) : SetNode(s)
          /\ UNCHANGED pc
       \/ /\ queue = <<>>
          /\ NearAddress(node) # {}
          /\ \E s \in Periodically(Refill(node)) : SetNode(s)
          /\ UNCHANGED pc
       \/ /\ queue = <<>>
          /\ NearAddress(node) = {}
          /\ pc' = "final"
          /\ UNCHANGED <<disc, conf, queue, queries>>

LoopExit ==
    /\ pc = "loop"
    /\ ~LoopCondition
    /\ pc' = "final"
    /\ UNCHANGED <<disc, conf, queue, queries, iter>>

\* "Final conflict resolution"
FinalResolve ==
    /\ pc = "final"
    /\ \E s \in ResolveConflicts(node) : SetNode(s)
    /\ pc' = "done"
    /\ UNCHANGED iter

Next == FirstQuery \/ LoopIteration \/ LoopExit \/ FinalResolve

Spec == Init /\ [][Next]_vars

-----------------------------------------------------------------------------
(* Properties *)

TypeOK ==
    /\ disc \in [AllTokens -> {NetTx, OwnTx, Missing}]
    /\ conf \subseteq AllTokens
    /\ queue \in Seq(AllTokens)
    /\ queries \in 0..MaxQueries + Cardinality(AllTokens)
    /\ iter \in 0..TargetTokens * 2
    /\ pc \in {"first", "loop", "final", "done"}

\* The loop of analyze_network_aware_sync is commented "Continue until
\* target coverage or limits reached": once the trial has left it, the
\* node holds target_tokens mappings, or has made max_queries queries, or
\* has run target_tokens * 2 iterations.  The else: break of the refill
\* leaves it when no discovered token lies within 1 << 40 of the address.
ReachesTargetOrLimit == pc \in {"final", "done"} => ~LoopCondition

=============================================================================
