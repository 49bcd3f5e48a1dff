# TLA+ models of the EcNode peer life-cycle simulators

This directory holds TLA+ models of the Python simulators in `src/`. They are
checked with TLC. The core, per `spec.md`, is the admission, discovery and
topology-maintenance protocol of a Kademlia-style overlay. In the code that is
`src/peer_lifecycle/peer_lifecycle_simulator_fixed.py` (the `NetworkSimulator`)
and its variants.

## 1. Inventory of the system

### Components and their state

| Component | Code | State it keeps | Operations that change state |
|---|---|---|---|
| DistanceMetric | `Peer._xor_distance`, `GradientPeer._ring_distance`, `_get_distance_class`, `_count_leading_zeros` | none (pure) | none |
| DiscoveryRouter | `NetworkSimulator.simulate_mapping_request`, `_recursive_search_with_hop_limit` | none; reads the requester's `known_peers` and, as an oracle, every visited peer's Connected set | none (it returns a peer id or `None`) |
| AdmissionProtocol | phase 1 of `simulate_round`, `Peer.process_invites`, maintenance in phase 3 | per peer: `known_peers: id -> PeerInfo(state, last_heard_from)` and `pending_invites` (the inbox) | self-initiated transition, reactive transition per invite, maintenance invites |
| EvictionPolicy | `Peer.remove_excess_connections` (uniform), `DistanceOptimizedPeer` (static buckets + slack), `ImprovedDistanceOptimizedPeer` (prefix buckets + slack), `GradientPeer` (ring classes, budgets) | `known_peers` (it deletes records) | eviction of Connected records |
| SimulationEngine | `NetworkSimulator.__init__`, `_initialize_network`, `simulate_round`, `run_simulation` | the peer registry, `round_number`, the phase-1 `invites_to_send` list | bootstrap, one round of 3 phases |
| Realistic variant | `realistic_connection_analysis.py` | as the engine | the round with message loss, connection failure and partial activation |
| Vote simulation | `src/Design/vote_simulation.py` | per node: connections, `votes_received`, `committed`, `active` | a vote round, commit |
| Competitive sync | `competitive_sync_analysis.py` | per node: `discovered_mappings`, `conflicted_mappings` (TokenMappings with votes and voters), `queries_made`; per peer of the network: token -> transaction | a query and its answers, receive_mapping, query_for_voting, resolve_conflicts_by_voting |
| Network-aware sync | `network_aware_synchronization.py` | per node: `discovered_mappings`, `conflicted_mappings`, `query_queue`, `queries_made`; the driver's `iteration_count` | make_query, sync_step, resolve_conflicts, the refill and break of the driver loop |
| Other storage-proof analyses | `signature_proof_of_storage.py`, `Design/winning_set_analysis.py`, `random_range_test.py` | token lists | statistical experiments |
| Drivers | `analyze_connections.py`, `comprehensive_simulation.py`, `stress_test_connections.py`, `test_mapping_request.py` | none of their own | they configure and run the simulators |

### How the components interact

Everything runs in one thread, one round at a time. A round
(`simulate_round`) is three loops over the peer dictionary. The order is
the same in every round: established peers first, then joining peers.

1. **Discovery.** Each peer runs a mapping request for a random target. A
   result other than itself drives the self-initiated transition:
   Unknown or Identified becomes Pending; Prospect becomes Connected;
   Connected stays and is refreshed. A Pending result does nothing. An
   invite is queued in `invites_to_send`.
2. **Dispatch.** Every queued invite is appended to the receiver's
   `pending_invites`.
3. **Consume.** Each peer, in order, does three things:
   - It processes its inbox. For the sender, Pending becomes Connected;
     Identified or Unknown becomes Prospect; Connected is refreshed; a
     Prospect sender is ignored.
   - If it has at least 2 Connected peers, it appends an invite to the
     inbox of 2 of them, chosen at random.
   - It evicts connections above the bound.

The router reads other peers' Connected sets directly. Invites are the only
messages. Eviction deletes the record on the evicting side only.

### What is hard

- **Order inside a phase.** Every step changes shared state at once, so a
  peer visited later in a loop sees the changes of earlier peers. Spec
  4.5 asks for phase-boundary visibility instead.
- **One-sided relationships.** After an eviction, one side keeps the other
  Connected. Either side can be Pending with no timeout.
- **Truthiness of ids.** The id 0 is valid, but Python reads it as
  "no result".
- **Bucket arithmetic.** The policies use integer floors, a soft limit and
  fallbacks to random eviction.
- **Unreliable delivery.** The realistic variant loses invites.

### What makes each component correct

- DiscoveryRouter:
  - The walk never moves away from the target.
  - The result is the best terminal node of all walks.
  - The closest known peer is always a starting point.
- AdmissionProtocol:
  - Only the transitions of spec 4.3 happen.
  - A peer never records itself.
  - A relationship left Pending eventually resolves.
- EvictionPolicy:
  - The Connected count of every peer is within the bound when a round
    ends.
  - Within a bucket, the closest peers are kept.
  - No more than the excess is evicted.
- Engine:
  - A joining peer eventually connects.
  - Maintenance invites are consumed the next round.

## 2. Plan

Modules, in the order they are written:

1. `DistanceMetric`: pure operators (done).
2. `PeerLifecycle` + `MCPeerLifecycle`: the XOR simulator with uniform
   eviction, router and admission inside (done: safety, refinement,
   liveness and two violation runs).
3. `EvictionPolicy` + `PeerConnections`: the four eviction policies as
   operators, run as one peer's enforcement step, with
   `MCLifecycles` showing that the three full simulators refine the
   per-peer view (done).
4. `GradientRouter` + `GradientLifecycle`: the round of the ring-metric
   simulator and its class-based router (done).
5. `DiscoveryRouter` + `MCDiscoveryRouter`: the walk checked against a
   declarative reference over every Connected graph on 4 ids (done).
6. `AdmissionAbstract`: the per-pair transition table of spec 4.3, and
   `PeerLifecycle` shown to refine it via `INSTANCE ... WITH`.
7. Liveness: a joining peer eventually has a Connected peer (done, with
   the id-0 counterexample); Pending eventually resolves for every peer
   but 0 (done).
8. `LossyLifecycle`: the realistic variant, with loss and partial
   activation (done: safety and refinement in the combined lifecycle
   run). Its liveness is not yet checked.
9. `VoteSimulation`: the vote rounds, commit threshold and Byzantine
   votes (done).
10. `CompetitiveSync`: the signature-directed sync of a new node with
   conflict detection and majority voting (done: two violation runs).
11. `SignatureScan`: `find_tokens_by_signature`, shared by the two sync
   modules (done).
12. `NetworkAwareSync`: one trial of the network-aware sync (done: the
   loop-exit violation).

## 3. Modules

### DistanceMetric

- `XorDistance` (with `^^` from Bitwise) and `RingDistance`.
- `RingClass`: `_get_distance_class`.
- `LeadingZeros32`: `_count_leading_zeros`. It counts zeros in a 32-bit
  word whatever the configured width.

### DiscoveryRouter

Pure operators over a Connected graph `conn` (`conn[q]` is the set of
peers `q` holds as Connected):

- `Walk(conn, s, t, hops)`: `_recursive_search_with_hop_limit`. It stops
  when hops run out or the peer has no Connected peer, and steps to the
  Connected peer closest to `t` only when it is strictly closer than the
  current peer.
- `FindClosest`, `ClosestStart`, `RandomPool`, `RandomStarts`, `Lookup`:
  `simulate_mapping_request`. The starting points are the closest known
  peer (dropped when its id is 0) and up to 2 others sampled at random.
  A walk result of 0 is dropped, and the closest remaining result is
  returned.

`PeerLifecycle` calls `Lookup` with its own Connected graph `ConnGraph`.
`MCDiscoveryRouter` makes the graph its only variable, chosen in `Init`
among all 4096 irreflexive relations on the peers {0, 3, 5, 6} (3-bit
ids). It compares `Walk` against `DescentEnds`: the peers reachable from
the start along "strictly better and best" edges that have no such edge
out. The reachability uses `ConnectionsIn` from the Graphs module.

### PeerLifecycle

State:

| Variable | Code |
|---|---|
| `rel[p][q]` | the state of `q` in `p.known_peers`, with `"Unknown"` for no record |
| `inbox[p]` | the set of senders in `p.pending_invites` |
| `outbox` | `invites_to_send` |
| `phase`, `cursor` | which loop of `simulate_round` runs, and which peer it visits next |
| `maint` | the maintenance invites sent in the current phase 3; it exists only for `MaintenanceDeferred` |

Actions:

- `DiscoverFor(t)`: one iteration of the phase-1 loop for the random
  target `t`; `Discover` is its `\E t`. The mapping request `Lookup`
  and the greedy `Walk` are operators. The random starting points are
  `\E` choices. The target is a parameter so that fairness can name it.
- `Dispatch`: the phase-2 loop.
- `Consume`: one iteration of the phase-3 loop. The inbox is processed
  (`React`), 2 maintenance targets are sampled (`MaintenanceTargets`),
  and an excess subset is evicted (`Evictions`).

Abstractions:

- The inbox is a set. Handling two invites from the same sender in one
  pass ends in the same state as handling one.
- `last_heard_from` is left out. It is written and never read.
- The round counter and the metrics are left out. They do not affect
  control.
- The `in self.peers` tests are always true in the core, because peers are
  never removed.

### EvictionPolicy

Pure operators. `XxxEvictions(self, C, All)` is the set of sets that
`remove_excess_connections` may delete, for a peer `self` with Connected
set `C`, when `All` is the simulator's peer list. `{{}}` means nothing is
deleted. Several members are the outcomes of `random.sample`.

- `UniformEvictions`: `Peer.remove_excess_connections`.
- `StaticEvictions`: `DistanceOptimizedPeer`. It has:
  - the soft limit `StaticSoftMax`;
  - the geometric buckets, where `BucketLow` and `BucketHigh` are the
    floors of `int(max_distance * 2^k)`;
  - the targets `StaticTarget`;
  - the furthest-first bucket pass;
  - the random residual;
  - the cut of `to_remove` to the excess (`StaticPrecedes` orders the
    list).
- `PrefixEvictions`: `ImprovedDistanceOptimizedPeer`. It has 32-bit
  prefix buckets, weight tiers, targets scaled down when their sum is
  over the bound, the bucket pass and a random residual, and no cut.
- `GradientEvictions`: `GradientPeer`. `BudgetLeft` is recursive and
  follows `_calculate_distance_budgets`. `GradientPass` walks the classes
  from the furthest down.

The operators were compared with the Python classes for nine
configurations (3- and 4-bit ids, several peers and bounds). For every
Connected set, the set of outcomes `remove_excess_connections` produced
over 400 seeds equals the operator's value.

### PeerConnections

This is the abstract per-peer specification. Its state is `conn` (the
peer's Connected set) and `enforced` (its phase-3 step has run this
round). It has two actions:

- `Grow`: the set grows. This is the peer's own discovery, or the end of
  its settled period.
- `Enforce`: `process_invites` admits peers (`Admissible`), then the
  policy's `Evictions` trims the result.

`MCLifecycles` instantiates it for each of the first three peers of
the order:

- `conn <- ConnectedPeers(P)`;
- `enforced <- phase = "consume" /\ Pos(P) < cursor`.

`ConnectionsRefined` checks `PeerLifecycle => PeerConnections!Spec`, and
the same for `LossyLifecycle`.
This is what makes it sound to check the policies on one peer with
nine neighbours, a network the full model cannot reach. The last peer
of the order is left out. Its phase-3 step ends the round, and the state
it reaches looks the same as the initial state, so no state function
can say it has been trimmed. It runs the same `Consume` action as the
others.

### MCPeerAlgorithms

The static, prefix and gradient policies and the router check in one
run. A variable `policy` is chosen in `Init` and never changes. The
module holds three instances of `PeerConnections`, one per policy, and
an instance of `MCDiscoveryRouter` (with 3-bit ids, its graph being the
variable `graph`); only the chosen one moves. Each property is the
instance's property for the algorithms it is about (`ByPolicy`).

### GradientRouter

`simulate_mapping_request` of `GradientNetworkSimulator`, as pure
operators. Ring distances tie, for a target midway between two ids,
and Python's `min` then returns the first candidate in dictionary order.
That order is not tracked, so each operator returns the set of results a
tie allows.

- `GradientFindClosest`: `find_closest_peer_to_target`. It looks at the
  known peers of the target's distance class, then at the first
  non-empty class at offset 1, -1, 2 or -2, then at every known peer.
- `GradientClosestStart`: the closest peer, unless its id is 0.
- `GradientClassStarts`: up to 2 random Connected peers of the first of
  the classes `tc`, `tc+1`, `tc-1` that holds one besides the closest.
- `GradientWalk`: `_gradient_recursive_search`.
- `WalkEnds`, `FirstNearest`, `GradientLookup`: the responses (a falsy
  0 dropped) and the nearest of them. The closest start's response is
  listed first, so it wins a tie.

### GradientLifecycle

The same variables as `PeerLifecycle` (`rel`, `inbox`, `outbox`,
`phase`, `cursor`), and the same three actions, with these differences:

- `Init`: each joining peer's Identified set is the `close_count`
  established peers nearest on the ring (`ClosePeers`; a tie may go
  either way) plus a random sample of `distant_count` of the others.
- `Discover`: `GradientLookup` gives the result. Id 0 is ignored like
  `None`.
- `Consume`: the maintenance targets are 2 Connected peers of different
  classes when the peer has more than one class (`DiverseTargets`). The
  first pass of the code takes the first peer of each new class in
  `known_peers` order, which is not tracked. Eviction is
  `GradientEvictions`.

`MCLifecycles` runs it as its third simulator and instantiates
`PeerConnections` with the gradient policy for the first three peers of
the order (`GradientConnectionsOf1..3`). `FairSpec` adds weak fairness
of the round, and `MCGradientLifecycle` is the 2-bit instance of the
gradient joiner run.

### VoteSimulation

`src/Design/vote_simulation.py`, modelled from its code (the spec treats
it as an external collaborator).

| Variable | Code |
|---|---|
| `conn[n]` | `node.connections` |
| `part[n]` | `node.partition` |
| `byz` | the nodes with `is_byzantine` |
| `active`, `committed` | the nodes with `active` / `committed` set |
| `votes[n][m]` | `votes_received[m]` at `n`, `0` for no entry (votes are ±1, so the balance is the same) |
| `stopped` | `run_full_simulation` has broken out of its loop |

- `Init` is every outcome of setup: each node samples
  `min(connections_per_node, N-1)` peers (`SampledPeers`), any sampled
  edge may be mirrored (`SampledEdges`, `SetupConnections`), partitions of the sizes
  `_setup_partitions` computes, any `int(N * byzantine_ratio)` Byzantine
  nodes and any `starting_nodes` active nodes. Ratios are constants in
  percent; `int(N * ratio)` is `(N * pct) div 100`, which equals
  Python's float result for the ratios used here (0.5, 0.2).
- `Round` is one `run_simulation_step`: the vote messages of every
  sender (`VoteMessages`, one `random.sample` outcome per honest
  sender, every other node for a Byzantine one), their delivery
  (`Stored`: partition test, the loop's "Byzantine or connected" test,
  then `receive_vote`'s own), the +1 answers of committed honest
  receivers (`Answered`), the commits (`ShouldCommit`), and the stop test
  of `run_full_simulation`. The round is atomic because none of its
  loops depends on their order (see the module's header).
- `max_rounds` is not modelled: the liveness property is about the
  unbounded loop, which `max_rounds` only truncates.

`MCLiveness` checks the liveness questions in one run. `scenario` is
chosen in `Init` and never changes. Each value selects one `INSTANCE`
with its own constants, and the variables of the other component keep
a fixed idle value:
- `"forcing"`: `VoteSimulation` with 2 connections per node and 50%
  Byzantine nodes;
- `"complete"`: `VoteSimulation` with 3 connections per node and no
  Byzantine node;
- `"joiner"`: `PeerLifecycle` on the 2-bit liveness instance (see
  Bounds).

### LossyLifecycle

`RealisticNetworkSimulator` of `realistic_connection_analysis.py`. It
extends `PeerLifecycle` and reuses its router, `Request`, `React` and
uniform `Evictions`. Every probability of the code is an `\E` choice.

- `LossyInit` is `_initialize_network`. Each established peer picks
  `InitialCount` others (`min(max - 2, max(3, n // 4))`), or none when
  there are fewer others. `ReversePass` then walks the peers in
  insertion order and adds the reverse record while the other peer has
  fewer than `max_connections`. Joining peers get `InitialIdentified`
  Identified records, as in the fixed simulator.
- `LossyDiscover` is phase 1 for one peer of `active_peers`, a random
  half of the peers. The variable `requested` holds the peers already
  visited. The request may be lost, or run and fail its connection
  attempt; both leave the state alone. Otherwise it is `Request`.
- `LossyDispatch` is phase 2: any subset of the invites is delivered.
- `LossyConsume` is phase 3 for the peer at the cursor:
  `process_invites`, then at most one maintenance invite when the peer
  has 2 or more Connected peers (it may be skipped or lost), then
  `remove_excess_connections`.

`MCLifecycles` checks the three simulators in one run. A variable `sim`
is chosen in `Init` and never changes. `"fixed"` runs `PeerLifecycle`,
`"realistic"` runs `LossyLifecycle` and `"gradient"` runs
`GradientLifecycle`, on the same peers and constants. The refinement
`ConnectionsRefined` is written out as one initial condition and one
step (`ConnectionsInit`, `ConnectionsStep`) so that the eviction policy
of the abstract view can follow `sim`.

### CompetitiveSync

`competitive_sync_analysis.py`: a new node learns token -> transaction
mappings from a `CompetitiveNetwork` and settles conflicting answers by
vote. Tokens are small integers: only their order and their low chunk
(`Low`, `token & 0x3FF` with `ChunkBits` bits) matter to the code. A
transaction is `"canon"`, `"conflict"` or `"own"`.

- `FindTokensBySignature` (module `SignatureScan`, which
  `CompetitiveSync` extends) is `find_tokens_by_signature`:
  `BisectLeft`, then `ScanAbove` from `pos + 1` for the first
  `AboveCount` chunks and `ScanBelow` from `pos - 1` for the rest,
  continuing the chunk index.
- `Init` is the network and the node after
  `receive_mapping(initial_token, initial_tx, "self")`. Each peer holds
  `HeldCount` tokens (`random.sample`) and maps each to the canonical
  transaction or, for a token of `ConflictTokens`, possibly the
  conflicting one.
- `Respond(p, lookup, c)` is `handle_query_with_peer_diversity` when
  peer `p` answers with signature chunks `c`.
- The node state is `disc` (the transaction of
  `discovered_mappings[t]`), `obj` (the live `TokenMapping` of each
  transaction of `t`: votes and voters) and `conf` (the keys of
  `conflicted_mappings`). `ReceiveMapping`, `AddVote`, `NewMapping` and
  `ResolveConflictsByVoting` follow the methods line by line, including
  the truthiness test on `source_peer`. Sources are tagged: a peer id,
  `"voter_k"` or `"self"`.
- `SyncStep` is one pass of the while loop of
  `analyze_sync_to_competitive_threshold`: a query for a discovered
  token to any peer with any signature, `receive_mapping` of every
  answer, and, when the answers made a new conflict,
  `query_for_voting(t, 3)` for every conflicted token (`VoteLoop`, with
  the answers of each query chosen among `VoteOutcomes(t)`) followed by
  `resolve_conflicts_by_voting`. `heard` records every answer
  `<<token, peer, transaction>>`; `queries` is the driver's
  `queries_made`. The candidate list is modelled as any discovered
  token: the distance test that adds answered tokens to it holds with
  probability 2^-224, so in practice it is refilled by `random.sample`
  of the discovered tokens.

### NetworkAwareSync

`network_aware_synchronization.py`: one trial of
`analyze_network_aware_sync`. Tokens and the address are 3-bit integers.
The bounds `1 << 32` (queue filter) and `1 << 40` (refill filter) are
the constants `NearBound` and `RefillBound`. The network maps each token
to one transaction (`"net"`); the node's own mapping is `"own"`, and
the newest (`Stamp`).

| Variable | Code |
|---|---|
| `disc[t]` | the transaction of `discovered_mappings[t]`, `"missing"` for none |
| `conf` | `conflicted_mappings` |
| `queue` | `query_queue` |
| `queries` | `queries_made` |
| `iter` | the driver's `iteration_count` |
| `pc` | where the driver is: first query, loop, final resolution, done |

- The node is handled as a record `[d, cf, q, n]` so that a whole
  `make_query` (`MakeQuery`: count, `HandleQuery`, then
  `ProcessMappings` with `DetectConflicts` and `QueueIfNear` per
  mapping, in response order) is one function of the draws of
  `handle_query`: the density sample and the signature
  (`QueryChoices`).
- `FirstQuery`, `LoopIteration` (a `sync_step`, a refill from
  `NearAddress`, or the `break`, each followed by the periodic
  `resolve_conflicts` when more than 5 tokens conflict), `LoopExit`
  and `FinalResolve` are the driver. `ResolveConflicts` takes the
  conflicted tokens in any order, since the code iterates over a set.
- `new_discoveries` and the other step statistics are left out: no
  caller reads them.
- In this network no token is ever conflicted. The network holds one
  mapping per token and never returns the own token, so the conflict
  branch and both resolutions run with nothing to do. The model keeps
  them as the code has them.

## 4. Runs

| Run | cfg | Expect | Checks |
|---|---|---|---|
| `lifecycle_safety` | `MCLifecycles.cfg` | pass | `SimTypeOK`, `FixedDegreeBound`, `NoSelfRelationship`, `ConnectionsRefined` |
| `peer_algorithms` | `MCPeerAlgorithms.cfg` | pass | `TypeOK`, `BoundAfterEnforce`, `NoOverEviction`, `ClosestKeptInBucket`, `FurthestClassesFirst`, `RouterMatchesReference` |
| `liveness` | `MCLiveness.cfg` | pass | `TypeOK`, `NoForcedCommit`, `EventuallyAllCommit`, `JoinerWithNonZeroConnects`, `PendingResolves` |
| `lifecycle_joiner_zero_id` | `MCPeerLifecycleZeroIdLiveness.cfg` | violation | `JoinerConnects` |
| `gradient_joiner_zero_id` | `MCGradientJoinerZeroId.cfg` | violation | `GradientJoinerConnects` |
| `lifecycle_maintenance_same_round` | `MCPeerLifecycleMaintenance.cfg` | violation | `MaintenanceDeferred` |
| `connections_prefix_over_eviction` | `MCPeerConnectionsPrefixOverEviction.cfg` | violation | `NoOverEviction` |
| `connections_gradient_bound` | `MCPeerConnectionsGradient.cfg` | violation | `BoundAfterEnforce` |
| `vote_byzantine_delivery` | `VoteByzantineDelivery.cfg` | violation | `ByzantineVotesDelivered` |
| `competitive_voting_dead` | `MCCompetitiveSyncVotersCanAnswer.cfg` | violation | `VotersCanAnswer` |
| `competitive_majority` | `MCCompetitiveSyncMajorityOfDistinctPeers.cfg` | violation | `MajorityOfDistinctPeers` |
| `network_aware_stall` | `NetworkAwareSyncTarget.cfg` | violation | `ReachesTargetOrLimit` |

- **`FixedDegreeBound`.** In the fixed simulator, after a peer's own
  phase-3 step, and until the next round's discoveries, the peer has at
  most `MaxConnections` Connected. This holds although later peers keep
  putting invites in its inbox. An eviction that stops one short breaks
  it.
- **`NoSelfRelationship`.** No peer ever has a record for itself. Walks do
  reach the requester, and only the `!= peer.id` test stops it. This
  holds in the fixed, the realistic and the gradient simulator.
- **`ConnectionsRefined`.** Every peer's Connected set changes only in
  the peer's own steps: it grows in discovery, and in phase 3 it is
  processed and then trimmed. This holds in the fixed and the
  realistic XOR simulator, against `PeerConnections` with the uniform
  policy, and in the gradient simulator with the gradient policy. In
  the realistic simulator it holds under every pattern of lost
  requests, failed attempts, lost invites and maintenance choices. A variant
  that evicts before processing the inbox breaks it at once.
- **`JoinerConnects`.** This is the joining scenario of spec 8: a
  joining peer with 1 Identified relation reaches Connected. TLC finds a
  joining peer whose one Identified peer is 0. The closest known peer 0
  fails the truthiness test in `simulate_mapping_request`, and 0 is
  never in the random pool. So the peer has no starting point, sends no
  invite, no peer ever learns of it, and it never connects.
- **`GradientJoinerConnects`.** The same joining scenario in the
  gradient simulator. Joining peer 1 of the 2-bit ring is nearest to 0,
  so `_initialize_network` tells it of 0 only. The mapping request drops
  the closest start 0 as falsy, and its class starts come from
  `distance_classes`, which holds only Connected peers. Every request
  returns `None`, and peer 1's record of 0 stays Identified for ever,
  however fair the rounds.
- **`JoinerWithNonZeroConnects`.** With id 0 set apart, a joining peer
  that knows another peer does connect. The route is its invite, the
  receiver's Prospect record, the receiver's own discovery of it, and
  the invite back. A `process_invites` without the branch for an unknown
  sender leaves the receiver with no record, and the property fails.
- **`PendingResolves`.** Every Pending record of a peer other than 0 is
  eventually left. Nothing times Pending out: only the other peer's
  invite ends it. `process_invites` ignores an invite from a Prospect
  sender, a discovery of a Pending peer sends nothing, and eviction
  deletes one side only, so it is not obvious. It holds because the
  other peer, holding the first as Prospect or with no record, sends its
  own invite once it discovers it. Peer 0 is the exception: when it is
  Pending at a peer that holds it as Prospect, that peer can never
  discover id 0, and peer 0 waits forever. Without the branch for an
  unknown sender in `process_invites` the property fails.
- **`MaintenanceDeferred`.** This is spec 4.5. It is violated in 9 steps:
  a peer later in the order consumes a maintenance invite in the round it
  was sent.
- **`BoundAfterEnforce`.** After its own eviction a peer is within its
  policy's bound: `max_connections`, or the soft maximum of the bucketed
  policies. Static and prefix pass. Gradient eviction keeps
  5 peers, `{1, 8, 11, 13, 15}`, from all nine with a bound of 3. It
  only evicts above the class budgets of `_calculate_distance_budgets`,
  which are 5, 5, 1, 1, 1 for `max_connections` 3: 13 in all.
- **`NoOverEviction`.** From every Connected set the peer can hold, every
  eviction leaves `min(count, max_connections)`. Static holds, thanks to
  its cut to the excess, and so does gradient, which caps each class's
  removal by the excess left. Prefix breaks it: from
  `{2, 3, 8, 11, 13, 15}` it evicts 4 and keeps 2.
- **`ClosestKeptInBucket`.** This is spec 8. When the bucket targets
  alone bring the set within the bound, every evicted peer is further
  than every kept peer of its bucket. It holds for both bucketed
  policies. When the targets are not enough, the random residual may
  evict anyone, as spec 4.4 allows.
- **`FurthestClassesFirst`.** This is spec 4.4 for the gradient policy:
  eviction goes furthest class first. Whenever a peer of some class is
  evicted, every further class is left within its budget. A loop that
  visits the classes nearest first breaks it.
- **`RouterMatchesReference`.** For every graph, start and target, the
  walk ends at the one local minimum that greedy descent from the start
  reaches. It never stops early, and it never follows a Connected peer
  that is not the closest to the target. Connected records are
  one-sided after evictions, so asymmetric graphs are included. A walk
  that steps to the peer closest to the current peer fails at once.
- **`NoForcedCommit`.** Under the forcing attack (Byzantine nodes vote
  +1, honest nodes -1 until they commit), 2 Byzantine nodes out of 4
  never make any node commit, on any setup graph. A first commit needs
  a balance above 2, and until then only Byzantine nodes give +1. The
  threshold `>= 2` breaks it.
- **`ByzantineVotesDelivered`.** The round loop says "Byzantine votes
  always go through" and skips the connection test for them, but
  `receive_vote` repeats it. TLC finds Byzantine node 2 voting to node
  3, whose connections are {0, 1}: the vote is dropped. Byzantine
  broadcasts reach only the nodes connected to the Byzantine node.
- **`VotersCanAnswer`.** `query_for_voting` is there "to gather votes
  for a conflicted token": when some peer holds a conflicted token, some
  voting query should get its mapping. TLC finds a conflicted token 2
  held by both peers for which every peer and signature answer nothing.
  The scans start at `pos + 1` and `pos - 1`, and `pos` is the position
  of the token itself, so it is never returned. Voting never collects a
  vote, and `analyze_majority_voting_effectiveness` never detects a
  conflict.
- **`MajorityOfDistinctPeers`.** A conflict is resolved to the
  transaction that a strict majority of the distinct answering peers
  sent. TLC finds, in 4 steps, peer 0 answering `canon` for token 2
  twice and peer 1 answering `conflict` once. Peer 0 fails the
  truthiness test, so its first answer records no voter, and its second
  answer adds a vote (`add_vote` then records 0, so peer 0 counts at
  most twice). The next new conflict triggers
  `resolve_conflicts_by_voting`, which resolves token 2 to `canon` by 2
  votes of 3 while the peers split 1:1.
- **`EventuallyAllCommit`.** With every pair connected, no Byzantine
  node and no partition, every node commits eventually. Committed nodes
  stop sending, so a node that has not heard from one yet relies on the
  +1 answer of `respond_to_vote`. A version that answers only when the
  vote itself was stored leaves the last node waiting forever.
- **`ReachesTargetOrLimit`.** The sync loop of
  `analyze_network_aware_sync` is commented "Continue until target
  coverage or limits reached". TLC finds a trial that leaves the loop
  after one query, with 2 of 4 mappings and neither limit reached.
  The answer held no token within `NearBound` of the address, so the
  queue is empty. No discovered token lies within `RefillBound`, so the
  refill takes the `break`. In the code the bounds are `2^32` and
  `2^40` of a `2^256` space, so this is what happens in practice after
  the first query: a run of the code on a 2000-token network made
  exactly one query in each of 20 trials. The coverage the analysis
  reports says nothing about the strategy.

### Bounds

`PeerLifecycle`:

- The address space is 3 bits (ids 0..7), so every target id is tried.
- There are 4 peers:
  - established peers {0, 3, 5}, in the order 5, 0, 3;
  - joining peer 6, with 1 Identified established peer (all 3 choices
    are initial states).
- `MaxConnections` is 2. The established peers start at the bound, so
  any admission of the joining peer forces an eviction.
- Id 0 is one of the peers, so the truthiness paths are reached.
- `MaxHops` is 10, as in the code. Each hop strictly decreases the XOR
  distance, so with 4 peers the cap is never reached. The code's cap is
  likewise unreachable when there are fewer than 11 peers.
- There is no round counter, so the state space is finite: 55,493 states
  of the fixed simulator, with a diameter of 45.
- The realistic simulator runs on the same peers with `InitialIdentified`
  2. With `MaxConnections` 2, `InitialCount` is 0: the established peers
  start unconnected, and peer 6 knows two of them. The fixed and the
  realistic simulator together reach 87,854 states, and with the
  gradient simulator the combined run has 138,324. Instances in which the realistic simulator must evict
  (5 peers, or `MaxConnections` 3 with 2 joining peers) have more than
  1.3 million states and do not finish in minutes, so its eviction is
  checked only in the fixed simulator.
- The liveness runs use a 2-bit instance: established peers {0, 1} in
  the order 1, 0, joining peer 2, and `MaxConnections` 1, so an
  established peer goes over the bound when the joining peer connects
  (255 states; the `liveness` run, with the two vote scenarios, has
  19,983). The 3-bit instance has 55,493 states, and TLC's fairness
  checks over it do not finish in minutes.

`GradientLifecycle`:

- The same peers, order, bound and 3-bit ring as `PeerLifecycle`, with
  `InitialIdentified` 2. Peer 6 then knows its nearest peer 5 and one of
  0 and 3, so both parts of the initial sample occur: 50,470 states,
  checked as the third simulator of `MCLifecycles`.
- The joiner run uses established peers {0, 3} in the order 3, 0,
  joining peer 1, `InitialIdentified` 1 and `MaxConnections` 1 on a
  2-bit ring. Peer 1 is at ring distance 1 from 0 and 2 from 3, so its
  one Identified peer is 0.

`PeerConnections`:

- Peer 0 in a 4-bit space, with the nine others
  {1, 2, 3, 4, 6, 8, 11, 13, 15} and `MaxConnections` 3.
- The static policy has 8 buckets, 4 of them non-empty (1, 2, 2 and 4
  peers), all with target 1 and soft limit 5. So both the random residual
  (all four buckets present) and the cut to the excess (two buckets
  present) happen.
- The prefix policy has the same four buckets (prefix lengths 28..31).
- The gradient policy has ring classes 1..4.
- Every subset of the nine peers is reachable. With the three policies
  in one run, that gives 2,472 states; with the router's 4096 graphs,
  the `peer_algorithms` run has 6,568.

`MCDiscoveryRouter`:

- 4 peers including 0, 3-bit ids, every target and every Connected
  graph: 4096 states. A descent is at most 3 hops, so `MaxHops = 10`
  never binds, as in the simulator with fewer than 11 peers.

`VoteSimulation`:

- 4 nodes (`range(4)`). The forcing scenario and the delivery run use 2 sampled connections per
  node, every mirroring outcome (up to 4096 graphs), 2 Byzantine nodes
  of any choice and 2 starting nodes of any choice: 19,248 states. The
  forcing attack needs 3 Byzantine +1 votes at one node, so 2 is the
  largest count at which it must fail.
- The complete scenario uses 3 connections per node, which makes the
  graph complete: 480 states.

`NetworkAwareSync`:

- 5 network tokens {1, 2, 3, 5, 6} of a 3-bit space, a sample of 4 per
  query, own token 4, address 0, target 4, 1-bit chunks and 4-chunk
  signatures. The filters keep XOR distances below 2 (queue) and 4
  (refill): a quarter and a half of the space, against `2^-224` and
  `2^-216` in the code. So the break shows even though near tokens are
  far likelier here. With the address 0 the own token is outside the
  refill filter, as it is in the code but with probability `2^-216`.
  The whole trial has 653 states.

`CompetitiveSync`:

- 5 network tokens {1, 2, 3, 5, 6}, 2 of them with a conflicting
  transaction, the node's own token 4, 2 peers (0 and 1) holding 4
  tokens each, 1-bit chunks and 4-chunk signatures (2 above, 2 below),
  3 voters, target 5. Every peer, held set, conflict assignment and
  signature is enumerated. Peer 0 is needed for the truthiness case and
  2 peers for a split; 1-bit chunks let a signature select or skip any
  token. The voting violation appears after 2,972 states; the majority
  violation after 37,235 states in under 2 minutes.

### Fairness

- `liveness` assumes weak fairness of the vote round in the
  complete scenario, `WF_vars(scenario = "complete" /\ Next)`; the
  forcing scenario is checked for safety only.
  `run_full_simulation` keeps running rounds until its stop test, and
  every round draws each `random.sample` afresh with every outcome
  possible. So when some outcome would change the state, one that does
  is drawn eventually, with probability 1. A round whose sample changes
  nothing is a stuttering step, so weak fairness of `Next` says exactly
  this. Without fairness the property fails: the round can repeat the
  same useless samples forever.
- The lifecycle liveness runs (the joiner scenario of `liveness`, and
  `lifecycle_joiner_zero_id`) assume `WF_vars(Next)` and strong fairness
  of `DiscoverFor(t)` at the visit of peer `p`, for each pair `<<p, t>>`
  of `FairTarget`:
  - a joining peer asking for an established id;
  - an established peer asking for a joining id.

  Each request draws its target with `random.randint` over the id
  space, and each peer is visited once per round. So every target comes
  up at every peer's visit infinitely often, with probability 1. The
  visit is enabled only while the cursor is at `p`, hence strong
  fairness. The code justifies this fairness for every pair; the model
  assumes it only for the pairs above. Assuming less fairness keeps a
  passing result valid, and each strong-fairness conjunct doubles TLC's
  tableau, which makes all 32 pairs impossible to check.
- `gradient_joiner_zero_id` assumes only `WF_vars(Next)`:
  `run_simulation` calls `simulate_round` every round. No fairness of
  the random targets is needed, because no target gives the stuck peer
  a start.

## 5. Not modelled, and why

- Metrics, printing and CLI code: they read state only.
- `signature_proof_of_storage.py`, `Design/winning_set_analysis.py` and
  `random_range_test.py`: statistical experiments over 256-bit random
  tokens whose questions are about distributions, out of TLC's reach.
  `winning_set_analysis.py` inserts the lookup token before it scans, so
  there the `pos + 1` / `pos - 1` start is intended. That supports
  reading the same start in the two sync files as copied from it.
- The bucketed simulators' rounds (`DistanceOptimizedSimulator` and the
  improved one) are not modelled as lifecycles. Their soft maximum is
  `max + 2`, so eviction needs at least 5 peers. A 5-peer instance had
  more than 350,000 states after 6.5 minutes, and a 4-peer one never
  evicts. Their eviction policies are checked per peer in
  `PeerConnections`.
- `simulate_coordinated_attack` in `comprehensive_simulation.py`
  injects attackers with mutual Prospect records mid-run. `spec.md`
  puts attack and churn wrappers out of scope, and the question needs
  5 or more peers and strong-fairness liveness, which does not finish.
- In `competitive_sync_analysis.py`, `calculate_competitive_score`,
  `analyze_competitive_density_requirements` and
  `analyze_majority_voting_effectiveness` only measure and print. The
  first two pass unsorted lists to the bisect (a hazard); the last
  repeats the voting queries that `VotersCanAnswer` shows can never
  answer.
- The drivers: they configure the simulators and add no operation of
  their own.
- The `all_peers is None` and `except` fallbacks of the bucketed policies
  are not modelled. The simulators always pass the peer list, and the
  failing computations need a peer list holding only the peer itself.
- The liveness of the realistic simulator: a lost invite leaves its
  sender Pending for good, and whether the joining peer still connects
  depends on probabilities. No tractable instance makes the question
  interesting.
- The "Leave room for growth" comment of `num_initial_connections`
  (`realistic_connection_analysis.py:35`) qualifies how many peers each
  established peer picks. The reverse pass is limited only by "if space
  available", so the code claims no bound of `max - 2` on the initial
  Connected count, and none is checked.
- `LossyLifecycle` assumes `max_connections >= 2`. Below it,
  `random.sample` gets a negative count and raises.
- Two divergences are recorded as hazards without a run:
  - `GradientPeer.find_closest_peer_to_target` starts from the target's
    distance class. Peer 6 knowing {0, 5} starts from 0 for target 4,
    though 5 is next to it (spec 4.2).
  - The prefix policy measures prefixes in a 32-bit word, so the weight
    tiers of spec 4.4 never apply below 8-bit ids.
- `GradientLifecycle` assumes `initial_identified_peers >= 1`. With 0,
  `_initialize_network` calls `random.sample` with a negative count and
  raises before any state exists.
- `bidirectional_prob`, `max_rounds` and the statistics of the vote
  simulation: the probability only decides which mirrored edges exist,
  and every outcome is an initial state.
