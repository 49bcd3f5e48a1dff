-------------------------- MODULE PeerConnections --------------------------
(***************************************************************************)
(* One peer's Connected set across rounds, for each eviction policy.      *)
(* Between two of its own phase-3 steps a peer's Connected set only       *)
(* grows: its discovery may complete a Prospect, and processing its inbox *)
(* completes Pending peers.  Nothing else removes a Connected record, so  *)
(* a round is a Grow step followed by the peer's Enforce step.  The       *)
(* Connected set of a peer of PeerLifecycle is shown to behave this way   *)
(* (see MCPeerLifecycle), so what holds here holds there.                 *)
(***************************************************************************)
EXTENDS EvictionPolicy

CONSTANTS
    Self,            \* the peer's id
    AllPeers,        \* list(self.peers.keys()), Self included
    Policy,          \* "uniform", "static", "prefix" or "gradient"
    InitialConnected \* the Connected sets _initialize_network can give Self

ASSUME /\ Self \in AllPeers
       /\ AllPeers \subseteq IdSpace
       /\ Policy \in {"uniform", "static", "prefix", "gradient"}
       /\ InitialConnected \subseteq SUBSET (AllPeers \ {Self})

VARIABLES
    conn,      \* the peers Self has in state Connected
    enforced   \* TRUE right after Self's remove_excess_connections

vars == <<conn, enforced>>

\* remove_excess_connections of the simulator class that runs Policy.
Evictions(C) ==
    CASE Policy = "uniform"  -> UniformEvictions(Self, C, AllPeers)
      [] Policy = "static"   -> StaticEvictions(Self, C, AllPeers)
      [] Policy = "prefix"   -> PrefixEvictions(Self, C, AllPeers)
      [] Policy = "gradient" -> GradientEvictions(Self, C, AllPeers)

Init ==
    /\ conn \in InitialConnected
    /\ enforced = FALSE

\* Mutation of Admissible: the peer's own id is not excluded.
AdmissibleWithSelf == SUBSET (AllPeers \ conn)

\* Peers Self may newly hold as Connected.
Admissible == SUBSET (Others(Self, AllPeers) \ conn)

\* Self's phase-1 step, where a discovered Prospect becomes Connected, or
\* any step that ends Self's settled period; the set only grows.
Grow ==
    /\ \E A \in Admissible : conn' = conn \cup A
    /\ enforced' = FALSE

\* Self's phase-3 step: process_invites completes Pending senders, then
\* remove_excess_connections trims the result.
Enforce ==
    /\ ~enforced
    /\ \E A \in Admissible :
          \E X \in Evictions(conn \cup A) : conn' = (conn \cup A) \ X
    /\ enforced' = TRUE

Next == Grow \/ Enforce

Spec == Init /\ [][Next]_vars

-----------------------------------------------------------------------------

TypeOK ==
    /\ conn \subseteq Others(Self, AllPeers)
    /\ enforced \in BOOLEAN

\* The bound each policy promises once it has run.
Bound ==
    CASE Policy \in {"uniform", "gradient"} -> MaxConnections
      [] Policy = "static"                  -> StaticSoftMax
      [] Policy = "prefix"                  -> PrefixSoftMax

(* After the peer's own remove_excess_connections its Connected count is  *)
(* within the policy's bound (max_connections, or the soft maximum of the *)
(* bucketed policies, whose eviction only starts above it).               *)
BoundAfterEnforce == enforced => Cardinality(conn) <= Bound

(* remove_excess_connections never evicts below max_connections: from    *)
(* any Connected set the peer can hold before its phase-3 step, every     *)
(* eviction the policy may choose leaves exactly max_connections when     *)
(* there were more, and everything when there were fewer (the static      *)
(* policy cuts its list to the excess, "Ensure we don't remove too many"). *)
NoOverEviction ==
    ~enforced =>
        \A X \in Evictions(conn) :
            Cardinality(conn \ X) >= Smaller(Cardinality(conn), MaxConnections)

\* The bucket a peer falls in, and the bucket's target, for the bucketed
\* policies.
BucketOf(q) ==
    IF Policy = "static" THEN StaticBucket(Self, AllPeers, q) ELSE PrefixLen(Self, q)

BucketIds ==
    IF Policy = "static" THEN 0..(NumBuckets(Self, AllPeers) - 1)
    ELSE DOMAIN PrefixTargets(Self, AllPeers)

BucketTarget(b) ==
    IF Policy = "static" THEN StaticTarget(b, NumBuckets(Self, AllPeers))
    ELSE PrefixTargets(Self, AllPeers)[b]

\* The bucket targets alone bring C within max_connections, so no random
\* residual eviction is needed (the non-degenerate case of spec section 8).
NonDegenerate(C) ==
    MapThenSumSet(LAMBDA b : Smaller(Cardinality({x \in C : BucketOf(x) = b}),
                                    BucketTarget(b)),
                  BucketIds) <= MaxConnections

(* Within a bucket the bucketed policies keep the closest peers: when the *)
(* targets alone suffice, every peer optimize_connections may evict is    *)
(* further from Self than every peer it keeps in the same bucket.         *)
ClosestKeptInBucket ==
    /\ ~enforced
    /\ Policy \in {"static", "prefix"}
    /\ NonDegenerate(conn)
    => \A X \in Evictions(conn) :
          \A x \in X, y \in conn \ X :
              BucketOf(x) = BucketOf(y) => Dist(Self, y) < Dist(Self, x)

(* Spec 4.4: gradient eviction proceeds furthest class first.  Whenever  *)
(* remove_excess_connections evicts a peer of some class, every further   *)
(* class it leaves behind is within its budget: no nearer peer goes while *)
(* a further class is still over budget.                                  *)
FurthestClassesFirst ==
    ~enforced /\ Policy = "gradient" =>
        \A X \in Evictions(conn) : \A x \in X :
            \A c \in (RingClassOf(Self, x) + 1)..Bits :
                Cardinality({y \in conn \ X : RingClassOf(Self, y) = c}) <= ClassBudget(c)

=============================================================================
