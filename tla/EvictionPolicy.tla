--------------------------- MODULE EvictionPolicy ---------------------------
(***************************************************************************)
(* The four ways the simulators bring a peer's Connected set back under   *)
(* its bound.  Each XxxEvictions(self, C, All) is the set of sets of      *)
(* peers the code may delete from known_peers, for the peer self with     *)
(* Connected set C when All is list(self.peers.keys()); a single {{}}     *)
(* means nothing is evicted, several members are the random choices.      *)
(***************************************************************************)
EXTENDS Naturals, FiniteSets, FiniteSetsExt, DistanceMetric

CONSTANT MaxConnections   \* max_connections of the peer

\* Python max(a, b) and min(a, b) on integers
Larger(a, b)  == IF a >= b THEN a ELSE b
Smaller(a, b) == IF a <= b THEN a ELSE b

Others(self, All) == All \ {self}

Dist(self, q) == XorDistance(self, q)

\* The k peers of S furthest from self (distinct ids have distinct XOR
\* distances from self, so the choice is deterministic).
Furthest(self, S, k) ==
    {x \in S : Cardinality({y \in S : Dist(self, y) > Dist(self, x)}) < k}

-----------------------------------------------------------------------------
(* Uniform random: Peer.remove_excess_connections *)

UniformEvictions(self, C, All) ==
    IF Cardinality(C) <= MaxConnections THEN {{}}
    ELSE kSubset(Cardinality(C) - MaxConnections, C)

-----------------------------------------------------------------------------
(* Static distance buckets: DistanceOptimizedPeer *)

StaticSoftMax == MaxConnections + Larger(2, MaxConnections \div 4)

NumBuckets(self, All) == Smaller(8, Cardinality(Others(self, All)))

MaxDistance(self, All) ==
    IF Others(self, All) = {} THEN 1
    ELSE Max({Dist(self, q) : q \in Others(self, All)})

\* Bucket bounds int(max_distance * 2^(i-n+1)) and int(max_distance *
\* 2^(i-n+2)); the exponents are never positive, so each is a floor division.
BucketLow(i, n, md)  == IF i = 0 THEN 0 ELSE md \div 2^(n - 1 - i)
BucketHigh(i, n, md) == IF i = n - 1 THEN md ELSE md \div 2^(n - 2 - i)

\* The first bucket whose closed range holds the peer's distance.
StaticBucket(self, All, q) ==
    LET n  == NumBuckets(self, All)
        md == MaxDistance(self, All)
    IN  Min({i \in 0..(n - 1) : BucketLow(i, n, md) <= Dist(self, q)
                                /\ Dist(self, q) <= BucketHigh(i, n, md)})

\* max(1, int(2^(n-i-1) / (2^n - 1) * max_connections))
StaticTarget(i, n) == Larger(1, (2^(n - i - 1) * MaxConnections) \div (2^n - 1))

\* Mutant: each bucket sheds its closest peers instead of its furthest.
StaticBucketPassClosestFirst(self, C, All) ==
    LET n == NumBuckets(self, All)
        InB(b) == {x \in C : StaticBucket(self, All, x) = b}
        Closest(S, k) ==
            {x \in S : Cardinality({y \in S : Dist(self, y) < Dist(self, x)}) < k}
    IN  UNION {Closest(InB(b), Cardinality(InB(b)) - StaticTarget(b, n)) :
                  b \in 0..(n - 1)}

\* Bucket pass of optimize_connections: the furthest peers above the
\* target of each bucket.
StaticBucketPass(self, C, All) ==
    LET n == NumBuckets(self, All)
        InB(b) == {x \in C : StaticBucket(self, All, x) = b}
    IN  UNION {Furthest(self, InB(b), Cardinality(InB(b)) - StaticTarget(b, n)) :
                  b \in 0..(n - 1)}

\* to_remove is listed bucket by bucket, furthest first in each bucket.
StaticPrecedes(self, All, y, x) ==
    \/ StaticBucket(self, All, y) < StaticBucket(self, All, x)
    \/ /\ StaticBucket(self, All, y) = StaticBucket(self, All, x)
       /\ Dist(self, y) > Dist(self, x)

\* Mutant: to_remove returned whole, without the cut to the excess.
StaticOptimizeUncut(self, C, All) ==
    LET excess  == Cardinality(C) - MaxConnections
        removed == StaticBucketPass(self, C, All)
        residual == excess - Cardinality(removed)
    IN  IF Cardinality(All) <= 1 \/ Cardinality(C) <= MaxConnections THEN {{}}
        ELSE IF residual > 0
        THEN {removed \cup R : R \in kSubset(residual, C \ removed)}
        ELSE {removed}

\* optimize_connections: the bucket pass, a random residual when it falls
\* short, and the list cut to the excess.
StaticOptimize(self, C, All) ==
    LET excess  == Cardinality(C) - MaxConnections
        removed == StaticBucketPass(self, C, All)
        residual == excess - Cardinality(removed)
    IN  IF Cardinality(All) <= 1 \/ Cardinality(C) <= MaxConnections THEN {{}}
        ELSE IF residual > 0
        THEN {removed \cup R : R \in kSubset(residual, C \ removed)}
        ELSE {{x \in removed :
                 Cardinality({y \in removed : StaticPrecedes(self, All, y, x)}) < excess}}

\* Mutant: the soft-limit test lets one connection too many through.
StaticEvictionsSoftOffByOne(self, C, All) ==
    IF Cardinality(C) <= StaticSoftMax + 1 THEN {{}} ELSE StaticOptimize(self, C, All)

\* DistanceOptimizedPeer.remove_excess_connections(all_peer_ids)
StaticEvictions(self, C, All) ==
    IF Cardinality(C) <= StaticSoftMax THEN {{}} ELSE StaticOptimize(self, C, All)

-----------------------------------------------------------------------------
(* Prefix buckets: ImprovedDistanceOptimizedPeer *)

PrefixSoftMax == MaxConnections + Larger(2, MaxConnections \div 3)

\* min(_count_leading_zeros(distance), 31)
PrefixLen(self, q) == Smaller(LeadingZeros32(Dist(self, q)), 31)

\* Weight tiers for a 32-bit address space.
PrefixWeight(b) == CASE b >= 24 -> 4 [] b >= 16 -> 3 [] b >= 8 -> 2 [] OTHER -> 1

\* calculate_routing_distribution: targets for the non-empty buckets,
\* scaled down when they add up to more than max_connections.
PrefixTargets(self, All) ==
    LET B     == {PrefixLen(self, q) : q \in Others(self, All)}
        total == MapThenSumSet(PrefixWeight, B)
        raw   == [b \in B |-> Larger(1, (PrefixWeight(b) * MaxConnections) \div total)]
        sum   == MapThenSumSet(LAMBDA b : raw[b], B)
    IN  [b \in B |-> IF sum > MaxConnections
                     THEN Larger(1, (raw[b] * MaxConnections) \div sum)
                     ELSE raw[b]]

\* optimize_connections_improved: the furthest peers above each target,
\* then a random residual; the list is not cut to the excess.
PrefixOptimize(self, C, All) ==
    LET InB(b)  == {x \in C : PrefixLen(self, x) = b}
        removed == UNION {Furthest(self, InB(b),
                                   Cardinality(InB(b)) - PrefixTargets(self, All)[b]) :
                            b \in DOMAIN PrefixTargets(self, All)}
        additional == Cardinality(C \ removed) - MaxConnections
    IN  IF Cardinality(C) <= MaxConnections THEN {{}}
        ELSE IF additional > 0
        THEN {removed \cup R : R \in kSubset(additional, C \ removed)}
        ELSE {removed}

\* ImprovedDistanceOptimizedPeer.remove_excess_connections(all_peer_ids)
PrefixEvictions(self, C, All) ==
    IF Cardinality(C) <= PrefixSoftMax THEN {{}} ELSE PrefixOptimize(self, C, All)

-----------------------------------------------------------------------------
(* Gradient ring classes: GradientPeer *)

RingClassOf(self, q) == RingClass(RingDistance(self, q))

\* allocation = max(1, remaining // 3) for class 0, max(1, remaining // 2^c)
ClassAllocation(c, remaining) ==
    IF c = 0 THEN Larger(1, remaining \div 3) ELSE Larger(1, remaining \div 2^c)

\* _calculate_distance_budgets: budget left before class c is allocated.
RECURSIVE BudgetLeft(_)
BudgetLeft(c) ==
    IF c = 0 THEN MaxConnections * 5
    ELSE LET prev == BudgetLeft(c - 1)
         IN  IF prev = 0 THEN 0 ELSE Larger(0, prev - ClassAllocation(c - 1, prev))

\* distance_class_budgets.get(c, 1): classes the loop never reached get 1.
ClassBudget(c) ==
    IF c <= Bits /\ BudgetLeft(c) > 0
    THEN Smaller(ClassAllocation(c, BudgetLeft(c)), BudgetLeft(c))
    ELSE 1

\* Mutation of GradientPass: the classes are visited nearest first (the
\* sort without reverse=True); the step at c handles class Bits - c.
RECURSIVE GradientPassAscending(_, _, _, _)
GradientPassAscending(self, C, c, excess) ==
    IF c < 0 \/ excess <= 0 THEN {{}}
    ELSE LET G == {x \in C : RingClassOf(self, x) = Bits - c}
             k == IF Cardinality(G) > ClassBudget(Bits - c)
                  THEN Smaller(Cardinality(G) - ClassBudget(Bits - c), excess) ELSE 0
         IN  {X \cup Y : X \in kSubset(k, G),
                         Y \in GradientPassAscending(self, C, c - 1, excess - k)}

\* The loop over classes from the furthest down, removing random peers of
\* a class above its budget while excess remains.
RECURSIVE GradientPass(_, _, _, _)
GradientPass(self, C, c, excess) ==
    IF c < 0 \/ excess <= 0 THEN {{}}
    ELSE LET G == {x \in C : RingClassOf(self, x) = c}
             k == IF Cardinality(G) > ClassBudget(c)
                  THEN Smaller(Cardinality(G) - ClassBudget(c), excess) ELSE 0
         IN  {X \cup Y : X \in kSubset(k, G),
                         Y \in GradientPass(self, C, c - 1, excess - k)}

\* GradientPeer.remove_excess_connections
GradientEvictions(self, C, All) ==
    IF Cardinality(C) <= MaxConnections THEN {{}}
    ELSE GradientPass(self, C, Bits, Cardinality(C) - MaxConnections)

=============================================================================
