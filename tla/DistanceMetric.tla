--------------------------- MODULE DistanceMetric ---------------------------
(***************************************************************************)
(* Distance functions over peer identifiers and the distance classes      *)
(* derived from them, as the simulators compute them.  Identifiers are    *)
(* unsigned integers of Bits bits.                                         *)
(***************************************************************************)
EXTENDS Naturals, Bitwise

CONSTANT Bits

IdSpace == 0 .. (2^Bits - 1)

\* Peer._xor_distance: peer1_id ^ peer2_id
XorDistance(a, b) == a ^^ b

\* GradientPeer._ring_distance: min(|a-b|, 2^Bits - |a-b|)
RingDistance(a, b) ==
    LET direct == IF a >= b THEN a - b ELSE b - a
        wrap   == 2^Bits - direct
    IN  IF direct <= wrap THEN direct ELSE wrap

\* Number of bits needed to write n (0 for n = 0).
RECURSIVE BitLength(_)
BitLength(n) == IF n = 0 THEN 0 ELSE 1 + BitLength(n \div 2)

\* int(math.log2(d)) for d > 0: the position of the highest set bit.
FloorLog2(d) == BitLength(d) - 1

\* GradientPeer._get_distance_class: 0 for distance 0, otherwise
\* floor(log2 d) + 1 capped at max_distance_classes - 1, where
\* max_distance_classes = int(log2(2^Bits)) + 1 = Bits + 1.
RingClass(d) ==
    IF d = 0 THEN 0
    ELSE IF FloorLog2(d) + 1 <= Bits THEN FloorLog2(d) + 1 ELSE Bits

\* ImprovedDistanceOptimizedPeer._count_leading_zeros: leading zeros of d
\* read as a 32-bit word, whatever the configured address width.
LeadingZeros32(d) == IF d = 0 THEN 32 ELSE 32 - BitLength(d)

=============================================================================
