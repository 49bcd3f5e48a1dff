---------------------------- MODULE SignatureScan ----------------------------
(***************************************************************************)
(* find_tokens_by_signature, the signature-directed token scan that      *)
(* src/competitive_sync_analysis.py and src/network_aware_synchronization *)
(* .py each define, line for line the same.  From the bisect position of  *)
(* the lookup token it takes, going up, the next token whose low chunk is *)
(* the next signature chunk, for the first AboveCount chunks, then goes   *)
(* down for the remaining ones.  A signature chunk is ChunkBits wide      *)
(* instead of 10, and a signature has NumChunks chunks (10 in the code),  *)
(* of which AboveCount (5) are used above the lookup position.            *)
(***************************************************************************)
EXTENDS Naturals, FiniteSets, Sequences

CONSTANTS
    ChunkBits,       \* the width of a signature chunk (10 in the code)
    NumChunks,       \* the chunks of a signature (10 in the code)
    AboveCount       \* the chunks used above the lookup position (5)

ASSUME AboveCount <= NumChunks


\* token & 0x3FF, the low chunk of a token
Low(tok) == tok % (2^ChunkBits)

\* generate_100_bit_signature: the chunks of a random signature are any
\* vector of chunk values.
ChunkVectors == [1..NumChunks -> 0..(2^ChunkBits - 1)]

\* bisect.bisect_left on a sorted list: the number of elements below x.
BisectLeft(a, x) == Cardinality({i \in DOMAIN a : a[i] < x})

\* The loop over the tokens above the lookup position: from Python index x
\* on, take the next token whose low chunk is chunk i, while i < 5.
RECURSIVE ScanAbove(_, _, _, _, _)
ScanAbove(a, x, i, c, acc) ==
    IF i < AboveCount /\ x < Len(a)
    THEN IF Low(a[x + 1]) = c[i + 1]
         THEN ScanAbove(a, x + 1, i + 1, c, Append(acc, a[x + 1]))
         ELSE ScanAbove(a, x + 1, i, c, acc)
    ELSE [i |-> i, res |-> acc]

\* The loop below the lookup position, downwards from Python index x,
\* going on with the chunk index the first loop reached, while i < 10.
RECURSIVE ScanBelow(_, _, _, _, _)
ScanBelow(a, x, i, c, acc) ==
    IF i < NumChunks /\ x >= 0
    THEN IF Low(a[x + 1]) = c[i + 1]
         THEN ScanBelow(a, x - 1, i + 1, c, Append(acc, a[x + 1]))
         ELSE ScanBelow(a, x - 1, i, c, acc)
    ELSE acc

\* The tokens find_tokens_by_signature returns for the sorted list a.  The
\* scans start at pos + 1 and pos - 1: the token at the insertion point,
\* which is the lookup token whenever the list holds it, is never taken.
FindTokensBySignature(a, lookup, c) ==
    LET pos == BisectLeft(a, lookup)
        up  == ScanAbove(a, pos + 1, 0, c, <<>>)
    IN  ScanBelow(a, pos - 1, up.i, c, up.res)

=============================================================================
