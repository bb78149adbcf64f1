------------------------------ MODULE MCCache ------------------------------
(* Instances of Cache for TLC. *)
EXTENDS CacheRefinement

\* No address of the first block, which a cache takes for "no last block".
Upper == 1 .. ADDRS - 1
AllAddrs == 0 .. ADDRS - 1

\* At most one prefetch after an access, of any block but the first: what the
\* next-line and the stride prefetchers do, and more.
AtMostOne(a) == {<<>>} \cup {<<t>> : t \in Upper}

Create(replacement, buckets, sets, ways, pf) ==
  [policy |-> replacement, hsize |-> buckets, nsets |-> sets, bsize |-> 1, assoc |-> ways, prefetch |-> pf]

\* Two sets of two blocks with a prefetcher, under each policy.
TwoWays == {Create("LRU", 2, 2, 2, TRUE), Create("FIFO", 0, 2, 2, TRUE), Create("Random", 2, 2, 2, TRUE)}
\* An instruction cache of one set of four blocks, perfect LRU, found through a hash table.
FourWays == {Create("LRU", 2, 1, 4, FALSE)}
TwoOrFourWays == TwoWays \cup FourWays

LruOnly == {Create("LRU", 0, 1, 2, FALSE)}
=============================================================================
