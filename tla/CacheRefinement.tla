-------------------------- MODULE CacheRefinement --------------------------
(* The way lists of Cache implement the replacement order promised.         *)
EXTENDS Cache, FiniteSets

\* The addresses a set holds, in the order of its way list.
ValidPlaces(s) == {i \in 1 .. assoc : blk[s][way[s][i]].valid}
TagAt(s, i)    == blk[s][way[s][i]].tag
order == [s \in Sets |-> {<<TagAt(s, p[1]), TagAt(s, p[2])>> :
                           p \in {p \in ValidPlaces(s) \X ValidPlaces(s) : p[1] <= p[2]}}]
hit == IF serving.blk = NULL THEN <<>>
       ELSE <<CACHE_SET(serving.addr), CACHE_TAG(serving.addr)>>

Promise == INSTANCE ReplacementOrder WITH Tags <- 0 .. ADDRS - 1

\* "Perfect LRU", "the oldest", "a random block": through hits, fast hits,
\* misses, prefetches and flushes, what a set holds and would replace next is
\* what the order of the accesses says.
ReplacesAsPromised == Promise!Spec
=============================================================================
