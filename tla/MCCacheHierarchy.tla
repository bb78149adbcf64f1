-------------------------- MODULE MCCacheHierarchy --------------------------
(* An instance of CacheHierarchy for TLC. *)
EXTENDS CacheHierarchy

\* The first block of dl2 is left out: see FastHitHasBlock of Cache.
Upper == bsize2 .. ADDRS - 1
NextLine1(a) == {IF a + bsize1 < ADDRS THEN <<a + bsize1>> ELSE <<>>}
NextLine2(a) == {IF a + bsize2 < ADDRS THEN <<a + bsize2>> ELSE <<>>}
=============================================================================
