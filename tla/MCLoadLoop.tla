----------------------------- MODULE MCLoadLoop -----------------------------
(* Loops for the prefetchers, for TLC. *)
EXTENDS LoadLoop

\* Eight addresses, two to a block, and two loads that share an entry of the
\* reference prediction table but not of the open-ended prefetcher's.
Addrs == {8 * k : k \in 0 .. (ADDRS \div 8) - 1}
PCs   == {8, 32}
Loads == [PC : PCs, addr : Addrs]

\* Every loop of one load, and every loop of two that take turns.
OneLoad  == UNION {[1 .. n -> [PC : {8}, addr : Addrs]] : n \in 1 .. 4}
TwoLoads == {b \in [1 .. 2 -> Loads] \cup [1 .. 4 -> Loads] :
               \A i \in DOMAIN b : b[i].PC # b[(i % Len(b)) + 1].PC}
AllBodies == OneLoad \cup TwoLoads
=============================================================================
