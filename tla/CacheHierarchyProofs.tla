----------------------- MODULE CacheHierarchyProofs ------------------------
(***************************************************************************)
(* No store is lost between the data caches, and a flush brings all of     *)
(* them to memory, for every geometry, policy and prefetcher of dl1 and    *)
(* dl2.  Each of the two is a Cache, so what CacheProofs says of one step  *)
(* of a cache (it loses nothing, whoever calls it) it says of both;        *)
(* HierarchyInv adds what they owe each other.                             *)
(***************************************************************************)
EXTENDS CacheHierarchy, TLAPS

D1 == INSTANCE CacheProofs WITH
  nsets <- nsets1, bsize <- bsize1, assoc <- assoc1, hsize <- hsize1, prefetch <- TRUE,
  Configs <- {[policy |-> policy, hsize |-> hsize1, nsets |-> nsets1, bsize |-> bsize1,
               assoc |-> assoc1, prefetch |-> TRUE]},
  PrefetchTargets <- PrefetchTargets1,
  blk <- blk1, way <- way1, hash <- hash1, last_tagset <- last_tagset1, last_blk <- last_blk1,
  calls <- calls1, pending <- pending1, serving <- serving1, status <- status1
D2 == INSTANCE CacheProofs WITH
  nsets <- nsets2, bsize <- bsize2, assoc <- assoc2, hsize <- hsize2, prefetch <- TRUE,
  Configs <- {[policy |-> policy, hsize |-> hsize2, nsets |-> nsets2, bsize |-> bsize2,
               assoc |-> assoc2, prefetch |-> TRUE]},
  PrefetchTargets <- PrefetchTargets2,
  blk <- blk2, way <- way2, hash <- hash2, last_tagset <- last_tagset2, last_blk <- last_blk2,
  calls <- calls2, pending <- pending2, serving <- serving2, status <- status2

\* The parameters of the two caches are those that cache_create accepts.
LEMMA BothCreated == D1!CacheAssumption /\ D2!CacheAssumption
BY HierarchyAssumption DEF dl1!CacheAssumption, D1!CacheAssumption, dl2!CacheAssumption, D2!CacheAssumption,
     dl1!PowersOfTwo, D1!PowersOfTwo, dl2!PowersOfTwo, D2!PowersOfTwo

\* The geometry of a cache does not change.
LEMMA SameGeometry == UNCHANGED D1!geometry /\ UNCHANGED D2!geometry
BY DEF D1!geometry, D2!geometry

\* The steps of dl1 are steps of a Cache, of which its proofs speak.
LEMMA SameCache1 ==
  /\ \A cmd, a, pf, t : dl1!cache_access(cmd, a, pf, t) => D1!cache_access(cmd, a, pf, t)
  /\ dl1!Prefetch => D1!Prefetch
  /\ dl1!Served => D1!Served
  /\ dl1!Return => D1!Return
  /\ dl1!cache_flush => D1!cache_flush
<1> USE DEF dl1!cache_access, D1!cache_access, dl1!Prefetch, D1!Prefetch, dl1!Served,
            D1!Served, dl1!Return, D1!Return, dl1!cache_flush, D1!cache_flush, dl1!Access,
            D1!Access, dl1!FastHit, D1!FastHit, dl1!NullHit, D1!NullHit, dl1!Hit, D1!Hit,
            dl1!Miss, D1!Miss, dl1!MarkDirty, D1!MarkDirty, dl1!SameBlock, D1!SameBlock,
            dl1!NULL, D1!NULL, dl1!CACHE_BADDR, D1!CACHE_BADDR, dl1!CACHE_SET, D1!CACHE_SET,
            dl1!CACHE_TAG, D1!CACHE_TAG, dl1!Sets, D1!Sets, dl1!Ways, D1!Ways, dl1!Found,
            D1!Found, dl1!Chain, D1!Chain, dl1!CACHE_HASH, D1!CACHE_HASH, dl1!Buckets, D1!Buckets, dl1!HashBits,
            D1!HashBits, dl1!Bit, D1!Bit, dl1!cache_probe,
            D1!cache_probe, dl1!Reordered, D1!Reordered, dl1!ToHead, D1!ToHead, dl1!Place,
            D1!Place, dl1!Victims, D1!Victims, dl1!WriteBack, D1!WriteBack, dl1!Call, D1!Call,
            dl1!CACHE_MK_BADDR, D1!CACHE_MK_BADDR, dl1!Relink, D1!Relink, dl1!ForgetLast,
            D1!ForgetLast
<1>1. ASSUME NEW cmd, NEW a, NEW pf, NEW t, dl1!cache_access(cmd, a, pf, t)
      PROVE  D1!cache_access(cmd, a, pf, t)
  BY <1>1
<1>2. dl1!Prefetch => D1!Prefetch
  OBVIOUS
<1>3. dl1!Served => D1!Served
  OBVIOUS
<1>4. dl1!Return => D1!Return
  OBVIOUS
<1>5. dl1!cache_flush => D1!cache_flush
  OBVIOUS
<1> HIDE DEF dl1!cache_access, D1!cache_access, dl1!Prefetch, D1!Prefetch, dl1!Served, D1!Served,
             dl1!Return, D1!Return, dl1!cache_flush, D1!cache_flush
<1> QED
  BY <1>1, <1>2, <1>3, <1>4, <1>5

\* And those of dl2.
LEMMA SameCache2 ==
  /\ \A cmd, a, pf, t : dl2!cache_access(cmd, a, pf, t) => D2!cache_access(cmd, a, pf, t)
  /\ dl2!Prefetch => D2!Prefetch
  /\ dl2!Served => D2!Served
  /\ dl2!Return => D2!Return
  /\ dl2!cache_flush => D2!cache_flush
<1> USE DEF dl2!cache_access, D2!cache_access, dl2!Prefetch, D2!Prefetch, dl2!Served,
            D2!Served, dl2!Return, D2!Return, dl2!cache_flush, D2!cache_flush, dl2!Access,
            D2!Access, dl2!FastHit, D2!FastHit, dl2!NullHit, D2!NullHit, dl2!Hit, D2!Hit,
            dl2!Miss, D2!Miss, dl2!MarkDirty, D2!MarkDirty, dl2!SameBlock, D2!SameBlock,
            dl2!NULL, D2!NULL, dl2!CACHE_BADDR, D2!CACHE_BADDR, dl2!CACHE_SET, D2!CACHE_SET,
            dl2!CACHE_TAG, D2!CACHE_TAG, dl2!Sets, D2!Sets, dl2!Ways, D2!Ways, dl2!Found,
            D2!Found, dl2!Chain, D2!Chain, dl2!CACHE_HASH, D2!CACHE_HASH, dl2!Buckets, D2!Buckets, dl2!HashBits,
            D2!HashBits, dl2!Bit, D2!Bit, dl2!cache_probe,
            D2!cache_probe, dl2!Reordered, D2!Reordered, dl2!ToHead, D2!ToHead, dl2!Place,
            D2!Place, dl2!Victims, D2!Victims, dl2!WriteBack, D2!WriteBack, dl2!Call, D2!Call,
            dl2!CACHE_MK_BADDR, D2!CACHE_MK_BADDR, dl2!Relink, D2!Relink, dl2!ForgetLast,
            D2!ForgetLast
<1>1. ASSUME NEW cmd, NEW a, NEW pf, NEW t, dl2!cache_access(cmd, a, pf, t)
      PROVE  D2!cache_access(cmd, a, pf, t)
  BY <1>1
<1>2. dl2!Prefetch => D2!Prefetch
  OBVIOUS
<1>3. dl2!Served => D2!Served
  OBVIOUS
<1>4. dl2!Return => D2!Return
  OBVIOUS
<1>5. dl2!cache_flush => D2!cache_flush
  OBVIOUS
<1> HIDE DEF dl2!cache_access, D2!cache_access, dl2!Prefetch, D2!Prefetch, dl2!Served, D2!Served,
             dl2!Return, D2!Return, dl2!cache_flush, D2!cache_flush
<1> QED
  BY <1>1, <1>2, <1>3, <1>4, <1>5

\* Both start empty.
LEMMA SameInit == Init => D1!Init /\ D2!Init
BY DEF Init, dl1!Init, D1!Init, dl2!Init, D2!Init, dl1!Sets, D1!Sets, dl1!Ways, D1!Ways, dl2!Sets, D2!Sets, dl2!Ways, D2!Ways,
       dl1!CACHE_HASH, D1!CACHE_HASH, dl2!CACHE_HASH, D2!CACHE_HASH,
       dl1!Buckets, D1!Buckets, dl1!HashBits, D1!HashBits, dl1!Bit, D1!Bit,
       dl2!Buckets, D2!Buckets, dl2!HashBits, D2!HashBits, dl2!Bit, D2!Bit,
       dl1!NULL, D1!NULL, dl2!NULL, D2!NULL

-----------------------------------------------------------------------------
\* The program keeps clear of the first block, which a cache takes for "no last block".
ClearOfFirstBlock == \A a \in Data : a >= bsize2

\* A block of dl1 lies in one of dl2, and block addresses are of their own block.
LEMMA BlocksNest ==
  /\ \A x, y \in 0 .. ADDRS - 1 : D1!CACHE_BADDR(x) = D1!CACHE_BADDR(y) => D2!CACHE_BADDR(x) = D2!CACHE_BADDR(y)
  /\ \A x \in 0 .. ADDRS - 1 : D1!CACHE_BADDR(D1!CACHE_BADDR(x)) = D1!CACHE_BADDR(x)
  /\ \A x \in 0 .. ADDRS - 1 : x >= bsize2 => D1!CACHE_BADDR(x) # 0 /\ D2!CACHE_BADDR(x) # 0
<1>1. bsize1 \in Nat \ {0} /\ bsize2 \in Nat \ {0} /\ ADDRS \in Nat
  <2>1. D1!CacheAssumption /\ D2!CacheAssumption
    BY BothCreated
  <2>2. D1!cp \in {[policy |-> policy, hsize |-> hsize1, nsets |-> nsets1, bsize |-> bsize1,
                    assoc |-> assoc1, prefetch |-> TRUE]}
    BY DEF D1!cp
  <2>3. D2!cp \in {[policy |-> policy, hsize |-> hsize2, nsets |-> nsets2, bsize |-> bsize2,
                    assoc |-> assoc2, prefetch |-> TRUE]}
    BY DEF D2!cp
  <2>4. bsize1 \in Nat \ {0}
    BY <2>1, <2>2, D1!GeometryType
  <2>5. bsize2 \in Nat \ {0}
    BY <2>1, <2>3, D2!GeometryType
  <2>6. ADDRS \in Nat
    BY <2>1 DEF D1!CacheAssumption
  <2> QED
    BY <2>4, <2>5, <2>6
<1>4. ASSUME NEW x \in Nat, NEW b \in Nat \ {0}
      PROVE  /\ x = b * (x \div b) + (x % b) /\ x \div b \in Nat /\ x % b \in 0 .. b - 1
             /\ x - (x % b) = b * (x \div b)
             /\ b * (x \div b) <= x /\ x < b * ((x \div b) + 1)
  <2>1. x \div b \in Nat /\ x - (x % b) = b * (x \div b)
    OBVIOUS
  <2>2. x % b \in 0 .. b - 1
    OBVIOUS
  <2>3. b * (x \div b) \in Nat
    BY <2>1
  <2> QED
    BY <2>1, <2>2, <2>3
<1>2. PICK k \in Nat \ {0} : bsize2 = bsize1 * k
  <2>1. bsize2 = bsize1 * (bsize2 \div bsize1) + (bsize2 % bsize1)
    BY <1>1, <1>4
  <2>2. bsize2 \div bsize1 \in Nat
    BY <1>1
  <2>3. bsize2 = bsize1 * (bsize2 \div bsize1)
    BY <1>1, <2>1, <2>2, BlocksFit
  <2>4. bsize2 \div bsize1 # 0
    BY <1>1, <2>3
  <2> QED
    BY <2>2, <2>3, <2>4
<1>3. bsize1 <= bsize2
  BY <1>1, <1>2
<1>5. ASSUME NEW x \in Nat, NEW b \in Nat \ {0}, NEW q \in Nat, b * q <= x, x < b * (q + 1)
      PROVE  x \div b = q
  <2>1. PICK p \in Nat : p = x \div b /\ b * p <= x /\ x < b * (p + 1)
    BY <1>4
  <2>2. ~ (p < q)
    <3>1. p < q => b * (p + 1) <= b * q
      BY <2>1
    <3> QED
      BY <1>5, <2>1, <3>1
  <2>3. ~ (q < p)
    <3>1. q < p => b * (q + 1) <= b * p
      BY <2>1
    <3> QED
      BY <1>5, <2>1, <3>1
  <2> QED
    BY <2>1, <2>2, <2>3
<1>6. ASSUME NEW x \in 0 .. ADDRS - 1, NEW y \in 0 .. ADDRS - 1, D1!CACHE_BADDR(x) = D1!CACHE_BADDR(y)
      PROVE  D2!CACHE_BADDR(x) = D2!CACHE_BADDR(y)
  <2>1. x \in Nat /\ y \in Nat
    BY <1>1
  <2>2. PICK q \in Nat : q = x \div bsize1 /\ bsize1 * q <= x /\ x < bsize1 * (q + 1) /\ x - (x % bsize1) = bsize1 * q
    <3>1. /\ x \div bsize1 \in Nat /\ bsize1 * (x \div bsize1) <= x /\ x < bsize1 * ((x \div bsize1) + 1)
          /\ x - (x % bsize1) = bsize1 * (x \div bsize1)
      BY <1>1, <1>4, <2>1
    <3> QED
      BY <3>1
  <2>3. bsize1 * q <= y /\ y < bsize1 * (q + 1)
    <3>1. y = bsize1 * (y \div bsize1) + (y % bsize1) /\ y \div bsize1 \in Nat /\ y % bsize1 \in 0 .. bsize1 - 1
      BY <1>1, <1>4, <2>1
    <3>2. x - (x % bsize1) = y - (y % bsize1)
      BY <1>6 DEF D1!CACHE_BADDR
    <3> QED
      BY <1>1, <2>1, <2>2, <3>1, <3>2
  <2>4. PICK m \in Nat : m = x \div bsize2 /\ bsize2 * m <= x /\ x < bsize2 * (m + 1) /\ x - (x % bsize2) = bsize2 * m
    <3>1. /\ x \div bsize2 \in Nat /\ bsize2 * (x \div bsize2) <= x /\ x < bsize2 * ((x \div bsize2) + 1)
          /\ x - (x % bsize2) = bsize2 * (x \div bsize2)
      BY <1>1, <1>4, <2>1
    <3> QED
      BY <3>1
  <2>5. PICK u, v \in Nat : u = k * m /\ v = k * (m + 1) /\ bsize2 * m = bsize1 * u /\ bsize2 * (m + 1) = bsize1 * v
    <3>1. k * m \in Nat /\ k * (m + 1) \in Nat
      OBVIOUS
    <3>2. bsize2 * m = bsize1 * (k * m) /\ bsize2 * (m + 1) = bsize1 * (k * (m + 1))
      BY <1>1, <1>2
    <3> QED
      BY <3>1, <3>2
  <2>6. u <= q
    <3>1. ~ (q + 1 <= u)
      <4>1. q + 1 <= u => bsize1 * (q + 1) <= bsize1 * u
        BY <1>1
      <4> QED
        BY <1>1, <2>1, <2>2, <2>4, <2>5, <4>1
    <3> QED
      BY <3>1
  <2>7. q + 1 <= v
    <3>1. ~ (v <= q)
      <4>1. v <= q => bsize1 * v <= bsize1 * q
        BY <1>1
      <4> QED
        BY <1>1, <2>1, <2>2, <2>4, <2>5, <4>1
    <3> QED
      BY <3>1
  <2>8. bsize2 * m <= y /\ y < bsize2 * (m + 1)
    <3>1. bsize1 * u <= bsize1 * q /\ bsize1 * (q + 1) <= bsize1 * v
      BY <1>1, <2>6, <2>7
    <3> QED
      BY <1>1, <2>1, <2>3, <2>5, <3>1
  <2>9. y \div bsize2 = m
    BY <1>1, <1>5, <2>1, <2>8
  <2>11. y - (y % bsize2) = bsize2 * m
    <3>1. y - (y % bsize2) = bsize2 * (y \div bsize2)
      BY <1>1, <1>4, <2>1
    <3> QED
      BY <2>9, <3>1
  <2> QED
    BY <2>4, <2>11 DEF D2!CACHE_BADDR
<1>7. ASSUME NEW x \in 0 .. ADDRS - 1 PROVE D1!CACHE_BADDR(D1!CACHE_BADDR(x)) = D1!CACHE_BADDR(x)
  <2>1. PICK q \in Nat : x - (x % bsize1) = bsize1 * q
    <3>1. x \in Nat
      BY <1>1
    <3>2. x - (x % bsize1) = bsize1 * (x \div bsize1) /\ x \div bsize1 \in Nat
      BY <1>1, <1>4, <3>1
    <3> QED
      BY <3>2
  <2>2. PICK y \in Nat : y = bsize1 * q
    BY <1>1
  <2>3. bsize1 * q <= y /\ y < bsize1 * (q + 1)
    BY <1>1, <2>2
  <2>4. y \div bsize1 = q
    BY <1>1, <1>5, <2>3
  <2>5. y % bsize1 = 0
    <3>1. y = bsize1 * (y \div bsize1) + (y % bsize1) /\ y % bsize1 \in 0 .. bsize1 - 1
      BY <1>1, <1>4
    <3>2. y = y + (y % bsize1)
      BY <2>2, <2>4, <3>1
    <3> QED
      BY <1>1, <3>1, <3>2
  <2> QED
    BY <2>1, <2>2, <2>5 DEF D1!CACHE_BADDR
<1>8. ASSUME NEW x \in 0 .. ADDRS - 1, x >= bsize2 PROVE D1!CACHE_BADDR(x) # 0 /\ D2!CACHE_BADDR(x) # 0
  <2>1. x % bsize1 \in 0 .. bsize1 - 1 /\ x % bsize2 \in 0 .. bsize2 - 1
    BY <1>1, <1>4
  <2> QED
    BY <1>1, <1>3, <1>8, <2>1 DEF D1!CACHE_BADDR, D2!CACHE_BADDR
<1> QED
  BY <1>6, <1>7, <1>8

-----------------------------------------------------------------------------
\* Both caches are as the proofs of Cache have them.
LevelsKept == D1!CacheInv /\ D1!CacheState /\ D2!CacheInv /\ D2!CacheState

\* The newest data of an address are safe in the cache that has them.
NewestSafe ==
  /\ newest \in [Data -> {"dl1", "dl2", "memory"}]
  /\ \A a \in Data : /\ newest[a] = "dl1" => D1!Safe(a)
                     /\ newest[a] = "dl2" => D2!Safe(a)

\* While dl2 works for dl1, on the first of dl1's calls, it has the data that the call brings.
HandedDown ==
  status1 = "busy" /\ status2 # "idle" =>
    /\ calls1 # <<>>
    /\ Head(calls1).cmd = "Write" =>
         \A a \in Data : D1!CACHE_BADDR(a) = D1!CACHE_BADDR(Head(calls1).addr) => newest[a] # "dl1"

\* A cache that is being flushed holds no block, and looks for none.
FlushedOut ==
  /\ flushing \in {"none", "dl2", "last"}
  /\ flushing # "none" => pending1 = <<>> /\ \A s \in D1!Sets, w \in D1!Ways : ~ blk1[s][w].valid
  /\ flushing = "last" => /\ status1 = "idle" /\ pending2 = <<>>
                          /\ \A s \in D2!Sets, w \in D2!Ways : ~ blk2[s][w].valid

HierarchyInv == LevelsKept /\ NewestSafe /\ HandedDown /\ FlushedOut

\* dl1 stays as the proofs of Cache have it, whoever calls it.
LEMMA Level1 ==
  ASSUME D1!CacheInv, D1!CacheState, D1!AnyStep \/ UNCHANGED D1!cacheVars
  PROVE  D1!CacheInv' /\ D1!CacheState'
BY BothCreated, D1!BothStay

\* And so does dl2.
LEMMA Level2 ==
  ASSUME D2!CacheInv, D2!CacheState, D2!AnyStep \/ UNCHANGED D2!cacheVars
  PROVE  D2!CacheInv' /\ D2!CacheState'
BY BothCreated, D2!BothStay

\* dl1 keeps what is safe in it while it does nothing.
LEMMA Still1 ==
  ASSUME UNCHANGED vars1
  PROVE  /\ UNCHANGED D1!cacheVars
         /\ \A x : D1!Safe(x) => D1!Safe(x)'
<1>1. UNCHANGED D1!cacheVars
  BY DEF vars1, D1!cacheVars, D1!cp
<1>2. ASSUME NEW x, D1!Safe(x) PROVE D1!Safe(x)'
  <2>1. UNCHANGED <<D1!geometry, blk1, calls1>>
    BY SameGeometry DEF vars1
  <2> QED
    BY <1>2, <2>1, BothCreated, D1!NothingMoves
<1> QED
  BY <1>1, <1>2

\* And so does dl2.
LEMMA Still2 ==
  ASSUME UNCHANGED vars2
  PROVE  /\ UNCHANGED D2!cacheVars
         /\ \A x : D2!Safe(x) => D2!Safe(x)'
<1>1. UNCHANGED D2!cacheVars
  BY DEF vars2, D2!cacheVars, D2!cp
<1>2. ASSUME NEW x, D2!Safe(x) PROVE D2!Safe(x)'
  <2>1. UNCHANGED <<D2!geometry, blk2, calls2>>
    BY SameGeometry DEF vars2
  <2> QED
    BY <1>2, <2>1, BothCreated, D2!NothingMoves
<1> QED
  BY <1>1, <1>2

\* What the program does, and what the prefetchers look for, is in the address space.
LEMMA Parameters ==
  /\ Data \subseteq 0 .. ADDRS - 1 /\ Cmds \subseteq {"Read", "Write"}
  /\ \A a \in 0 .. ADDRS - 1 : /\ PrefetchTargets1(a) \subseteq Seq(0 .. ADDRS - 1)
                               /\ PrefetchTargets2(a) \subseteq Seq(0 .. ADDRS - 1)
BY BothCreated DEF Data, D1!CacheAssumption, D2!CacheAssumption

\* An access to dl1 loses nothing, and what it writes is safe.
LEMMA Called1 ==
  ASSUME D1!CacheInv, D1!CacheState, NEW cmd \in {"Read", "Write"}, NEW a \in 0 .. ADDRS - 1, NEW pf \in BOOLEAN,
         NEW t \in Seq(0 .. ADDRS - 1), dl1!cache_access(cmd, a, pf, t)
  PROVE  /\ D1!CacheInv' /\ D1!CacheState'
         /\ status1 = "idle" /\ status1' # "idle"
         /\ \A x \in 0 .. ADDRS - 1 :
              /\ D1!Safe(x) => D1!Safe(x)'
              /\ cmd = "Write" /\ D1!CACHE_BADDR(x) = D1!CACHE_BADDR(a) /\ D1!CACHE_BADDR(a) # 0 => D1!Safe(x)'
<1>1. D1!cache_access(cmd, a, pf, t)
  BY SameCache1
<1>2. D1!AnyStep
  BY <1>1, SameGeometry DEF D1!AnyStep
<1>3. status1 = "idle" /\ status1' # "idle"
  BY <1>1 DEF D1!cache_access, D1!Access, D1!FastHit, D1!NullHit, D1!Hit, D1!Miss
<1>4. ASSUME NEW x \in 0 .. ADDRS - 1
      PROVE  /\ D1!Safe(x) => D1!Safe(x)'
             /\ cmd = "Write" /\ D1!CACHE_BADDR(x) = D1!CACHE_BADDR(a) /\ D1!CACHE_BADDR(a) # 0 => D1!Safe(x)'
  BY <1>1, BothCreated, SameGeometry, D1!CallSaves
<1> QED
  BY <1>2, <1>3, <1>4, Level1

\* So does an access to dl2.
LEMMA Called2 ==
  ASSUME D2!CacheInv, D2!CacheState, NEW cmd \in {"Read", "Write"}, NEW a \in 0 .. ADDRS - 1, NEW pf \in BOOLEAN,
         NEW t \in Seq(0 .. ADDRS - 1), dl2!cache_access(cmd, a, pf, t)
  PROVE  /\ D2!CacheInv' /\ D2!CacheState'
         /\ status2 = "idle" /\ status2' # "idle"
         /\ \A x \in 0 .. ADDRS - 1 :
              /\ D2!Safe(x) => D2!Safe(x)'
              /\ cmd = "Write" /\ D2!CACHE_BADDR(x) = D2!CACHE_BADDR(a) /\ D2!CACHE_BADDR(a) # 0 => D2!Safe(x)'
<1>1. D2!cache_access(cmd, a, pf, t)
  BY SameCache2
<1>2. D2!AnyStep
  BY <1>1, SameGeometry DEF D2!AnyStep
<1>3. status2 = "idle" /\ status2' # "idle"
  BY <1>1 DEF D2!cache_access, D2!Access, D2!FastHit, D2!NullHit, D2!Hit, D2!Miss
<1>4. ASSUME NEW x \in 0 .. ADDRS - 1
      PROVE  /\ D2!Safe(x) => D2!Safe(x)'
             /\ cmd = "Write" /\ D2!CACHE_BADDR(x) = D2!CACHE_BADDR(a) /\ D2!CACHE_BADDR(a) # 0 => D2!Safe(x)'
  BY <1>1, BothCreated, SameGeometry, D2!CallSaves
<1> QED
  BY <1>2, <1>3, <1>4, Level2

-----------------------------------------------------------------------------
\* A prefetch of dl1, when all of its calls are served, loses nothing.
LEMMA Prefetched1 ==
  ASSUME D1!CacheInv, D1!CacheState, dl1!Prefetch
  PROVE  /\ D1!CacheInv' /\ D1!CacheState'
         /\ status1 = "busy" /\ status1' # "idle" /\ calls1 = <<>> /\ pending1 # <<>>
         /\ \A x \in 0 .. ADDRS - 1 : D1!Safe(x) => D1!Safe(x)'
<1>1. D1!Prefetch
  BY SameCache1
<1>2. D1!AnyStep
  BY <1>1, SameGeometry DEF D1!AnyStep
<1>3. status1 = "busy" /\ status1' # "idle" /\ calls1 = <<>> /\ pending1 # <<>>
  <2>1. status1 = "busy" /\ calls1 = <<>> /\ pending1 # <<>>
    BY <1>1 DEF D1!Prefetch
  <2>2. status1' = status1 \/ D1!Access("Read", D1!CACHE_BADDR(Head(pending1)), TRUE)
    BY <1>1 DEF D1!Prefetch
  <2> QED
    BY <2>1, <2>2 DEF D1!Access, D1!FastHit, D1!NullHit, D1!Hit, D1!Miss
<1>4. ASSUME NEW x \in 0 .. ADDRS - 1, D1!Safe(x) PROVE D1!Safe(x)'
  BY <1>1, <1>4, BothCreated, SameGeometry, D1!PrefetchSaves
<1> QED
  BY <1>2, <1>3, <1>4, Level1

\* dl1 loses nothing but what the call that was served has handed down.
LEMMA ServedOne1 ==
  ASSUME D1!CacheInv, D1!CacheState, dl1!Served
  PROVE  /\ D1!CacheInv' /\ D1!CacheState'
         /\ status1 = "busy" /\ UNCHANGED <<blk1, pending1, status1>>
         /\ \A x \in 0 .. ADDRS - 1 :
              D1!Safe(x) /\ ~ (Head(calls1).cmd = "Write" /\ Head(calls1).addr = D1!CACHE_BADDR(x)) => D1!Safe(x)'
<1>1. D1!Served
  BY SameCache1
<1>2. D1!AnyStep
  BY <1>1, SameGeometry DEF D1!AnyStep
<1>3. status1 = "busy" /\ UNCHANGED <<blk1, pending1, status1>>
  BY <1>1 DEF D1!Served
<1>4. ASSUME NEW x \in 0 .. ADDRS - 1, D1!Safe(x),
             ~ (Head(calls1).cmd = "Write" /\ Head(calls1).addr = D1!CACHE_BADDR(x))
      PROVE  D1!Safe(x)'
  BY <1>1, <1>4, BothCreated, SameGeometry, D1!ServedSaves
<1> QED
  BY <1>2, <1>3, <1>4, Level1

\* dl1 loses nothing when it returns.
LEMMA Returned1 ==
  ASSUME D1!CacheInv, D1!CacheState, dl1!Return
  PROVE  /\ D1!CacheInv' /\ D1!CacheState'
         /\ status1 = "busy" /\ status1' = "idle" /\ UNCHANGED <<blk1, calls1, pending1>>
         /\ \A x : D1!Safe(x) => D1!Safe(x)'
<1>1. D1!Return
  BY SameCache1
<1>2. D1!AnyStep
  BY <1>1, SameGeometry DEF D1!AnyStep
<1>3. status1 = "busy" /\ status1' = "idle" /\ UNCHANGED <<blk1, calls1, pending1>>
  BY <1>1 DEF D1!Return
<1>4. ASSUME NEW x, D1!Safe(x) PROVE D1!Safe(x)'
  BY <1>3, <1>4, BothCreated, SameGeometry, D1!NothingMoves
<1> QED
  BY <1>2, <1>3, <1>4, Level1

\* A flush of dl1 leaves no block in it, and loses nothing.
LEMMA Flushed1 ==
  ASSUME D1!CacheInv, D1!CacheState, dl1!cache_flush
  PROVE  /\ D1!CacheInv' /\ D1!CacheState'
         /\ pending1' = <<>>
         /\ \A s \in D1!Sets, w \in D1!Ways : ~ blk1'[s][w].valid
         /\ \A x \in 0 .. ADDRS - 1 : D1!Safe(x) => D1!Safe(x)'
<1>1. D1!cache_flush
  BY SameCache1
<1>2. D1!AnyStep
  BY <1>1, SameGeometry DEF D1!AnyStep
<1>3. pending1' = <<>>
  <2>1. status1 = "idle" /\ pending1' = pending1
    BY <1>1 DEF D1!cache_flush
  <2> QED
    BY <2>1 DEF D1!CacheState
<1>4. /\ \A x \in 0 .. ADDRS - 1 : D1!Safe(x) => D1!Safe(x)'
      /\ \A s \in D1!Sets, w \in D1!Ways : ~ blk1'[s][w].valid
  BY <1>1, BothCreated, SameGeometry, D1!FlushSaves
<1> QED
  BY <1>2, <1>3, <1>4, Level1

\* Nor does one of dl2.
LEMMA Prefetched2 ==
  ASSUME D2!CacheInv, D2!CacheState, dl2!Prefetch
  PROVE  /\ D2!CacheInv' /\ D2!CacheState'
         /\ status2 = "busy" /\ status2' # "idle" /\ calls2 = <<>> /\ pending2 # <<>>
         /\ \A x \in 0 .. ADDRS - 1 : D2!Safe(x) => D2!Safe(x)'
<1>1. D2!Prefetch
  BY SameCache2
<1>2. D2!AnyStep
  BY <1>1, SameGeometry DEF D2!AnyStep
<1>3. status2 = "busy" /\ status2' # "idle" /\ calls2 = <<>> /\ pending2 # <<>>
  <2>1. status2 = "busy" /\ calls2 = <<>> /\ pending2 # <<>>
    BY <1>1 DEF D2!Prefetch
  <2>2. status2' = status2 \/ D2!Access("Read", D2!CACHE_BADDR(Head(pending2)), TRUE)
    BY <1>1 DEF D2!Prefetch
  <2> QED
    BY <2>1, <2>2 DEF D2!Access, D2!FastHit, D2!NullHit, D2!Hit, D2!Miss
<1>4. ASSUME NEW x \in 0 .. ADDRS - 1, D2!Safe(x) PROVE D2!Safe(x)'
  BY <1>1, <1>4, BothCreated, SameGeometry, D2!PrefetchSaves
<1> QED
  BY <1>2, <1>3, <1>4, Level2

\* And so does dl2.
LEMMA ServedOne2 ==
  ASSUME D2!CacheInv, D2!CacheState, dl2!Served
  PROVE  /\ D2!CacheInv' /\ D2!CacheState'
         /\ status2 = "busy" /\ UNCHANGED <<blk2, pending2, status2>>
         /\ \A x \in 0 .. ADDRS - 1 :
              D2!Safe(x) /\ ~ (Head(calls2).cmd = "Write" /\ Head(calls2).addr = D2!CACHE_BADDR(x)) => D2!Safe(x)'
<1>1. D2!Served
  BY SameCache2
<1>2. D2!AnyStep
  BY <1>1, SameGeometry DEF D2!AnyStep
<1>3. status2 = "busy" /\ UNCHANGED <<blk2, pending2, status2>>
  BY <1>1 DEF D2!Served
<1>4. ASSUME NEW x \in 0 .. ADDRS - 1, D2!Safe(x),
             ~ (Head(calls2).cmd = "Write" /\ Head(calls2).addr = D2!CACHE_BADDR(x))
      PROVE  D2!Safe(x)'
  BY <1>1, <1>4, BothCreated, SameGeometry, D2!ServedSaves
<1> QED
  BY <1>2, <1>3, <1>4, Level2

\* Nor does dl2.
LEMMA Returned2 ==
  ASSUME D2!CacheInv, D2!CacheState, dl2!Return
  PROVE  /\ D2!CacheInv' /\ D2!CacheState'
         /\ status2 = "busy" /\ status2' = "idle" /\ UNCHANGED <<blk2, calls2, pending2>>
         /\ \A x : D2!Safe(x) => D2!Safe(x)'
<1>1. D2!Return
  BY SameCache2
<1>2. D2!AnyStep
  BY <1>1, SameGeometry DEF D2!AnyStep
<1>3. status2 = "busy" /\ status2' = "idle" /\ UNCHANGED <<blk2, calls2, pending2>>
  BY <1>1 DEF D2!Return
<1>4. ASSUME NEW x, D2!Safe(x) PROVE D2!Safe(x)'
  BY <1>3, <1>4, BothCreated, SameGeometry, D2!NothingMoves
<1> QED
  BY <1>2, <1>3, <1>4, Level2

\* And so does one of dl2.
LEMMA Flushed2 ==
  ASSUME D2!CacheInv, D2!CacheState, dl2!cache_flush
  PROVE  /\ D2!CacheInv' /\ D2!CacheState'
         /\ pending2' = <<>>
         /\ \A s \in D2!Sets, w \in D2!Ways : ~ blk2'[s][w].valid
         /\ \A x \in 0 .. ADDRS - 1 : D2!Safe(x) => D2!Safe(x)'
<1>1. D2!cache_flush
  BY SameCache2
<1>2. D2!AnyStep
  BY <1>1, SameGeometry DEF D2!AnyStep
<1>3. pending2' = <<>>
  <2>1. status2 = "idle" /\ pending2' = pending2
    BY <1>1 DEF D2!cache_flush
  <2> QED
    BY <2>1 DEF D2!CacheState
<1>4. /\ \A x \in 0 .. ADDRS - 1 : D2!Safe(x) => D2!Safe(x)'
      /\ \A s \in D2!Sets, w \in D2!Ways : ~ blk2'[s][w].valid
  BY <1>1, BothCreated, SameGeometry, D2!FlushSaves
<1> QED
  BY <1>2, <1>3, <1>4, Level2

-----------------------------------------------------------------------------
\* A load or store of the program: what is stored is safe in dl1.
LEMMA DataAccessInv ==
  ASSUME ClearOfFirstBlock, HierarchyInv, NEW cmd \in Cmds, NEW a \in Data, DataAccess(cmd, a)
  PROVE  HierarchyInv'
<1>1. PICK t \in PrefetchTargets1(a) : dl1!cache_access(cmd, a, FALSE, t)
  BY DEF DataAccess
<1>2. a \in 0 .. ADDRS - 1 /\ cmd \in {"Read", "Write"} /\ t \in Seq(0 .. ADDRS - 1)
  BY Parameters
<1>3. UNCHANGED <<vars2, flushing>> /\ Idle
  BY DEF DataAccess
<1>4. D2!CacheInv' /\ D2!CacheState' /\ \A x : D2!Safe(x) => D2!Safe(x)'
  BY <1>3, Still2, Level2 DEF HierarchyInv, LevelsKept
<1>5. /\ D1!CacheInv' /\ D1!CacheState'
      /\ \A x \in 0 .. ADDRS - 1 :
           /\ D1!Safe(x) => D1!Safe(x)'
           /\ cmd = "Write" /\ D1!CACHE_BADDR(x) = D1!CACHE_BADDR(a) /\ D1!CACHE_BADDR(a) # 0 => D1!Safe(x)'
  BY <1>1, <1>2, Called1 DEF HierarchyInv, LevelsKept
<1>6. newest' = IF cmd = "Write" THEN [newest EXCEPT ![a] = "dl1"] ELSE newest
  BY DEF DataAccess
<1>7. newest \in [Data -> {"dl1", "dl2", "memory"}]
  BY DEF HierarchyInv, NewestSafe
<1>8. newest' \in [Data -> {"dl1", "dl2", "memory"}]
  BY <1>6, <1>7
<1>9. ASSUME NEW x \in Data
      PROVE  (newest'[x] = "dl1" => D1!Safe(x)') /\ (newest'[x] = "dl2" => D2!Safe(x)')
  <2>1. x \in 0 .. ADDRS - 1 /\ (newest[x] = "dl1" => D1!Safe(x)) /\ (newest[x] = "dl2" => D2!Safe(x))
    BY Parameters DEF HierarchyInv, NewestSafe
  <2>2. CASE newest'[x] = newest[x]
    BY <1>4, <1>5, <2>1, <2>2
  <2>3. CASE newest'[x] # newest[x]
    <3>1. x = a /\ cmd = "Write" /\ newest'[x] = "dl1"
      BY <1>6, <1>7, <2>3
    <3>2. D1!CACHE_BADDR(a) # 0
      BY <1>2, BlocksNest DEF ClearOfFirstBlock
    <3> QED
      BY <1>5, <2>1, <3>1, <3>2
  <2> QED
    BY <2>2, <2>3
<1>10. LevelsKept' /\ NewestSafe'
  BY <1>4, <1>5, <1>8, <1>9 DEF LevelsKept, NewestSafe, Data
<1>11. HandedDown' /\ FlushedOut'
  BY <1>3 DEF HandedDown, FlushedOut, Idle, vars2
<1> QED
  BY <1>10, <1>11 DEF HierarchyInv

\* An instruction fetched through dl2.
LEMMA FetchInv ==
  ASSUME HierarchyInv, NEW a \in Data, Fetch(a)
  PROVE  HierarchyInv'
<1>1. PICK t \in PrefetchTargets2(a) : dl2!cache_access("Read", a, FALSE, t)
  BY DEF Fetch
<1>2. a \in 0 .. ADDRS - 1 /\ t \in Seq(0 .. ADDRS - 1)
  BY Parameters
<1>3. UNCHANGED <<vars1, flushing, newest>> /\ Idle
  BY DEF Fetch
<1>4. D1!CacheInv' /\ D1!CacheState' /\ \A x : D1!Safe(x) => D1!Safe(x)'
  BY <1>3, Still1, Level1 DEF HierarchyInv, LevelsKept
<1>5. /\ D2!CacheInv' /\ D2!CacheState'
      /\ \A x \in 0 .. ADDRS - 1 : D2!Safe(x) => D2!Safe(x)'
  BY <1>1, <1>2, Called2 DEF HierarchyInv, LevelsKept
<1>6. LevelsKept' /\ NewestSafe'
  BY <1>3, <1>4, <1>5, Parameters DEF HierarchyInv, LevelsKept, NewestSafe, Data
<1>7. HandedDown' /\ FlushedOut'
  BY <1>3 DEF HandedDown, FlushedOut, Idle, vars1
<1> QED
  BY <1>6, <1>7 DEF HierarchyInv

\* dl1 hands a call to dl2: what a write-back brings is safe in dl2 from then on.
LEMMA HandInv ==
  ASSUME ClearOfFirstBlock, HierarchyInv, dl1_access_fn
  PROVE  HierarchyInv'
<1> DEFINE c == Head(calls1)
<1>1. status1 = "busy" /\ calls1 # <<>> /\ status2 = "idle" /\ UNCHANGED <<vars1, flushing>>
  BY DEF dl1_access_fn
<1>2. PICK t \in IF c.prefetch THEN {<<>>} ELSE PrefetchTargets2(c.addr) :
        dl2!cache_access(c.cmd, c.addr, c.prefetch, t)
  BY DEF dl1_access_fn
<1>3. newest' = IF c.cmd = "Write"
                THEN [a \in Data |-> IF SameL1Block(a, c.addr) /\ newest[a] = "dl1" THEN "dl2" ELSE newest[a]]
                ELSE newest
  BY DEF dl1_access_fn
<1>4. c.cmd \in {"Read", "Write"} /\ c.addr \in 0 .. ADDRS - 1 /\ c.prefetch \in BOOLEAN
  <2>1. calls1 \in Seq(D1!Calls)
    BY DEF HierarchyInv, LevelsKept, D1!CacheState, D1!TypeOK
  <2>2. c \in D1!Calls
    BY <1>1, <2>1
  <2> QED
    BY <2>2 DEF D1!Calls
<1> HIDE DEF c
<1>5. t \in Seq(0 .. ADDRS - 1)
  <2>1. t = <<>> \/ t \in PrefetchTargets2(c.addr)
    BY <1>2
  <2>2. PrefetchTargets2(c.addr) \subseteq Seq(0 .. ADDRS - 1)
    BY <1>4, Parameters
  <2>3. <<>> \in Seq(0 .. ADDRS - 1)
    OBVIOUS
  <2> QED
    BY <2>1, <2>2, <2>3
<1>6. /\ D2!CacheInv' /\ D2!CacheState' /\ status2' # "idle"
      /\ \A x \in 0 .. ADDRS - 1 :
           /\ D2!Safe(x) => D2!Safe(x)'
           /\ c.cmd = "Write" /\ D2!CACHE_BADDR(x) = D2!CACHE_BADDR(c.addr) /\ D2!CACHE_BADDR(c.addr) # 0 => D2!Safe(x)'
  BY <1>2, <1>4, <1>5, Called2 DEF HierarchyInv, LevelsKept
<1>7. D1!CacheInv' /\ D1!CacheState' /\ \A x : D1!Safe(x) => D1!Safe(x)'
  BY <1>1, Still1, Level1 DEF HierarchyInv, LevelsKept
<1>8. newest \in [Data -> {"dl1", "dl2", "memory"}]
  BY DEF HierarchyInv, NewestSafe
<1>9. newest' \in [Data -> {"dl1", "dl2", "memory"}]
  BY <1>3, <1>8
<1>10. ASSUME NEW x \in Data
       PROVE  (newest'[x] = "dl1" => D1!Safe(x)') /\ (newest'[x] = "dl2" => D2!Safe(x)')
  <2>1. x \in 0 .. ADDRS - 1 /\ (newest[x] = "dl1" => D1!Safe(x)) /\ (newest[x] = "dl2" => D2!Safe(x))
    BY Parameters DEF HierarchyInv, NewestSafe
  <2>2. CASE newest'[x] = newest[x]
    BY <1>6, <1>7, <2>1, <2>2
  <2>3. CASE newest'[x] # newest[x]
    <3>1. newest'[x] = "dl2" /\ c.cmd = "Write" /\ SameL1Block(x, c.addr)
      BY <1>3, <1>8, <2>3
    <3>2. D1!CACHE_BADDR(x) = D1!CACHE_BADDR(c.addr)
      BY <3>1 DEF SameL1Block, dl1!CACHE_BADDR, D1!CACHE_BADDR
    <3>3. D2!CACHE_BADDR(x) = D2!CACHE_BADDR(c.addr) /\ D2!CACHE_BADDR(x) # 0
      BY <1>4, <2>1, <3>2, BlocksNest DEF ClearOfFirstBlock
    <3>4. D2!Safe(x)'
      BY <1>6, <2>1, <3>1, <3>3
    <3> QED
      BY <3>1, <3>4
  <2> QED
    BY <2>2, <2>3
<1>11. LevelsKept' /\ NewestSafe'
  BY <1>6, <1>7, <1>9, <1>10 DEF LevelsKept, NewestSafe, Data
<1>12. HandedDown'
  <2>1. calls1' = calls1 /\ status1' = "busy"
    BY <1>1 DEF vars1
  <2>2. ASSUME c.cmd = "Write", NEW a \in Data, D1!CACHE_BADDR(a) = D1!CACHE_BADDR(c.addr)
        PROVE  newest'[a] # "dl1"
    <3>1. SameL1Block(a, c.addr)
      BY <2>2 DEF SameL1Block, dl1!CACHE_BADDR, D1!CACHE_BADDR
    <3>2. newest'[a] = IF newest[a] = "dl1" THEN "dl2" ELSE newest[a]
      BY <1>3, <2>2, <3>1
    <3> QED
      BY <3>2
  <2>3. D1!CACHE_BADDR(c.addr)' = D1!CACHE_BADDR(c.addr) /\ c' = c /\ \A a \in Data : D1!CACHE_BADDR(a)' = D1!CACHE_BADDR(a)
    BY <2>1 DEF D1!CACHE_BADDR, c
  <2> QED
    BY <1>1, <2>1, <2>2, <2>3 DEF HandedDown, c, Data
<1>13. FlushedOut'
  <2>1. flushing # "last"
    BY <1>1 DEF HierarchyInv, FlushedOut
  <2> QED
    BY <1>1, <2>1 DEF HierarchyInv, FlushedOut, vars1, D1!Sets, D1!Ways
<1> QED
  BY <1>11, <1>12, <1>13 DEF HierarchyInv

\* dl2's own calls are served by memory, which has what is written back.
LEMMA MemoryInv ==
  ASSUME HierarchyInv, dl2_access_fn
  PROVE  HierarchyInv'
<1> DEFINE c == Head(calls2)
<1>1. dl2!Served /\ UNCHANGED <<vars1, flushing>>
  BY DEF dl2_access_fn
<1>2. newest' = IF c.cmd = "Write"
                THEN [a \in Data |-> IF dl2!CACHE_BADDR(a) = c.addr /\ newest[a] = "dl2" THEN "memory" ELSE newest[a]]
                ELSE newest
  BY DEF dl2_access_fn
<1>3. /\ D2!CacheInv' /\ D2!CacheState'
      /\ status2 = "busy" /\ UNCHANGED <<blk2, pending2, status2>>
      /\ \A x \in 0 .. ADDRS - 1 :
           D2!Safe(x) /\ ~ (c.cmd = "Write" /\ c.addr = D2!CACHE_BADDR(x)) => D2!Safe(x)'
  BY <1>1, ServedOne2 DEF HierarchyInv, LevelsKept
<1> HIDE DEF c
<1>4. D1!CacheInv' /\ D1!CacheState' /\ \A x : D1!Safe(x) => D1!Safe(x)'
  BY <1>1, Still1, Level1 DEF HierarchyInv, LevelsKept
<1>5. newest \in [Data -> {"dl1", "dl2", "memory"}]
  BY DEF HierarchyInv, NewestSafe
<1>6. newest' \in [Data -> {"dl1", "dl2", "memory"}]
  BY <1>2, <1>5
<1>7. \A x \in Data : dl2!CACHE_BADDR(x) = D2!CACHE_BADDR(x)
  BY DEF dl2!CACHE_BADDR, D2!CACHE_BADDR
<1>8. ASSUME NEW x \in Data
      PROVE  (newest'[x] = "dl1" => D1!Safe(x)') /\ (newest'[x] = "dl2" => D2!Safe(x)')
  <2>1. x \in 0 .. ADDRS - 1 /\ (newest[x] = "dl1" => D1!Safe(x)) /\ (newest[x] = "dl2" => D2!Safe(x))
    BY Parameters DEF HierarchyInv, NewestSafe
  <2>2. newest'[x] = newest[x] \/ newest'[x] = "memory"
    BY <1>2, <1>5
  <2>3. newest'[x] = "dl2" => newest[x] = "dl2" /\ ~ (c.cmd = "Write" /\ c.addr = D2!CACHE_BADDR(x))
    BY <1>2, <1>5, <1>7
  <2> QED
    BY <1>3, <1>4, <2>1, <2>2, <2>3
<1>9. LevelsKept' /\ NewestSafe'
  BY <1>3, <1>4, <1>6, <1>8 DEF LevelsKept, NewestSafe, Data
<1>10. HandedDown'
  <2>1. \A a \in Data : newest'[a] = "dl1" => newest[a] = "dl1"
    BY <1>2, <1>5
  <2>2. calls1' = calls1 /\ status1' = status1 /\ status2' = status2
    BY <1>1, <1>3 DEF vars1
  <2> QED
    BY <2>1, <2>2 DEF HierarchyInv, HandedDown, D1!CACHE_BADDR, Data
<1>11. FlushedOut'
  BY <1>1, <1>3 DEF HierarchyInv, FlushedOut, vars1, D1!Sets, D1!Ways, D2!Sets, D2!Ways
<1> QED
  BY <1>9, <1>10, <1>11 DEF HierarchyInv

-----------------------------------------------------------------------------
\* dl2 returns: dl1's call is done, and what it brought is in dl2.
LEMMA Return2Inv ==
  ASSUME HierarchyInv, Return2
  PROVE  HierarchyInv'
<1>1. dl2!Return /\ UNCHANGED <<flushing, newest>>
  BY DEF Return2
<1>2. /\ D2!CacheInv' /\ D2!CacheState'
      /\ status2 = "busy" /\ status2' = "idle" /\ UNCHANGED <<blk2, calls2, pending2>>
      /\ \A x : D2!Safe(x) => D2!Safe(x)'
  BY <1>1, Returned2 DEF HierarchyInv, LevelsKept
<1>3. /\ D1!CacheInv' /\ D1!CacheState' /\ UNCHANGED <<blk1, pending1, status1>>
      /\ \A x \in Data : D1!Safe(x) /\ newest[x] = "dl1" => D1!Safe(x)'
  <2>1. CASE status1 = "busy"
    <3>1. dl1!Served
      BY <2>1 DEF Return2
    <3>2. /\ D1!CacheInv' /\ D1!CacheState' /\ UNCHANGED <<blk1, pending1, status1>>
          /\ \A x \in 0 .. ADDRS - 1 :
               D1!Safe(x) /\ ~ (Head(calls1).cmd = "Write" /\ Head(calls1).addr = D1!CACHE_BADDR(x)) => D1!Safe(x)'
      BY <3>1, ServedOne1 DEF HierarchyInv, LevelsKept
    <3>3. ASSUME NEW x \in Data, D1!Safe(x), newest[x] = "dl1" PROVE D1!Safe(x)'
      <4>1. x \in 0 .. ADDRS - 1
        BY Parameters
      <4>2. ~ (Head(calls1).cmd = "Write" /\ D1!CACHE_BADDR(x) = D1!CACHE_BADDR(Head(calls1).addr))
        BY <1>2, <2>1, <3>3 DEF HierarchyInv, HandedDown
      <4>3. D1!CACHE_BADDR(D1!CACHE_BADDR(x)) = D1!CACHE_BADDR(x)
        BY <4>1, BlocksNest
      <4>4. ~ (Head(calls1).cmd = "Write" /\ Head(calls1).addr = D1!CACHE_BADDR(x))
        BY <4>2, <4>3
      <4> QED
        BY <3>2, <3>3, <4>1, <4>4
    <3> QED
      BY <3>2, <3>3
  <2>2. CASE status1 # "busy"
    <3>1. UNCHANGED vars1
      BY <2>2 DEF Return2
    <3>2. D1!CacheInv' /\ D1!CacheState' /\ \A x : D1!Safe(x) => D1!Safe(x)'
      BY <3>1, Still1, Level1 DEF HierarchyInv, LevelsKept
    <3> QED
      BY <3>1, <3>2 DEF vars1
  <2> QED
    BY <2>1, <2>2
<1>4. LevelsKept' /\ NewestSafe'
  BY <1>1, <1>2, <1>3 DEF HierarchyInv, LevelsKept, NewestSafe, Data
<1>5. HandedDown'
  BY <1>2 DEF HandedDown
<1>6. FlushedOut'
  BY <1>1, <1>2, <1>3 DEF HierarchyInv, FlushedOut, D1!Sets, D1!Ways, D2!Sets, D2!Ways
<1> QED
  BY <1>4, <1>5, <1>6 DEF HierarchyInv

\* Prefetches of both, and dl1 returning to the program.
LEMMA InternalInv ==
  ASSUME HierarchyInv, Internal
  PROVE  HierarchyInv'
<1>0. UNCHANGED <<flushing, newest>>
  BY DEF Internal
<1>1. CASE dl1!Prefetch /\ UNCHANGED vars2
  <2>1. /\ D1!CacheInv' /\ D1!CacheState'
        /\ status1 = "busy" /\ status1' # "idle" /\ calls1 = <<>> /\ pending1 # <<>>
        /\ \A x \in 0 .. ADDRS - 1 : D1!Safe(x) => D1!Safe(x)'
    BY <1>1, Prefetched1 DEF HierarchyInv, LevelsKept
  <2>2. D2!CacheInv' /\ D2!CacheState' /\ \A x : D2!Safe(x) => D2!Safe(x)'
    BY <1>1, Still2, Level2 DEF HierarchyInv, LevelsKept
  <2>3. LevelsKept' /\ NewestSafe'
    BY <1>0, <2>1, <2>2, Parameters DEF HierarchyInv, LevelsKept, NewestSafe, Data
  <2>4. status2' = "idle" /\ flushing' = "none"
    BY <1>0, <1>1, <2>1 DEF HierarchyInv, HandedDown, FlushedOut, vars2
  <2> QED
    BY <2>3, <2>4 DEF HierarchyInv, HandedDown, FlushedOut
<1>2. CASE dl1!Return /\ UNCHANGED vars2
  <2>1. /\ D1!CacheInv' /\ D1!CacheState'
        /\ status1 = "busy" /\ status1' = "idle" /\ UNCHANGED <<blk1, calls1, pending1>>
        /\ \A x : D1!Safe(x) => D1!Safe(x)'
    BY <1>2, Returned1 DEF HierarchyInv, LevelsKept
  <2>2. D2!CacheInv' /\ D2!CacheState' /\ \A x : D2!Safe(x) => D2!Safe(x)'
    BY <1>2, Still2, Level2 DEF HierarchyInv, LevelsKept
  <2>3. LevelsKept' /\ NewestSafe'
    BY <1>0, <2>1, <2>2, Parameters DEF HierarchyInv, LevelsKept, NewestSafe, Data
  <2>4. HandedDown'
    BY <2>1 DEF HandedDown
  <2>5. FlushedOut'
    BY <1>0, <1>2, <2>1 DEF HierarchyInv, FlushedOut, vars2, D1!Sets, D1!Ways, D2!Sets, D2!Ways
  <2> QED
    BY <2>3, <2>4, <2>5 DEF HierarchyInv
<1>3. CASE dl2!Prefetch /\ UNCHANGED vars1
  <2>1. /\ D2!CacheInv' /\ D2!CacheState'
        /\ status2 = "busy" /\ status2' # "idle" /\ calls2 = <<>> /\ pending2 # <<>>
        /\ \A x \in 0 .. ADDRS - 1 : D2!Safe(x) => D2!Safe(x)'
    BY <1>3, Prefetched2 DEF HierarchyInv, LevelsKept
  <2>2. D1!CacheInv' /\ D1!CacheState' /\ \A x : D1!Safe(x) => D1!Safe(x)'
    BY <1>3, Still1, Level1 DEF HierarchyInv, LevelsKept
  <2>3. LevelsKept' /\ NewestSafe'
    BY <1>0, <2>1, <2>2, Parameters DEF HierarchyInv, LevelsKept, NewestSafe, Data
  <2>4. HandedDown'
    BY <1>0, <1>3, <2>1 DEF HierarchyInv, HandedDown, vars1, D1!CACHE_BADDR, Data
  <2>5. FlushedOut'
    <3>1. flushing # "last"
      BY <2>1 DEF HierarchyInv, FlushedOut
    <3> QED
      BY <1>0, <1>3, <3>1 DEF HierarchyInv, FlushedOut, vars1, D1!Sets, D1!Ways
  <2> QED
    BY <2>3, <2>4, <2>5 DEF HierarchyInv
<1> QED
  BY <1>1, <1>2, <1>3 DEF Internal

\* A system call flushes dl1.
LEMMA FlushDl1Inv ==
  ASSUME HierarchyInv, FlushDl1
  PROVE  HierarchyInv'
<1>1. Idle /\ dl1!cache_flush /\ flushing' = "dl2" /\ UNCHANGED <<vars2, newest>>
  BY DEF FlushDl1
<1>2. /\ D1!CacheInv' /\ D1!CacheState'
      /\ pending1' = <<>>
      /\ \A s \in D1!Sets, w \in D1!Ways : ~ blk1'[s][w].valid
      /\ \A x \in 0 .. ADDRS - 1 : D1!Safe(x) => D1!Safe(x)'
  BY <1>1, Flushed1 DEF HierarchyInv, LevelsKept
<1>3. D2!CacheInv' /\ D2!CacheState' /\ \A x : D2!Safe(x) => D2!Safe(x)'
  BY <1>1, Still2, Level2 DEF HierarchyInv, LevelsKept
<1>4. LevelsKept' /\ NewestSafe'
  BY <1>1, <1>2, <1>3, Parameters DEF HierarchyInv, LevelsKept, NewestSafe, Data
<1>5. HandedDown'
  BY <1>1 DEF HandedDown, Idle, vars2
<1>6. FlushedOut'
  BY <1>1, <1>2 DEF FlushedOut, D1!Sets, D1!Ways
<1> QED
  BY <1>4, <1>5, <1>6 DEF HierarchyInv

\* It flushes dl2 when dl1 has written to it.
LEMMA FlushDl2Inv ==
  ASSUME HierarchyInv, FlushDl2
  PROVE  HierarchyInv'
<1>1. flushing = "dl2" /\ status1 = "idle" /\ dl2!cache_flush /\ flushing' = "last" /\ UNCHANGED <<vars1, newest>>
  BY DEF FlushDl2
<1>2. /\ D2!CacheInv' /\ D2!CacheState'
      /\ pending2' = <<>>
      /\ \A s \in D2!Sets, w \in D2!Ways : ~ blk2'[s][w].valid
      /\ \A x \in 0 .. ADDRS - 1 : D2!Safe(x) => D2!Safe(x)'
  BY <1>1, Flushed2 DEF HierarchyInv, LevelsKept
<1>3. D1!CacheInv' /\ D1!CacheState' /\ \A x : D1!Safe(x) => D1!Safe(x)'
  BY <1>1, Still1, Level1 DEF HierarchyInv, LevelsKept
<1>4. LevelsKept' /\ NewestSafe'
  BY <1>1, <1>2, <1>3, Parameters DEF HierarchyInv, LevelsKept, NewestSafe, Data
<1>5. HandedDown'
  BY <1>1 DEF HandedDown, vars1
<1>6. FlushedOut'
  BY <1>1, <1>2 DEF HierarchyInv, FlushedOut, vars1, D1!Sets, D1!Ways, D2!Sets, D2!Ways
<1> QED
  BY <1>4, <1>5, <1>6 DEF HierarchyInv

\* The end of a flush, and a stuttering step.
LEMMA NothingElseInv ==
  ASSUME HierarchyInv, UNCHANGED <<vars1, vars2, newest>>, flushing' = flushing \/ flushing' = "none"
  PROVE  HierarchyInv'
<1>1. D1!CacheInv' /\ D1!CacheState' /\ \A x : D1!Safe(x) => D1!Safe(x)'
  BY Still1, Level1 DEF HierarchyInv, LevelsKept
<1>2. D2!CacheInv' /\ D2!CacheState' /\ \A x : D2!Safe(x) => D2!Safe(x)'
  BY Still2, Level2 DEF HierarchyInv, LevelsKept
<1>3. LevelsKept' /\ NewestSafe'
  BY <1>1, <1>2 DEF HierarchyInv, LevelsKept, NewestSafe, Data
<1>4. HandedDown'
  BY DEF HierarchyInv, HandedDown, vars1, vars2, D1!CACHE_BADDR, Data
<1>5. FlushedOut'
  BY DEF HierarchyInv, FlushedOut, vars1, vars2, D1!Sets, D1!Ways, D2!Sets, D2!Ways
<1> QED
  BY <1>3, <1>4, <1>5 DEF HierarchyInv

\* The invariant holds of two caches just created.
LEMMA HierarchyInit == Init => HierarchyInv
<1> SUFFICES ASSUME Init PROVE HierarchyInv
  OBVIOUS
<1>1. D1!Init /\ D2!Init
  BY SameInit
<1>2. LevelsKept
  BY <1>1, BothCreated, D1!CacheInit, D1!StateInit, D2!CacheInit, D2!StateInit DEF LevelsKept
<1>3. status1 = "idle" /\ flushing = "none" /\ newest = [a \in Data |-> "memory"]
  BY <1>1 DEF Init, D1!Init
<1> QED
  BY <1>2, <1>3 DEF HierarchyInv, NewestSafe, HandedDown, FlushedOut

\* The invariant is inductive.
LEMMA HierarchyStep == ClearOfFirstBlock /\ HierarchyInv /\ [Next]_hierarchyVars => HierarchyInv'
<1> SUFFICES ASSUME ClearOfFirstBlock, HierarchyInv, [Next]_hierarchyVars PROVE HierarchyInv'
  OBVIOUS
<1>1. CASE \E a \in Data : Fetch(a) \/ \E cmd \in Cmds : DataAccess(cmd, a)
  BY <1>1, FetchInv, DataAccessInv
<1>2. CASE FlushEnds
  BY <1>2, NothingElseInv DEF FlushEnds
<1>3. CASE UNCHANGED hierarchyVars
  BY <1>3, NothingElseInv DEF hierarchyVars
<1> QED
  BY <1>1, <1>2, <1>3, HandInv, MemoryInv, Return2Inv, InternalInv, FlushDl1Inv, FlushDl2Inv DEF Next

\* The invariant holds in every state that the hierarchy reaches.
LEMMA HierarchyInvariant == ClearOfFirstBlock => (Spec => []HierarchyInv)
<1> SUFFICES ASSUME ClearOfFirstBlock PROVE Spec => []HierarchyInv
  OBVIOUS
<1>1. HierarchyInv /\ [Next]_hierarchyVars => HierarchyInv'
  BY HierarchyStep
<1> QED
  BY <1>1, HierarchyInit, PTL DEF Spec

\* What is safe is in a dirty block of its set, or on its way down.
LEMMA SafeIsNotLost == HierarchyInv => NoStoreLost
<1> SUFFICES ASSUME HierarchyInv PROVE NoStoreLost
  OBVIOUS
<1>1. ASSUME NEW a \in Data, newest[a] = "dl1"
      PROVE  \/ Resident(blk1, a, dl1!CACHE_SET(a), dl1!CACHE_TAG(a))
             \/ Writing(calls1, dl1!CACHE_BADDR(a))
  <2>1. D1!Safe(a)
    BY <1>1 DEF HierarchyInv, NewestSafe
  <2>2. dl1!CACHE_SET(a) = D1!CACHE_SET(a) /\ dl1!CACHE_TAG(a) = D1!CACHE_TAG(a) /\ dl1!CACHE_BADDR(a) = D1!CACHE_BADDR(a)
    BY DEF dl1!CACHE_SET, D1!CACHE_SET, dl1!CACHE_TAG, D1!CACHE_TAG, dl1!CACHE_BADDR, D1!CACHE_BADDR
  <2>3. CASE D1!GoesDown(a)
    BY <2>2, <2>3 DEF D1!GoesDown, Writing
  <2>4. CASE D1!Dirty(a)
    <3>1. D1!CACHE_SET(a) \in D1!Sets
      BY BothCreated, Parameters, D1!AddressesFit DEF HierarchyInv, LevelsKept, D1!CacheState, D1!TypeOK
    <3>2. DOMAIN blk1[D1!CACHE_SET(a)] = D1!Ways
      BY <3>1 DEF HierarchyInv, LevelsKept, D1!CacheState, D1!TypeOK
    <3> QED
      BY <2>2, <2>4, <3>2 DEF D1!Dirty, Resident
  <2> QED
    BY <2>1, <2>3, <2>4 DEF D1!Safe
<1>2. ASSUME NEW a \in Data, newest[a] = "dl2"
      PROVE  \/ Resident(blk2, a, dl2!CACHE_SET(a), dl2!CACHE_TAG(a))
             \/ Writing(calls2, dl2!CACHE_BADDR(a))
  <2>1. D2!Safe(a)
    BY <1>2 DEF HierarchyInv, NewestSafe
  <2>2. dl2!CACHE_SET(a) = D2!CACHE_SET(a) /\ dl2!CACHE_TAG(a) = D2!CACHE_TAG(a) /\ dl2!CACHE_BADDR(a) = D2!CACHE_BADDR(a)
    BY DEF dl2!CACHE_SET, D2!CACHE_SET, dl2!CACHE_TAG, D2!CACHE_TAG, dl2!CACHE_BADDR, D2!CACHE_BADDR
  <2>3. CASE D2!GoesDown(a)
    BY <2>2, <2>3 DEF D2!GoesDown, Writing
  <2>4. CASE D2!Dirty(a)
    <3>1. D2!CACHE_SET(a) \in D2!Sets
      BY BothCreated, Parameters, D2!AddressesFit DEF HierarchyInv, LevelsKept, D2!CacheState, D2!TypeOK
    <3>2. DOMAIN blk2[D2!CACHE_SET(a)] = D2!Ways
      BY <3>1 DEF HierarchyInv, LevelsKept, D2!CacheState, D2!TypeOK
    <3> QED
      BY <2>2, <2>4, <3>2 DEF D2!Dirty, Resident
  <2> QED
    BY <2>1, <2>3, <2>4 DEF D2!Safe
<1> QED
  BY <1>1, <1>2 DEF NoStoreLost

\* No store is lost: what memory does not have is in a dirty block, or on its way down, at every
\* moment of every access, prefetch and flush, of a program that keeps clear of the first block.
THEOREM StoresAreKept == ClearOfFirstBlock => (Spec => []NoStoreLost)
<1> SUFFICES ASSUME ClearOfFirstBlock PROVE Spec => []NoStoreLost
  OBVIOUS
<1> QED
  BY HierarchyInvariant, SafeIsNotLost, PTL

\* When the flush ends neither cache has anything left.
LEMMA FlushedStep ==
  ASSUME HierarchyInv, [Next]_hierarchyVars, flushing = "last", flushing' = "none"
  PROVE  \A a \in Data : newest'[a] = "memory"
<1>1. FlushEnds
  <2>1. CASE \E a \in Data : Fetch(a) \/ \E cmd \in Cmds : DataAccess(cmd, a)
    BY <2>1 DEF Fetch, DataAccess, Idle
  <2>2. CASE dl1_access_fn \/ dl2_access_fn \/ Return2 \/ Internal \/ FlushDl1 \/ FlushDl2
    BY <2>2 DEF dl1_access_fn, dl2_access_fn, Return2, Internal, FlushDl1, FlushDl2
  <2>3. CASE UNCHANGED hierarchyVars
    BY <2>3 DEF hierarchyVars
  <2> QED
    BY <2>1, <2>2, <2>3 DEF Next
<1>2. status1 = "idle" /\ status2 = "idle" /\ newest' = newest
  BY <1>1 DEF FlushEnds, HierarchyInv, FlushedOut
<1>3. calls1 = <<>> /\ calls2 = <<>>
  BY <1>2 DEF HierarchyInv, LevelsKept, D1!CacheState, D2!CacheState
<1>4. ASSUME NEW a \in Data PROVE newest[a] = "memory"
  <2>1. a \in 0 .. ADDRS - 1
    BY Parameters
  <2>2. D1!CACHE_SET(a) \in D1!Sets /\ D2!CACHE_SET(a) \in D2!Sets
    BY <2>1, BothCreated, D1!AddressesFit, D2!AddressesFit
       DEF HierarchyInv, LevelsKept, D1!CacheState, D1!TypeOK, D2!CacheState, D2!TypeOK
  <2>3. ~ D1!Dirty(a) /\ ~ D2!Dirty(a)
    BY <2>2 DEF HierarchyInv, FlushedOut, D1!Dirty, D2!Dirty
  <2>4. ~ D1!GoesDown(a) /\ ~ D2!GoesDown(a)
    BY <1>3 DEF D1!GoesDown, D2!GoesDown
  <2>5. ~ D1!Safe(a) /\ ~ D2!Safe(a)
    BY <2>3, <2>4 DEF D1!Safe, D2!Safe
  <2> QED
    BY <2>5 DEF HierarchyInv, NewestSafe
<1> QED
  BY <1>2, <1>4

\* A system call that flushes the caches finds everything in memory: dl2 is flushed only when all
\* that dl1 has written back has reached it.
THEOREM FlushReachesMemory == ClearOfFirstBlock => (Spec => FlushedIntoMemory)
<1> SUFFICES ASSUME ClearOfFirstBlock PROVE Spec => FlushedIntoMemory
  OBVIOUS
<1>1. HierarchyInv /\ [Next]_hierarchyVars
      => [flushing = "last" /\ flushing' = "none" => \A a \in Data : newest'[a] = "memory"]_hierarchyVars
  BY FlushedStep
<1> QED
  BY <1>1, HierarchyInvariant, PTL DEF Spec, FlushedIntoMemory
=============================================================================
