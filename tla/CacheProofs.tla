---------------------------- MODULE CacheProofs ----------------------------
(***************************************************************************)
(* The cache, for every geometry, hash table, replacement policy and       *)
(* prefetcher, whoever calls it.  CacheInv is inductive: a look-up finds   *)
(* the block if there is one; one lemma per way a block or a bucket can    *)
(* change.  With it so is CacheState: the types, the flush's list of       *)
(* write-backs included, and the order of each set.  From both follow      *)
(* what LRU keeps (HitStays), that no data is lost (Safe), and, with the   *)
(* valid blocks of a set first in its list (ValidFirst), that the blocks   *)
(* are replaced in the order promised.                                     *)
(***************************************************************************)
EXTENDS CacheRefinement, FiniteSetTheorems, WellFoundedInduction, TLAPS

geometry == <<policy, nsets, bsize, assoc, prefetch, hsize>>

BlocksTyped ==
  /\ cp \in Configs
  /\ blk \in [Sets -> [Ways -> [tag : Nat, valid : BOOLEAN, dirty : BOOLEAN]]]
  /\ hash \in [Sets -> [Buckets -> SUBSET Ways]]
  /\ last_tagset \in Nat
  /\ last_blk \in (Sets \X Ways) \cup {NULL}
  /\ pending \in Seq(0 .. ADDRS - 1)

CacheInv == BlocksTyped /\ LastBlockHolds /\ BucketsComplete /\ OneCopy

\* The parameters of a cache are positive, and its hash table has a bucket if
\* it has one at all.
LEMMA GeometryType ==
  ASSUME cp \in Configs
  PROVE  /\ nsets \in Nat \ {0} /\ bsize \in Nat \ {0} /\ assoc \in Nat \ {0}
         /\ hsize \in Nat
<1>1. PowersOfTwo \subseteq Nat \ {0}
  BY DEF PowersOfTwo
<1>2. cp \in [policy : {"LRU", "Random", "FIFO"}, hsize : {0} \cup PowersOfTwo,
               nsets : PowersOfTwo, bsize : PowersOfTwo, assoc : PowersOfTwo,
               prefetch : BOOLEAN]
  BY CacheAssumption
<1>3. /\ cp.nsets = nsets /\ cp.bsize = bsize /\ cp.assoc = assoc /\ cp.hsize = hsize
  BY DEF cp
<1>4. nsets \in PowersOfTwo /\ bsize \in PowersOfTwo /\ assoc \in PowersOfTwo
      /\ hsize \in {0} \cup PowersOfTwo
  BY <1>2, <1>3
<1> QED
  BY <1>1, <1>4

\* A block address lies in the set, and has the tag, of the addresses of the block.
LEMMA BlockAddress ==
  ASSUME cp \in Configs, NEW a \in Nat
  PROVE  /\ CACHE_BADDR(a) \in Nat
         /\ CACHE_SET(a) \in Sets /\ CACHE_TAG(a) \in Nat
         /\ CACHE_SET(CACHE_BADDR(a)) = CACHE_SET(a)
         /\ CACHE_TAG(CACHE_BADDR(a)) = CACHE_TAG(a)
<1> DEFINE q == a \div bsize
<1>0. nsets \in Nat \ {0} /\ bsize \in Nat \ {0}
  BY GeometryType
<1>1. q \in Nat /\ a - (a % bsize) = bsize * q
  BY <1>0
<1>2. (bsize * q) \div bsize = q
  BY <1>0, <1>1
<1>3. \A x \in Nat : x \div (bsize * nsets) = (x \div bsize) \div nsets
  BY <1>0
<1>4. bsize * q \in Nat
  BY <1>0, <1>1
<1>5. a \div (bsize * nsets) = q \div nsets /\ (bsize * q) \div (bsize * nsets) = q \div nsets
  BY <1>2, <1>3, <1>4
<1> HIDE DEF q
<1>6. q \div nsets \in Nat /\ q % nsets \in 0 .. nsets - 1
  BY <1>0, <1>1
<1> QED
  BY <1>1, <1>2, <1>4, <1>5, <1>6 DEF CACHE_BADDR, CACHE_SET, CACHE_TAG, Sets, q

\* The bucket of a tag is one of the table's.
LEMMA BucketExists ==
  ASSUME cp \in Configs, hsize > 0, NEW tag \in Nat
  PROVE  CACHE_HASH(tag) \in Buckets
<1> QED
  BY DEF CACHE_HASH, Buckets

\* A search sees every block of the set that has the tag.
LEMMA SearchIsComplete ==
  ASSUME BlocksTyped, BucketsComplete, NEW a \in Nat, NEW w \in Ways,
         blk[CACHE_SET(a)][w].valid, blk[CACHE_SET(a)][w].tag = CACHE_TAG(a)
  PROVE  w \in Found(a)
<1>1. CACHE_SET(a) \in Sets /\ CACHE_TAG(a) \in Nat
  BY BlockAddress DEF BlocksTyped
<1>2. CASE hsize = 0
  BY <1>2 DEF Found, Chain
<1>3. CASE hsize # 0
  <2>1. hsize > 0
    BY <1>3, GeometryType DEF BlocksTyped
  <2>2. CACHE_HASH(CACHE_TAG(a)) \in Buckets
    BY <1>1, <2>1, BucketExists DEF BlocksTyped
  <2> QED BY <1>1, <1>3, <2>1, <2>2 DEF BucketsComplete, Found, Chain
<1> QED
  BY <1>2, <1>3

\* The invariant holds of a cache just created: no block is valid, and all
\* are in the bucket of tag 0.
LEMMA CacheInit == Init => CacheInv
<1> SUFFICES ASSUME Init PROVE CacheInv
  OBVIOUS
<1>1. cp \in Configs
  BY CacheAssumption DEF Init, cp
<1>2. BlocksTyped
  <2>1. blk \in [Sets -> [Ways -> [tag : Nat, valid : BOOLEAN, dirty : BOOLEAN]]]
    BY DEF Init
  <2>2. hash \in [Sets -> [Buckets -> SUBSET Ways]]
    BY DEF Init
  <2>3. last_tagset \in Nat /\ last_blk = NULL /\ pending \in Seq(0 .. ADDRS - 1)
    BY DEF Init
  <2> QED BY <1>1, <2>1, <2>2, <2>3 DEF BlocksTyped
<1>3. LastBlockHolds
  BY DEF Init, LastBlockHolds
<1>4. BucketsComplete
  BY DEF Init, BucketsComplete
<1>5. OneCopy
  BY DEF Init, OneCopy
<1> QED
  BY <1>2, <1>3, <1>4, <1>5 DEF CacheInv

-----------------------------------------------------------------------------
\* The hash table of a cache keeps its buckets.
LEMMA BucketsStay ==
  ASSUME UNCHANGED hsize
  PROVE  HashBits' = HashBits /\ Buckets' = Buckets
<1>1. HashBits' = HashBits
  BY DEF HashBits
<1> QED
  BY <1>1 DEF Buckets

\* The blocks are where they were: only dirty bits change.
LEMMA DirtyBitsAlone ==
  ASSUME CacheInv, UNCHANGED geometry, UNCHANGED hash,
         NEW cmd, NEW s \in Sets, NEW w \in Ways, MarkDirty(cmd, s, w),
         pending' \in Seq(0 .. ADDRS - 1),
         \/ UNCHANGED <<last_tagset, last_blk>>
         \/ /\ last_tagset' \in Nat /\ last_blk' = <<s, w>>
            /\ Holds(last_blk, last_tagset)'
  PROVE  CacheInv'
<1>0. /\ Sets' = Sets /\ Ways' = Ways /\ cp' = cp /\ hsize' = hsize
      /\ HashBits' = HashBits /\ Buckets' = Buckets
      /\ nsets' = nsets /\ bsize' = bsize
  BY BucketsStay DEF geometry, Sets, Ways, cp
<1>1. /\ blk' \in [Sets -> [Ways -> [tag : Nat, valid : BOOLEAN, dirty : BOOLEAN]]]
      /\ \A r \in Sets, v \in Ways : /\ blk'[r][v].tag = blk[r][v].tag
                                     /\ blk'[r][v].valid = blk[r][v].valid
  <2> DEFINE d == blk[s][w].dirty \/ cmd = "Write"
  <2>1. d \in BOOLEAN
    OBVIOUS
  <2>2. blk' = [blk EXCEPT ![s][w].dirty = d]
    BY DEF MarkDirty
  <2>3. blk \in [Sets -> [Ways -> [tag : Nat, valid : BOOLEAN, dirty : BOOLEAN]]]
    BY DEF CacheInv, BlocksTyped
  <2> HIDE DEF d
  <2> QED BY <2>1, <2>2, <2>3
<1>2. BlocksTyped'
  BY <1>0, <1>1 DEF CacheInv, BlocksTyped
<1>3. BucketsComplete'
  <2> SUFFICES ASSUME hsize > 0, NEW r \in Sets, NEW v \in Ways, NEW h \in Buckets
               PROVE  v \in hash[r][h] <=> h = CACHE_HASH(blk'[r][v].tag)
    BY <1>0 DEF BucketsComplete, CACHE_HASH, Bit
  <2>1. blk'[r][v].tag = blk[r][v].tag
    BY <1>1
  <2>2. v \in hash[r][h] <=> h = CACHE_HASH(blk[r][v].tag)
    BY DEF CacheInv, BucketsComplete
  <2> QED BY <2>1, <2>2
<1>4. OneCopy'
  <2> SUFFICES ASSUME NEW r \in Sets, NEW u \in Ways, NEW v \in Ways,
                      blk'[r][u].valid, blk'[r][v].valid, blk'[r][u].tag = blk'[r][v].tag
               PROVE  u = v
    BY <1>0 DEF OneCopy
  <2>1. /\ blk[r][u].valid /\ blk[r][v].valid
        /\ blk[r][u].tag = blk[r][v].tag
    BY <1>1
  <2> QED BY <2>1 DEF CacheInv, OneCopy
<1>5. LastBlockHolds'
  <2>1. CASE UNCHANGED <<last_tagset, last_blk>>
    <3>1. ASSUME last_blk # NULL
          PROVE  /\ last_blk[1] \in Sets /\ last_blk[2] \in Ways
                 /\ last_blk[1] = CACHE_SET(last_tagset)
                 /\ blk[last_blk[1]][last_blk[2]].valid
                 /\ blk[last_blk[1]][last_blk[2]].tag = CACHE_TAG(last_tagset)
      BY <3>1 DEF CacheInv, BlocksTyped, LastBlockHolds, Holds
    <3>2. CACHE_SET(last_tagset)' = CACHE_SET(last_tagset) /\ CACHE_TAG(last_tagset)' = CACHE_TAG(last_tagset)
      BY <1>0, <2>1 DEF CACHE_SET, CACHE_TAG
    <3> QED BY <1>1, <2>1, <3>1, <3>2 DEF LastBlockHolds, Holds, NULL
  <2>2. CASE last_tagset' \in Nat /\ last_blk' = <<s, w>> /\ Holds(last_blk, last_tagset)'
    BY <2>2 DEF LastBlockHolds
  <2> QED BY <2>1, <2>2
<1> QED
  BY <1>2, <1>3, <1>4, <1>5 DEF CacheInv

\* A hit remembers its block, which holds the address.
LEMMA HitInv ==
  ASSUME CacheInv, UNCHANGED geometry, NEW cmd, NEW a \in Nat, NEW w \in Ways,
         Hit(cmd, a, w), pending' \in Seq(0 .. ADDRS - 1)
  PROVE  CacheInv'
<1> DEFINE s == CACHE_SET(a)
<1>1. s \in Sets /\ CACHE_BADDR(a) \in Nat
  BY BlockAddress DEF CacheInv, BlocksTyped
<1>2. /\ MarkDirty(cmd, s, w) /\ UNCHANGED hash
      /\ last_tagset' = CACHE_BADDR(a) /\ last_blk' = <<s, w>>
  BY DEF Hit
<1>3. blk[s][w].valid /\ blk[s][w].tag = CACHE_TAG(a)
  BY DEF Hit, Found
<1>4. blk'[s][w].valid = blk[s][w].valid /\ blk'[s][w].tag = blk[s][w].tag
  BY <1>1, <1>2 DEF MarkDirty, CacheInv, BlocksTyped
<1>5. Holds(last_blk, last_tagset)'
  <2>1. /\ CACHE_SET(CACHE_BADDR(a)) = s
        /\ CACHE_TAG(CACHE_BADDR(a)) = CACHE_TAG(a)
    BY BlockAddress DEF CacheInv, BlocksTyped
  <2>2. CACHE_SET(last_tagset)' = s /\ CACHE_TAG(last_tagset)' = CACHE_TAG(a)
    BY <1>2, <2>1 DEF geometry, CACHE_SET, CACHE_TAG
  <2> QED BY <1>2, <1>3, <1>4, <2>2 DEF Holds
<1> QED
  BY <1>1, <1>2, <1>5, DirtyBitsAlone

\* A miss replaces a block, after a search that would have seen a copy of it.
LEMMA MissInv ==
  ASSUME CacheInv, UNCHANGED geometry, NEW cmd, NEW a \in Nat, NEW isPrefetch,
         NEW w \in Ways, Miss(cmd, a, isPrefetch, w), pending' \in Seq(0 .. ADDRS - 1)
  PROVE  CacheInv'
<1> DEFINE s == CACHE_SET(a)
           t == CACHE_TAG(a)
<1>0. /\ Sets' = Sets /\ Ways' = Ways /\ cp' = cp /\ hsize' = hsize
      /\ HashBits' = HashBits /\ Buckets' = Buckets
  BY BucketsStay DEF geometry, Sets, Ways, cp
<1>1. s \in Sets /\ t \in Nat
  BY BlockAddress DEF CacheInv, BlocksTyped
<1>2. /\ blk' = [blk EXCEPT ![s][w] = [tag |-> t, valid |-> TRUE, dirty |-> cmd = "Write"]]
      /\ hash' = [hash EXCEPT ![s] = Relink(@, blk[s][w].tag, t, w)]
      /\ last_tagset' = 0 /\ last_blk' = NULL
  BY DEF Miss, ForgetLast
<1>3. Found(a) = {}
  BY DEF Miss, cache_probe
<1> HIDE DEF s, t
<1>4. /\ blk' \in [Sets -> [Ways -> [tag : Nat, valid : BOOLEAN, dirty : BOOLEAN]]]
      /\ blk'[s][w].tag = t
      /\ \A r \in Sets, v \in Ways : r # s \/ v # w => blk'[r][v] = blk[r][v]
  BY <1>1, <1>2 DEF CacheInv, BlocksTyped
<1>5. /\ hash' \in [Sets -> [Buckets -> SUBSET Ways]]
      /\ \A r \in Sets : r # s => hash'[r] = hash[r]
      /\ \A h \in Buckets :
           hash'[s][h] = IF h = CACHE_HASH(t) THEN hash[s][h] \cup {w}
                         ELSE IF h = CACHE_HASH(blk[s][w].tag) THEN hash[s][h] \ {w} ELSE hash[s][h]
  BY <1>1, <1>2 DEF CacheInv, BlocksTyped, Relink
<1>6. BlocksTyped'
  BY <1>0, <1>2, <1>4, <1>5 DEF CacheInv, BlocksTyped
<1>7. LastBlockHolds'
  BY <1>2 DEF LastBlockHolds
<1>8. BucketsComplete'
  <2> SUFFICES ASSUME hsize > 0, NEW r \in Sets, NEW v \in Ways, NEW h \in Buckets
               PROVE  v \in hash'[r][h] <=> h = CACHE_HASH(blk'[r][v].tag)
    BY <1>0 DEF BucketsComplete, CACHE_HASH, Bit
  <2>1. v \in hash[r][h] <=> h = CACHE_HASH(blk[r][v].tag)
    BY DEF CacheInv, BucketsComplete
  <2>2. CASE r = s /\ v = w
    BY <1>4, <1>5, <2>1, <2>2
  <2>3. CASE r = s /\ v # w
    <3>1. v \in hash'[s][h] <=> v \in hash[s][h]
      BY <1>5, <2>3
    <3>2. blk'[s][v] = blk[s][v]
      BY <1>1, <1>4, <2>3
    <3> QED BY <2>1, <2>3, <3>1, <3>2
  <2>4. CASE r # s
    BY <1>4, <1>5, <2>1, <2>4
  <2> QED BY <2>2, <2>3, <2>4
<1>9. OneCopy'
  <2>1. ASSUME NEW v \in Ways, v # w, blk[s][v].valid
        PROVE  blk[s][v].tag # t
    BY <1>3, <2>1, SearchIsComplete DEF CacheInv, s, t
  <2> SUFFICES ASSUME NEW r \in Sets, NEW u \in Ways, NEW v \in Ways,
                      blk'[r][u].valid, blk'[r][v].valid, blk'[r][u].tag = blk'[r][v].tag
               PROVE  u = v
    BY <1>0 DEF OneCopy
  <2>2. CASE r # s
    BY <1>4, <2>2 DEF CacheInv, OneCopy
  <2>3. CASE r = s /\ u # w /\ v # w
    BY <1>4, <2>3 DEF CacheInv, OneCopy
  <2>4. CASE r = s /\ (u = w \/ v = w)
    BY <1>4, <2>1, <2>4
  <2> QED BY <2>2, <2>3, <2>4
<1> QED
  BY <1>6, <1>7, <1>8, <1>9 DEF CacheInv

\* cache_access keeps the invariant, whichever way it goes.
LEMMA AccessInv ==
  ASSUME CacheInv, UNCHANGED geometry, NEW cmd, NEW a \in Nat, NEW isPrefetch,
         Access(cmd, a, isPrefetch), pending' \in Seq(0 .. ADDRS - 1)
  PROVE  CacheInv'
<1>1. CASE FastHit(cmd, a)
  <2>1. PICK s \in Sets, w \in Ways : last_blk = <<s, w>>
    BY <1>1 DEF FastHit, CacheInv, BlocksTyped
  <2>2. MarkDirty(cmd, s, w) /\ UNCHANGED <<hash, last_tagset, last_blk>>
    BY <1>1, <2>1 DEF FastHit
  <2> QED BY <2>2, DirtyBitsAlone
<1>2. CASE NullHit(a)
  BY <1>2, BucketsStay
     DEF NullHit, CacheInv, BlocksTyped, LastBlockHolds, BucketsComplete, OneCopy, Holds,
         geometry, cp, Sets, Ways, CACHE_SET, CACHE_TAG, CACHE_HASH, Bit
<1>3. ASSUME NEW w \in Ways, Hit(cmd, a, w) \/ Miss(cmd, a, isPrefetch, w) PROVE CacheInv'
  BY <1>3, HitInv, MissInv
<1> QED
  BY <1>1, <1>2, <1>3 DEF Access

-----------------------------------------------------------------------------
\* A flush of one block or of all: tags stay, so buckets do, and no block is
\* remembered.
LEMMA FlushInv ==
  ASSUME CacheInv, UNCHANGED <<geometry, hash, pending>>, ForgetLast,
         blk' \in [Sets -> [Ways -> [tag : Nat, valid : BOOLEAN, dirty : BOOLEAN]]],
         \A r \in Sets, v \in Ways : /\ blk'[r][v].tag = blk[r][v].tag
                                     /\ blk'[r][v].valid => blk[r][v].valid
  PROVE  CacheInv'
<1>0. /\ Sets' = Sets /\ Ways' = Ways /\ cp' = cp /\ hsize' = hsize
      /\ HashBits' = HashBits /\ Buckets' = Buckets
  BY BucketsStay DEF geometry, Sets, Ways, cp
<1>1. BlocksTyped' /\ LastBlockHolds'
  BY <1>0 DEF CacheInv, BlocksTyped, LastBlockHolds, ForgetLast
<1>2. BucketsComplete'
  <2> SUFFICES ASSUME hsize > 0, NEW r \in Sets, NEW v \in Ways, NEW h \in Buckets
               PROVE  v \in hash[r][h] <=> h = CACHE_HASH(blk'[r][v].tag)
    BY <1>0 DEF BucketsComplete, CACHE_HASH, Bit
  <2>1. v \in hash[r][h] <=> h = CACHE_HASH(blk[r][v].tag)
    BY DEF CacheInv, BucketsComplete
  <2> QED BY <2>1
<1>3. OneCopy'
  <2> SUFFICES ASSUME NEW r \in Sets, NEW u \in Ways, NEW v \in Ways,
                      blk'[r][u].valid, blk'[r][v].valid, blk'[r][u].tag = blk'[r][v].tag
               PROVE  u = v
    BY <1>0 DEF OneCopy
  <2>1. blk[r][u].valid /\ blk[r][v].valid /\ blk[r][u].tag = blk[r][v].tag
    OBVIOUS
  <2> QED BY <2>1 DEF CacheInv, OneCopy
<1> QED
  BY <1>1, <1>2, <1>3 DEF CacheInv

\* A block that a flush makes invalid keeps its tag.
LEMMA Invalidated ==
  ASSUME NEW b \in [tag : Nat, valid : BOOLEAN, dirty : BOOLEAN]
  PROVE  /\ [b EXCEPT !.valid = FALSE] \in [tag : Nat, valid : BOOLEAN, dirty : BOOLEAN]
         /\ [b EXCEPT !.valid = FALSE].tag = b.tag
         /\ [b EXCEPT !.valid = FALSE].valid = FALSE
OBVIOUS

\* A step that leaves blocks, buckets and last block alone keeps the
\* invariant.
LEMMA Unchanged ==
  ASSUME CacheInv, UNCHANGED <<geometry, blk, hash, last_tagset, last_blk>>,
         pending' \in Seq(0 .. ADDRS - 1)
  PROVE  CacheInv'
BY BucketsStay
   DEF CacheInv, BlocksTyped, LastBlockHolds, BucketsComplete, OneCopy, Holds,
       geometry, cp, Sets, Ways, CACHE_SET, CACHE_TAG, CACHE_HASH, Bit

\* What may happen to a cache, whoever calls it and with whatever targets.
AnyStep ==
  /\ UNCHANGED geometry
  /\ \/ \E cmd \in {"Read", "Write"}, a \in 0 .. ADDRS - 1, pf \in BOOLEAN, targets \in Seq(0 .. ADDRS - 1) :
          cache_access(cmd, a, pf, targets)
     \/ Prefetch \/ Served \/ Return
     \/ cache_flush
     \/ \E a \in 0 .. ADDRS - 1 : cache_flush_addr(a)

\* The program's steps are among those of any caller.
LEMMA NextIsAnyStep == Next => AnyStep
<1> SUFFICES ASSUME Next PROVE AnyStep
  OBVIOUS
<1>a. DataAddrs \subseteq 0 .. ADDRS - 1 /\ Cmds \subseteq {"Read", "Write"}
  BY CacheAssumption
<1>1. UNCHANGED geometry
  BY DEF Next, geometry
<1>2. ASSUME NEW cmd \in Cmds, NEW a \in DataAddrs,
             NEW targets \in IF prefetch THEN PrefetchTargets(a) ELSE {<<>>},
             cache_access(cmd, a, FALSE, targets)
      PROVE  AnyStep
  <2>1. PrefetchTargets(a) \subseteq Seq(0 .. ADDRS - 1)
    BY <1>a, CacheAssumption
  <2>2. <<>> \in Seq(0 .. ADDRS - 1)
    OBVIOUS
  <2>3. targets \in Seq(0 .. ADDRS - 1)
    BY <2>1, <2>2, Zenon
  <2> QED BY <1>a, <1>1, <1>2, <2>3, Zenon DEF AnyStep
<1>3. ASSUME NEW a \in DataAddrs, cache_flush_addr(a) PROVE AnyStep
  BY <1>a, <1>1, <1>3, Zenon DEF AnyStep
<1>4. CASE Prefetch \/ Served \/ Return \/ cache_flush
  BY <1>1, <1>4, Zenon DEF AnyStep
<1> QED
  BY <1>2, <1>3, <1>4, Zenon DEF Next

\* The invariant is inductive, whoever calls the cache.
LEMMA CacheStep == CacheInv /\ (AnyStep \/ UNCHANGED cacheVars) => CacheInv'
<1> SUFFICES ASSUME CacheInv, AnyStep \/ UNCHANGED cacheVars PROVE CacheInv'
  OBVIOUS
<1>p. pending \in Seq(0 .. ADDRS - 1)
  BY DEF CacheInv, BlocksTyped
<1>a. 0 .. ADDRS - 1 \subseteq Nat
  BY CacheAssumption
<1>1. ASSUME NEW cmd, NEW a \in 0 .. ADDRS - 1, NEW pf, NEW targets \in Seq(0 .. ADDRS - 1),
             cache_access(cmd, a, pf, targets), UNCHANGED geometry
      PROVE  CacheInv'
  <2>2. a \in Nat /\ Access(cmd, a, pf) /\ pending' = targets
    BY <1>a, <1>1 DEF cache_access
  <2> QED BY <1>1, <2>2, AccessInv
<1>2. ASSUME Prefetch, UNCHANGED geometry PROVE CacheInv'
  <2> DEFINE t == CACHE_BADDR(Head(pending))
  <2>1. Head(pending) \in Nat /\ pending' \in Seq(0 .. ADDRS - 1)
    <3>1. ASSUME NEW S, NEW q \in Seq(S), q # <<>>
          PROVE  Head(q) \in S /\ Tail(q) \in Seq(S)
      BY <3>1
    <3>2. pending # <<>> /\ pending' = Tail(pending)
      BY <1>2 DEF Prefetch
    <3>3. Head(pending) \in 0 .. ADDRS - 1 /\ Tail(pending) \in Seq(0 .. ADDRS - 1)
      BY <1>p, <3>1, <3>2
    <3> QED BY <1>a, <3>2, <3>3
  <2>2. t \in Nat
    BY <2>1, BlockAddress DEF CacheInv, BlocksTyped
  <2> HIDE DEF t
  <2>3. CASE cache_probe(t)
    BY <1>2, <2>1, <2>3, Unchanged DEF Prefetch, t
  <2>4. CASE ~cache_probe(t)
    <3>1. Access("Read", t, TRUE)
      BY <1>2, <2>4 DEF Prefetch, t
    <3> QED BY <1>2, <2>1, <2>2, <3>1, AccessInv
  <2> QED BY <2>3, <2>4
<1>3. ASSUME Served \/ Return, UNCHANGED geometry PROVE CacheInv'
  BY <1>p, <1>3, Unchanged DEF Served, Return
<1>4. ASSUME cache_flush, UNCHANGED geometry PROVE CacheInv'
  <2>1. /\ blk' = [s \in Sets |-> [w \in Ways |-> [blk[s][w] EXCEPT !.valid = FALSE]]]
        /\ ForgetLast /\ UNCHANGED <<hash, pending>>
    BY <1>4 DEF cache_flush
  <2>2. /\ blk' \in [Sets -> [Ways -> [tag : Nat, valid : BOOLEAN, dirty : BOOLEAN]]]
        /\ \A r \in Sets, v \in Ways : /\ blk'[r][v].tag = blk[r][v].tag
                                       /\ blk'[r][v].valid => blk[r][v].valid
    <3>1. blk \in [Sets -> [Ways -> [tag : Nat, valid : BOOLEAN, dirty : BOOLEAN]]]
      BY DEF CacheInv, BlocksTyped
    <3>2. \A r \in Sets, v \in Ways : blk'[r][v] = [blk[r][v] EXCEPT !.valid = FALSE]
      BY <2>1
    <3>3. \A r \in Sets, v \in Ways :
            /\ [blk[r][v] EXCEPT !.valid = FALSE] \in [tag : Nat, valid : BOOLEAN, dirty : BOOLEAN]
            /\ blk'[r][v].tag = blk[r][v].tag /\ blk'[r][v].valid = FALSE
      <4> SUFFICES ASSUME NEW r \in Sets, NEW v \in Ways
                   PROVE  /\ [blk[r][v] EXCEPT !.valid = FALSE] \in [tag : Nat, valid : BOOLEAN, dirty : BOOLEAN]
                          /\ blk'[r][v].tag = blk[r][v].tag /\ blk'[r][v].valid = FALSE
        OBVIOUS
      <4>1. blk[r][v] \in [tag : Nat, valid : BOOLEAN, dirty : BOOLEAN]
        BY <3>1
      <4> QED BY <3>2, <4>1, Invalidated
    <3> QED BY <2>1, <3>3
  <2> QED BY <1>4, <2>1, <2>2, FlushInv
<1>5. ASSUME NEW a \in 0 .. ADDRS - 1, cache_flush_addr(a), UNCHANGED geometry PROVE CacheInv'
  <2> DEFINE s == CACHE_SET(a)
  <2>1. s \in Sets
    BY <1>a, BlockAddress DEF CacheInv, BlocksTyped
  <2>2. PICK w \in Found(a) : blk' = [blk EXCEPT ![s][w].valid = FALSE]
    BY <1>5 DEF cache_flush_addr
  <2>3. ForgetLast /\ UNCHANGED <<hash, pending>>
    BY <1>5 DEF cache_flush_addr
  <2> HIDE DEF s
  <2>4. /\ blk' \in [Sets -> [Ways -> [tag : Nat, valid : BOOLEAN, dirty : BOOLEAN]]]
        /\ \A r \in Sets, v \in Ways : /\ blk'[r][v].tag = blk[r][v].tag
                                       /\ blk'[r][v].valid => blk[r][v].valid
    <3>1. blk \in [Sets -> [Ways -> [tag : Nat, valid : BOOLEAN, dirty : BOOLEAN]]]
      BY DEF CacheInv, BlocksTyped
    <3>2. blk' = [blk EXCEPT ![s] = [blk[s] EXCEPT ![w] = [blk[s][w] EXCEPT !.valid = FALSE]]]
      BY <2>2
    <3>3. w \in Ways => [blk[s][w] EXCEPT !.valid = FALSE] \in [tag : Nat, valid : BOOLEAN, dirty : BOOLEAN]
      BY <2>1, <3>1, Invalidated
    <3>4. [blk[s] EXCEPT ![w] = [blk[s][w] EXCEPT !.valid = FALSE]]
            \in [Ways -> [tag : Nat, valid : BOOLEAN, dirty : BOOLEAN]]
      BY <2>1, <3>1, <3>3
    <3>5. \A r \in Sets, v \in Ways :
            blk'[r][v] = IF r = s /\ v = w THEN [blk[r][v] EXCEPT !.valid = FALSE] ELSE blk[r][v]
      BY <2>1, <3>1, <3>2
    <3>6. \A r \in Sets, v \in Ways : /\ blk'[r][v].tag = blk[r][v].tag
                                       /\ blk'[r][v].valid => blk[r][v].valid
      BY <3>1, <3>5
    <3> QED BY <2>1, <3>1, <3>2, <3>4, <3>6
  <2> QED BY <1>5, <2>3, <2>4, FlushInv
<1>6. CASE UNCHANGED cacheVars
  <2>1. UNCHANGED <<geometry, blk, hash, last_tagset, last_blk, pending>>
    BY <1>6 DEF cacheVars, cp, geometry
  <2> QED BY <1>p, <2>1, Unchanged
<1> QED
  BY <1>1, <1>2, <1>3, <1>4, <1>5, <1>6 DEF AnyStep

-----------------------------------------------------------------------------
\* The invariant holds in every state the cache reaches.
LEMMA CacheInvariant == Spec => []CacheInv
BY CacheInit, NextIsAnyStep, CacheStep, PTL DEF Spec

\* A fast hit is a hit: whatever is replaced, prefetched or flushed, the block
\* remembered as the last to hit still holds the address it is remembered for.
THEOREM FastHitsAreHits == Spec => []LastBlockHolds
<1>1. CacheInv => LastBlockHolds
  BY DEF CacheInv
<1> QED
  BY <1>1, CacheInvariant, PTL

\* Every block stays in the hash bucket of its tag, and in no other, across
\* any number of replacements and flushes.
THEOREM HashTableComplete == Spec => []BucketsComplete
<1>1. CacheInv => BucketsComplete
  BY DEF CacheInv
<1> QED
  BY <1>1, CacheInvariant, PTL

\* No address is ever in two blocks of its set, though a miss searches one
\* bucket only and prefetches fill blocks as well.
THEOREM NoSecondCopy == Spec => []OneCopy
<1>1. CacheInv => OneCopy
  BY DEF CacheInv
<1> QED
  BY <1>1, CacheInvariant, PTL

-----------------------------------------------------------------------------
\* A set of natural numbers that is not empty has a least element: of the
\* intervals from 0 to its elements one is minimal for strict inclusion.
LEMMA LeastExists ==
  ASSUME NEW S \in SUBSET Nat, S # {}
  PROVE  \E m \in S : \A n \in S : m <= n
<1> DEFINE T == {0 .. n : n \in S}
<1>1. T \subseteq FiniteSubsetsOf(Nat) /\ T # {}
  <2>1. ASSUME NEW n \in S PROVE 0 .. n \in SUBSET Nat /\ IsFiniteSet(0 .. n)
    BY FS_Interval
  <2> QED BY <2>1 DEF FiniteSubsetsOf
<1>2. PICK x \in T : \A y \in T : ~ (<<y, x>> \in StrictSubsetOrdering(Nat))
  <2> HIDE DEF T
  <2> QED BY <1>1, FS_StrictSubsetOrderingWellFounded, WFMin
<1>3. PICK m \in S : x = 0 .. m
  BY DEF T
<1>4. ASSUME NEW n \in S PROVE m <= n
  <2>1. SUFFICES ASSUME n < m PROVE FALSE
    OBVIOUS
  <2>2. 0 .. n \in T /\ 0 .. n \subseteq 0 .. m /\ 0 .. n # 0 .. m
    <3>1. m \in 0 .. m /\ m \notin 0 .. n
      BY <2>1
    <3> QED BY <2>1, <3>1 DEF T
  <2>3. 0 .. n \in SUBSET Nat /\ 0 .. m \in SUBSET Nat
    BY <2>1
  <2>4. <<0 .. n, 0 .. m>> \in StrictSubsetOrdering(Nat)
    <3> HIDE DEF T
    <3>1. <<0 .. n, 0 .. m>> \in (SUBSET Nat) \X (SUBSET Nat)
      BY <2>3
    <3> QED BY <2>2, <3>1 DEF StrictSubsetOrdering
  <2> QED
    <3> HIDE DEF T
    <3> QED BY <1>2, <1>3, <2>2, <2>4
<1> QED
  BY <1>4

\* What concatenates the first n of N sequences, for each n, by recursion.
Concatenates(f, W, N) == f = [n \in 0 .. N |-> IF n = 0 THEN <<>> ELSE f[n - 1] \o W[n]]

\* There is such a function: a least N without one would have one more than that of N - 1.
LEMMA ConcatenationExists ==
  ASSUME NEW N \in Nat, NEW W
  PROVE  \E f : Concatenates(f, W, N)
<1> DEFINE Has(M) == \E f : Concatenates(f, W, M)
           Bad == {M \in Nat : ~ Has(M)}
<1>1. SUFFICES ASSUME Bad # {} PROVE FALSE
  OBVIOUS
<1>2. PICK m \in Bad : \A k \in Bad : m <= k
  <2> HIDE DEF Has
  <2>1. Bad \in SUBSET Nat
    OBVIOUS
  <2> HIDE DEF Bad
  <2> QED
    BY <1>1, <2>1, LeastExists
<1>3. m # 0
  <2>1. [n \in 0 .. 0 |-> <<>>] = [n \in 0 .. 0 |-> IF n = 0 THEN <<>> ELSE [k \in 0 .. 0 |-> <<>>][n - 1] \o W[n]]
    OBVIOUS
  <2>2. Has(0)
    BY <2>1 DEF Concatenates
  <2> QED
    BY <2>2
<1>4. m \in Nat /\ m - 1 \in Nat /\ Has(m - 1)
  <2>1. m \in Nat /\ m - 1 \in Nat /\ m - 1 \notin Bad
    BY <1>2, <1>3
  <2> QED
    BY <2>1
<1>5. PICK g : Concatenates(g, W, m - 1)
  BY <1>4
<1> DEFINE h == [n \in 0 .. m |-> IF n = m THEN g[m - 1] \o W[m] ELSE g[n]]
<1>6. \A n \in 0 .. m - 1 : g[n] = IF n = 0 THEN <<>> ELSE g[n - 1] \o W[n]
  BY <1>5 DEF Concatenates
<1>7. \A n \in 0 .. m : h[n] = IF n = 0 THEN <<>> ELSE h[n - 1] \o W[n]
  BY <1>3, <1>4, <1>6
<1>8. Concatenates(h, W, m)
  <2>1. h = [n \in 0 .. m |-> h[n]]
    OBVIOUS
  <2> HIDE DEF h
  <2> QED
    BY <1>7, <2>1 DEF Concatenates
<1> QED
  BY <1>2, <1>8

\* N sequences over S, and a sequence over S of all they have.
SequencesOf(W, N, S) == \A n \in 1 .. N : W[n] \in Seq(S)
HasAll(c, W, N, S) == /\ c \in Seq(S)
                      /\ \A n \in 1 .. N : \A i \in DOMAIN W[n] : \E j \in DOMAIN c : c[j] = W[n][i]

\* It ends with a sequence of what the sequences have, all of it.
LEMMA ConcatenationHasAll ==
  ASSUME NEW N \in Nat, NEW S, NEW W, SequencesOf(W, N, S), NEW f, Concatenates(f, W, N)
  PROVE  HasAll(f[N], W, N, S)
<1>s. \A n \in 1 .. N : W[n] \in Seq(S)
  BY DEF SequencesOf
<1> DEFINE Has(M) == /\ f[M] \in Seq(S)
                     /\ \A n \in 1 .. M : \A i \in DOMAIN W[n] : \E j \in DOMAIN f[M] : f[M][j] = W[n][i]
           Bad == {M \in 0 .. N : ~ Has(M)}
<1>1. SUFFICES ASSUME Bad # {} PROVE FALSE
  <2>1. N \in 0 .. N
    OBVIOUS
  <2> QED
    BY <2>1 DEF HasAll
<1>2. PICK m \in Bad : \A k \in Bad : m <= k
  <2> HIDE DEF Has
  <2>1. Bad \in SUBSET Nat
    OBVIOUS
  <2> HIDE DEF Bad
  <2> QED
    BY <1>1, <2>1, LeastExists
<1>3. f[0] = <<>> /\ \A n \in 1 .. N : f[n] = f[n - 1] \o W[n]
  <2> DEFINE E(n) == IF n = 0 THEN <<>> ELSE f[n - 1] \o W[n]
  <2>1. f = [n \in 0 .. N |-> E(n)]
    BY DEF Concatenates
  <2> HIDE DEF E
  <2>2. \A n \in 0 .. N : f[n] = E(n)
    BY <2>1
  <2>3. f[0] = E(0) /\ \A n \in 1 .. N : f[n] = E(n) /\ n # 0
    BY <2>2
  <2> QED
    BY <2>3 DEF E
<1>a. m \in 0 .. N /\ ~ Has(m)
  BY <1>2
<1>4. m # 0
  <2>1. Has(0)
    BY <1>3
  <2> QED
    BY <1>a, <2>1
<1>5. m \in 1 .. N /\ m - 1 \in 0 .. N /\ Has(m - 1)
  <2> HIDE DEF Has
  <2>1. m \in 1 .. N /\ m - 1 \in 0 .. N /\ m - 1 \notin Bad
    BY <1>2, <1>4
  <2> QED
    BY <2>1
<1> HIDE DEF Bad
<1>6. PICK a, b, c : /\ a = f[m - 1] /\ b = W[m] /\ c = f[m]
                     /\ a \in Seq(S) /\ b \in Seq(S) /\ c = a \o b
  BY <1>s, <1>3, <1>5
<1>7. /\ c \in Seq(S) /\ Len(c) = Len(a) + Len(b)
      /\ \A i \in 1 .. Len(a) : c[i] = a[i]
      /\ \A i \in 1 .. Len(b) : c[Len(a) + i] = b[i]
  <2>1. ASSUME NEW x \in Seq(S), NEW y \in Seq(S)
        PROVE  /\ x \o y \in Seq(S) /\ Len(x \o y) = Len(x) + Len(y)
               /\ \A i \in 1 .. Len(x) : (x \o y)[i] = x[i]
               /\ \A i \in 1 .. Len(y) : (x \o y)[Len(x) + i] = y[i]
    OBVIOUS
  <2>2. a \in Seq(S) /\ b \in Seq(S) /\ c = a \o b
    BY <1>6
  <2> QED
    BY ONLY <2>1, <2>2
<1>8. /\ DOMAIN a = 1 .. Len(a) /\ DOMAIN b = 1 .. Len(b) /\ DOMAIN c = 1 .. Len(c)
      /\ Len(a) \in Nat /\ Len(b) \in Nat
  BY ONLY <1>6, <1>7
<1>9. ASSUME NEW n \in 1 .. m, NEW i \in DOMAIN W[n] PROVE \E j \in DOMAIN c : c[j] = W[n][i]
  <2>1. CASE n = m
    <3>1. i \in 1 .. Len(b) /\ W[n][i] = b[i]
      BY <1>6, <1>8, <1>9, <2>1
    <3>2. Len(a) + i \in 1 .. Len(c) /\ c[Len(a) + i] = b[i]
      BY <1>7, <1>8, <3>1
    <3> QED
      BY <1>8, <3>1, <3>2
  <2>2. CASE n # m
    <3>1. n \in 1 .. m - 1
      BY <1>5, <2>2
    <3>2. PICK j \in DOMAIN a : a[j] = W[n][i]
      BY <1>5, <1>6, <1>9, <3>1
    <3>3. j \in 1 .. Len(c) /\ c[j] = a[j]
      BY <1>7, <1>8, <3>2
    <3> QED
      BY <1>8, <3>2, <3>3
  <2> QED
    BY <2>1, <2>2
<1>10. Has(m)
  <2>1. c \in Seq(S) /\ \A n \in 1 .. m : \A i \in DOMAIN W[n] : \E j \in DOMAIN c : c[j] = W[n][i]
    BY <1>7, <1>9
  <2>2. f[m] = c
    BY <1>6
  <2> QED
    BY ONLY <2>1, <2>2
<1> QED
  BY <1>a, <1>10

-----------------------------------------------------------------------------
\* Addresses and tags of what is in the address space are in it.
LEMMA AddressesFit ==
  ASSUME cp \in Configs
  PROVE  /\ \A a \in 0 .. ADDRS - 1 :
              /\ CACHE_BADDR(a) \in 0 .. ADDRS - 1 /\ CACHE_BADDR(a) <= a
              /\ CACHE_SET(a) \in Sets /\ CACHE_TAG(a) \in Tags
              /\ CACHE_MK_BADDR(CACHE_TAG(a), CACHE_SET(a)) = CACHE_BADDR(a)
         /\ \A tag \in Tags, s \in Sets : CACHE_MK_BADDR(tag, s) \in 0 .. ADDRS - 1
         /\ 0 \in Tags /\ 0 \in 0 .. ADDRS - 1 /\ Tags \subseteq Nat
<1> DEFINE bn == bsize * nsets
           K  == ADDRS \div bn
<1>1. nsets \in Nat \ {0} /\ bsize \in Nat \ {0}
  BY GeometryType
<1>2. bn \in Nat \ {0} /\ ADDRS \in Nat \ {0} /\ ADDRS % bn = 0
  <2>1. bsize * nsets \in Nat \ {0}
    BY <1>1
  <2>2. cp.bsize = bsize /\ cp.nsets = nsets
    BY DEF cp
  <2> QED
    BY <2>1, <2>2, CacheAssumption
<1> HIDE DEF bn
<1>3. K \in Nat \ {0} /\ ADDRS = bn * K
  BY <1>2
<1>4. \A x, y \in Nat : x < bn * y => x \div bn <= y - 1 /\ x \div bn \in Nat
  BY <1>2
<1>5. Tags = 0 .. K - 1
  BY DEF Tags, bn
<1> HIDE DEF K
<1>6. ASSUME NEW a \in 0 .. ADDRS - 1
      PROVE  /\ CACHE_BADDR(a) \in 0 .. ADDRS - 1 /\ CACHE_BADDR(a) <= a
             /\ CACHE_SET(a) \in Sets /\ CACHE_TAG(a) \in Tags
             /\ CACHE_MK_BADDR(CACHE_TAG(a), CACHE_SET(a)) = CACHE_BADDR(a)
  <2>1. a \in Nat /\ a < ADDRS
    BY <1>2, <1>6
  <2>2. PICK q \in Nat : q = a \div bsize
    BY <1>1, <2>1
  <2>3. CACHE_BADDR(a) = bsize * q /\ bsize * q <= a /\ bsize * q \in Nat
    BY <1>1, <2>1, <2>2 DEF CACHE_BADDR
  <2>4. CACHE_SET(a) = q % nsets /\ q % nsets \in 0 .. nsets - 1
    BY <1>1, <2>2 DEF CACHE_SET
  <2>5. a \div bn = q \div nsets
    BY <1>1, <2>1, <2>2 DEF bn
  <2>6. CACHE_TAG(a) = q \div nsets
    BY <2>5 DEF CACHE_TAG, bn
  <2>7. CACHE_TAG(a) \in Tags
    BY <1>3, <1>4, <1>5, <2>1, <2>5, <2>6
  <2>8. (q \div nsets) * nsets + (q % nsets) = q
    BY <1>1
  <2>9. CACHE_MK_BADDR(CACHE_TAG(a), CACHE_SET(a)) = q * bsize
    BY <2>4, <2>6, <2>8 DEF CACHE_MK_BADDR
  <2> QED
    BY <1>1, <1>2, <2>1, <2>3, <2>4, <2>7, <2>9 DEF Sets
<1>7. ASSUME NEW tag \in Tags, NEW s \in Sets PROVE CACHE_MK_BADDR(tag, s) \in 0 .. ADDRS - 1
  <2>1. tag \in Nat /\ tag + 1 <= K /\ s \in Nat /\ s + 1 <= nsets
    BY <1>1, <1>3, <1>5, <1>7 DEF Sets
  <2>2. PICK x \in Nat : x = tag * nsets + s
    BY <1>1, <2>1
  <2>3. x + 1 <= (tag + 1) * nsets
    BY <1>1, <2>1, <2>2
  <2>4. (tag + 1) * nsets <= K * nsets
    BY <1>1, <1>3, <2>1
  <2>5. K * nsets \in Nat /\ x + 1 <= K * nsets
    BY <1>1, <1>3, <2>1, <2>2, <2>3, <2>4
  <2>6. PICK y \in Nat : y = K * nsets
    BY <2>5
  <2>7. x * bsize < y * bsize /\ x * bsize \in Nat
    BY <1>1, <2>2, <2>5, <2>6
  <2>8. y * bsize = ADDRS
    BY <1>1, <1>3, <2>6 DEF bn
  <2> QED
    BY <1>2, <2>2, <2>7, <2>8 DEF CACHE_MK_BADDR
<1>8. 0 \in Tags /\ 0 \in 0 .. ADDRS - 1 /\ Tags \subseteq Nat
  BY <1>2, <1>3, <1>5
<1> QED
  BY <1>6, <1>7, <1>8
-----------------------------------------------------------------------------
\* A way list has every block of its set once.
Ordered(list) ==
  /\ list \in [1 .. assoc -> Ways]
  /\ \A w \in Ways : \E i \in 1 .. assoc : list[i] = w
  /\ \A i, j \in 1 .. assoc : list[i] = list[j] => i = j

\* update_way_list finds the block it is given, once, in the order of its
\* set.
LEMMA PlaceIs ==
  ASSUME NEW list, Ordered(list), NEW w \in Ways
  PROVE  Place(list, w) \in 1 .. assoc /\ list[Place(list, w)] = w
BY DEF Ordered, Place

\* A block moved to the head leaves an order of the same blocks, and is its
\* first.
LEMMA ToHeadOrdered ==
  ASSUME assoc \in Nat \ {0}, NEW list, Ordered(list), NEW p \in 1 .. assoc
  PROVE  /\ Ordered(ToHead(list, p)) /\ ToHead(list, p)[1] = list[p]
<1> DEFINE new == ToHead(list, p)
<1>1. \A i \in 1 .. assoc : new[i] = IF i = 1 THEN list[p] ELSE IF i <= p THEN list[i - 1] ELSE list[i]
  BY DEF ToHead
<1>2. new \in [1 .. assoc -> Ways]
  BY DEF ToHead, Ordered
<1> HIDE DEF new
<1>3. ASSUME NEW w \in Ways PROVE \E i \in 1 .. assoc : new[i] = w
  <2>1. PICK j \in 1 .. assoc : list[j] = w
    BY DEF Ordered
  <2>2. CASE j = p
    BY <1>1, <2>1, <2>2
  <2>3. CASE j < p
    <3>1. j + 1 \in 1 .. assoc /\ new[j + 1] = list[j]
      BY <1>1, <2>3
    <3> QED
      BY <2>1, <3>1
  <2>4. CASE j > p
    BY <1>1, <2>1, <2>4
  <2> QED
    BY <2>2, <2>3, <2>4
<1>4. ASSUME NEW i \in 1 .. assoc, NEW j \in 1 .. assoc, new[i] = new[j] PROVE i = j
  <2> DEFINE from(k) == IF k = 1 THEN p ELSE IF k <= p THEN k - 1 ELSE k
  <2>1. \A k \in 1 .. assoc : from(k) \in 1 .. assoc /\ new[k] = list[from(k)]
    BY <1>1
  <2>2. from(i) = from(j)
    <3> HIDE DEF from
    <3> QED
      BY <1>4, <2>1 DEF Ordered
  <2> QED
    BY <2>2
<1>5. new[1] = list[p]
  BY <1>1
<1> QED
  BY <1>2, <1>3, <1>4, <1>5 DEF Ordered, new

\* A block moved to the tail leaves an order of the same blocks.
LEMMA ToTailOrdered ==
  ASSUME assoc \in Nat \ {0}, NEW list, Ordered(list), NEW p \in 1 .. assoc
  PROVE  Ordered(ToTail(list, p))
<1> DEFINE new == ToTail(list, p)
<1>1. \A i \in 1 .. assoc : new[i] = IF i = assoc THEN list[p] ELSE IF i < p THEN list[i] ELSE list[i + 1]
  BY DEF ToTail
<1>2. new \in [1 .. assoc -> Ways]
  BY DEF ToTail, Ordered
<1> HIDE DEF new
<1>3. ASSUME NEW w \in Ways PROVE \E i \in 1 .. assoc : new[i] = w
  <2>1. PICK j \in 1 .. assoc : list[j] = w
    BY DEF Ordered
  <2>2. CASE j = p
    BY <1>1, <2>1, <2>2
  <2>3. CASE j > p
    <3>1. j - 1 \in 1 .. assoc /\ new[j - 1] = list[j]
      BY <1>1, <2>3
    <3> QED
      BY <2>1, <3>1
  <2>4. CASE j < p
    BY <1>1, <2>1, <2>4
  <2> QED
    BY <2>2, <2>3, <2>4
<1>4. ASSUME NEW i \in 1 .. assoc, NEW j \in 1 .. assoc, new[i] = new[j] PROVE i = j
  <2> DEFINE from(k) == IF k = assoc THEN p ELSE IF k < p THEN k ELSE k + 1
  <2>1. \A k \in 1 .. assoc : from(k) \in 1 .. assoc /\ new[k] = list[from(k)]
    BY <1>1
  <2>2. from(i) = from(j)
    <3> HIDE DEF from
    <3> QED
      BY <1>4, <2>1 DEF Ordered
  <2> QED
    BY <2>2
<1> QED
  BY <1>2, <1>3, <1>4 DEF Ordered, new

-----------------------------------------------------------------------------
\* What else is always so: the types, the order of the blocks, what an idle cache has done,
\* and that under LRU the last block to hit is the first of its set.
CacheState ==
  /\ TypeOK
  /\ \A s \in Sets : Ordered(way[s])
  /\ status = "idle" => calls = <<>> /\ pending = <<>> /\ serving.blk = NULL
  /\ last_blk = NULL => last_tagset = 0
  /\ policy = "LRU" /\ last_blk # NULL => way[last_blk[1]][1] = last_blk[2]

\* What a step does to the blocks, their order and the calls keeps their types.
KeepsState ==
  /\ blk' \in [Sets -> [Ways -> Block]]
  /\ way' \in [Sets -> [1 .. assoc -> Ways]]
  /\ \A s \in Sets : Ordered(way'[s])
  /\ calls' \in Seq(Calls)
  /\ last_tagset' \in 0 .. ADDRS - 1
  /\ last_blk' = NULL => last_tagset' = 0
  /\ policy = "LRU" /\ last_blk' # NULL => way'[last_blk'[1]][1] = last_blk'[2]

\* What keeps the types of blocks, order and calls, and of what is still
\* pending, keeps the state.
LEMMA StateNext ==
  ASSUME CacheInv', CacheState, UNCHANGED geometry, KeepsState,
         pending' \in Seq(0 .. ADDRS - 1),
         serving' \in [addr : 0 .. ADDRS - 1, blk : BlockRefs],
         status' \in {"idle", "busy", "crashed"},
         status' = "idle" => calls' = <<>> /\ pending' = <<>> /\ serving'.blk = NULL
  PROVE  CacheState'
<1>1. /\ Sets' = Sets /\ Ways' = Ways /\ cp' = cp /\ hsize' = hsize /\ assoc' = assoc /\ policy' = policy
      /\ Block' = Block /\ BlockRefs' = BlockRefs /\ Calls' = Calls /\ Buckets' = Buckets
  BY BucketsStay DEF geometry, Sets, Ways, cp, Block, BlockRefs, Calls, Tags
<1>2. /\ cp' \in Configs /\ hash' \in [Sets -> [Buckets -> SUBSET Ways]]
      /\ last_blk' \in BlockRefs
  BY <1>1 DEF CacheInv, BlocksTyped, BlockRefs
<1>3. TypeOK'
  BY <1>1, <1>2 DEF TypeOK, KeepsState
<1>4. \A s \in Sets : Ordered(way[s])'
  BY <1>1 DEF KeepsState, Ordered
<1> QED
  BY <1>1, <1>3, <1>4 DEF CacheState, KeepsState

\* A hit changes a dirty bit of one block and nothing else.
LEMMA MarkDirtyTyped ==
  ASSUME blk \in [Sets -> [Ways -> Block]], NEW cmd, NEW s \in Sets, NEW w \in Ways, MarkDirty(cmd, s, w)
  PROVE  /\ blk' \in [Sets -> [Ways -> Block]]
         /\ \A r \in Sets, v \in Ways :
              /\ blk'[r][v].tag = blk[r][v].tag /\ blk'[r][v].valid = blk[r][v].valid
              /\ r # s \/ v # w => blk'[r][v] = blk[r][v]
         /\ blk'[s][w].dirty = (blk[s][w].dirty \/ cmd = "Write")
<1> DEFINE d == blk[s][w].dirty \/ cmd = "Write"
<1>1. d \in BOOLEAN
  OBVIOUS
<1>2. blk' = [blk EXCEPT ![s][w].dirty = d]
  BY DEF MarkDirty
<1> HIDE DEF d
<1>3. PICK b : b = [blk[s][w] EXCEPT !.dirty = d]
  OBVIOUS
<1>4. blk[s][w] \in Block
  OBVIOUS
<1>5. b \in Block /\ b.tag = blk[s][w].tag /\ b.valid = blk[s][w].valid /\ b.dirty = d
  BY <1>1, <1>3, <1>4 DEF Block
<1>6. blk' = [blk EXCEPT ![s] = [blk[s] EXCEPT ![w] = b]]
  BY <1>2, <1>3
<1>7. /\ blk' \in [Sets -> [Ways -> Block]] /\ blk'[s][w] = b
      /\ \A r \in Sets, v \in Ways : r # s \/ v # w => blk'[r][v] = blk[r][v]
  BY <1>5, <1>6
<1> QED
  BY <1>5, <1>7 DEF d

\* A write-back, if there is one, is of the block's own address.
LEMMA WriteBackTyped ==
  ASSUME cp \in Configs, blk \in [Sets -> [Ways -> Block]], NEW s \in Sets, NEW w \in Ways
  PROVE  /\ WriteBack(s, w) \in Seq(Calls)
         /\ blk[s][w].valid /\ blk[s][w].dirty =>
              WriteBack(s, w) = <<[cmd |-> "Write", addr |-> CACHE_MK_BADDR(blk[s][w].tag, s), prefetch |-> FALSE]>>
<1>1. CACHE_MK_BADDR(blk[s][w].tag, s) \in 0 .. ADDRS - 1
  <2>1. blk[s][w].tag \in Tags
    BY DEF Block
  <2> QED
    BY <2>1, AddressesFit
<1>2. [cmd |-> "Write", addr |-> CACHE_MK_BADDR(blk[s][w].tag, s), prefetch |-> FALSE] \in Calls
  BY <1>1 DEF Calls
<1>3. PICK c : c = [cmd |-> "Write", addr |-> CACHE_MK_BADDR(blk[s][w].tag, s), prefetch |-> FALSE]
  OBVIOUS
<1>4. WriteBack(s, w) = IF blk[s][w].valid /\ blk[s][w].dirty THEN <<c>> ELSE <<>>
  BY <1>3 DEF WriteBack, Call
<1>5. c \in Calls
  BY <1>2, <1>3
<1>6. <<c>> \in Seq(Calls) /\ <<>> \in Seq(Calls)
  BY <1>5
<1>7. WriteBack(s, w) \in Seq(Calls)
  BY <1>4, <1>6
<1> QED
  BY <1>3, <1>4, <1>7

\* cache_access keeps types and order, whichever way it goes.
LEMMA AccessKeepsState ==
  ASSUME CacheInv, CacheState, UNCHANGED geometry, NEW cmd \in {"Read", "Write"},
         NEW a \in 0 .. ADDRS - 1, NEW pf \in BOOLEAN, Access(cmd, a, pf)
  PROVE  KeepsState /\ status' \in {"busy", "crashed"}
<1>1. /\ cp \in Configs /\ assoc \in Nat \ {0} /\ blk \in [Sets -> [Ways -> Block]]
      /\ way \in [Sets -> [1 .. assoc -> Ways]] /\ last_blk \in BlockRefs
      /\ calls \in Seq(Calls) /\ last_tagset \in 0 .. ADDRS - 1
      /\ \A s \in Sets : Ordered(way[s])
  BY GeometryType DEF CacheState, TypeOK
<1>2. CACHE_SET(a) \in Sets /\ CACHE_TAG(a) \in Tags /\ CACHE_BADDR(a) \in 0 .. ADDRS - 1 /\ 0 \in 0 .. ADDRS - 1
  BY <1>1, AddressesFit
<1>3. CASE FastHit(cmd, a)
  <2>1. PICK s \in Sets, w \in Ways : last_blk = <<s, w>>
    BY <1>1, <1>3 DEF FastHit, BlockRefs
  <2>2. MarkDirty(cmd, s, w) /\ UNCHANGED <<way, last_tagset, last_blk, calls>> /\ status' = "busy"
    BY <1>3, <2>1 DEF FastHit
  <2>3. blk' \in [Sets -> [Ways -> Block]]
    BY <1>1, <2>2, MarkDirtyTyped
  <2> QED
    BY <1>1, <2>2, <2>3 DEF KeepsState, CacheState
<1>4. CASE NullHit(a)
  BY <1>1, <1>4 DEF NullHit, KeepsState, CacheState
<1>5. ASSUME NEW w \in Ways, Hit(cmd, a, w) PROVE KeepsState /\ status' \in {"busy", "crashed"}
  <2> DEFINE s == CACHE_SET(a)
  <2>1. /\ MarkDirty(cmd, s, w) /\ way' = [way EXCEPT ![s] = Reordered(way[s], w)]
        /\ last_tagset' = CACHE_BADDR(a) /\ last_blk' = <<s, w>> /\ calls' = calls /\ status' = "busy"
    BY <1>5 DEF Hit
  <2> HIDE DEF s
  <2>2. s \in Sets
    BY <1>2 DEF s
  <2>3. blk' \in [Sets -> [Ways -> Block]]
    BY <1>1, <2>1, <2>2, MarkDirtyTyped
  <2>4. PICK list : list = Reordered(way[s], w)
    OBVIOUS
  <2>5. Ordered(list) /\ (policy = "LRU" => list[1] = w)
    <3>1. Ordered(way[s])
      BY <1>1, <2>2
    <3>2. Place(way[s], w) \in 1 .. assoc /\ way[s][Place(way[s], w)] = w
      BY <3>1, PlaceIs
    <3>3. Ordered(ToHead(way[s], Place(way[s], w))) /\ ToHead(way[s], Place(way[s], w))[1] = w
      BY <1>1, <3>1, <3>2, ToHeadOrdered
    <3> QED
      BY <2>4, <3>1, <3>3 DEF Reordered
  <2>6. list \in [1 .. assoc -> Ways]
    BY <2>5 DEF Ordered
  <2>7. /\ way' \in [Sets -> [1 .. assoc -> Ways]] /\ way'[s] = list
        /\ \A r \in Sets : r # s => way'[r] = way[r]
    BY <1>1, <2>1, <2>2, <2>4, <2>6
  <2>8. \A r \in Sets : Ordered(way'[r])
    BY <1>1, <2>5, <2>7
  <2>9. last_blk' # NULL /\ last_blk'[1] = s /\ last_blk'[2] = w
    BY <1>1, <2>1, <2>2, GeometryType DEF NULL, Sets
  <2>10. policy = "LRU" => way'[last_blk'[1]][1] = last_blk'[2]
    BY <2>5, <2>7, <2>9
  <2> QED
    BY <1>1, <1>2, <2>1, <2>3, <2>7, <2>8, <2>9, <2>10 DEF KeepsState
<1>6. ASSUME NEW w \in Ways, Miss(cmd, a, pf, w) PROVE KeepsState /\ status' \in {"busy", "crashed"}
  <2> DEFINE s == CACHE_SET(a)
             b == [tag |-> CACHE_TAG(a), valid |-> TRUE, dirty |-> cmd = "Write"]
             read == [cmd |-> "Read", addr |-> CACHE_BADDR(a), prefetch |-> pf]
  <2>1. /\ way' = IF policy = "Random" THEN way ELSE [way EXCEPT ![s] = ToHead(way[s], assoc)]
        /\ last_tagset' = 0 /\ last_blk' = NULL
        /\ blk' = [blk EXCEPT ![s][w] = b]
        /\ calls' = WriteBack(s, w) \o <<read>> /\ status' = "busy"
    BY <1>6 DEF Miss, ForgetLast, Call
  <2>2. s \in Sets /\ b \in Block /\ read \in Calls
    BY <1>2 DEF Block, Calls
  <2> HIDE DEF s, b, read
  <2>3. blk' \in [Sets -> [Ways -> Block]]
    BY <1>1, <2>1, <2>2
  <2>4. Ordered(ToHead(way[s], assoc))
    <3>1. Ordered(way[s]) /\ assoc \in 1 .. assoc
      BY <1>1, <2>2
    <3> QED
      BY <1>1, <3>1, ToHeadOrdered
  <2>5. PICK list : list = ToHead(way[s], assoc)
    OBVIOUS
  <2>6. Ordered(list) /\ list \in [1 .. assoc -> Ways]
    BY <2>4, <2>5 DEF Ordered
  <2>7. way' \in [Sets -> [1 .. assoc -> Ways]] /\ \A r \in Sets : way'[r] = way[r] \/ way'[r] = list
    BY <1>1, <2>1, <2>2, <2>5, <2>6
  <2>8. \A r \in Sets : Ordered(way'[r])
    BY <1>1, <2>6, <2>7
  <2>9. calls' \in Seq(Calls)
    <3>1. WriteBack(s, w) \in Seq(Calls)
      BY <1>1, <2>2, WriteBackTyped
    <3>2. <<read>> \in Seq(Calls)
      BY <2>2
    <3>3. \A x, y \in Seq(Calls) : x \o y \in Seq(Calls)
      OBVIOUS
    <3> QED
      BY <2>1, <3>1, <3>2, <3>3
  <2> QED
    BY <1>1, <1>2, <2>1, <2>3, <2>7, <2>8, <2>9 DEF KeepsState
<1> QED
  BY <1>3, <1>4, <1>5, <1>6 DEF Access

-----------------------------------------------------------------------------
\* The places of all way lists, numbered set by set.
LEMMA FlushOrder ==
  ASSUME nsets \in Nat \ {0}, assoc \in Nat \ {0}
  PROVE  /\ nsets * assoc \in Nat
         /\ \A n \in 1 .. nsets * assoc : (n - 1) \div assoc \in Sets /\ ((n - 1) % assoc) + 1 \in 1 .. assoc
         /\ \A s \in Sets, i \in 1 .. assoc : \E n \in 1 .. nsets * assoc :
              (n - 1) \div assoc = s /\ ((n - 1) % assoc) + 1 = i
<1>1. PICK N \in Nat : N = nsets * assoc
  OBVIOUS
<1>2. ASSUME NEW n \in 1 .. N PROVE (n - 1) \div assoc \in Sets /\ ((n - 1) % assoc) + 1 \in 1 .. assoc
  <2>1. n - 1 \in Nat /\ n - 1 < N
    OBVIOUS
  <2>2. \A x, y \in Nat : x < y * assoc => x \div assoc <= y - 1 /\ x \div assoc \in Nat
    OBVIOUS
  <2> QED
    BY <1>1, <2>1, <2>2 DEF Sets
<1>3. ASSUME NEW s \in Sets, NEW i \in 1 .. assoc
      PROVE  \E n \in 1 .. N : (n - 1) \div assoc = s /\ ((n - 1) % assoc) + 1 = i
  <2>1. s \in Nat /\ s + 1 <= nsets /\ i - 1 \in Nat /\ i - 1 < assoc
    BY DEF Sets
  <2>2. PICK x \in Nat : x = s * assoc + (i - 1)
    BY <2>1
  <2>3. x + 1 <= nsets * assoc
    <3>1. PICK k \in Nat : nsets = s + 1 + k
      BY <2>1
    <3>2. nsets * assoc = s * assoc + assoc + k * assoc /\ k * assoc \in Nat /\ s * assoc \in Nat
      BY <2>1, <3>1
    <3> QED
      BY <2>1, <2>2, <3>2
  <2>4. x + 1 \in 1 .. N
    BY <1>1, <2>2, <2>3
  <2>5. x \div assoc = s /\ x % assoc = i - 1
    BY <2>1, <2>2
  <2> QED
    BY <2>1, <2>2, <2>4, <2>5
<1> QED
  BY <1>1, <1>2, <1>3

\* cache_flush writes back every dirty block, whatever the order of the way lists.
LEMMA FlushWritesAll ==
  ASSUME CacheState, cache_flush
  PROVE  /\ calls' \in Seq(Calls)
         /\ \A s \in Sets, w \in Ways : blk[s][w].valid /\ blk[s][w].dirty =>
              \E j \in DOMAIN calls' :
                calls'[j] = [cmd |-> "Write", addr |-> CACHE_MK_BADDR(blk[s][w].tag, s), prefetch |-> FALSE]
<1> DEFINE N == nsets * assoc
           Back(n) == LET s == (n - 1) \div assoc
                          i == ((n - 1) % assoc) + 1
                      IN  WriteBack(s, way[s][i])
           W == [n \in 1 .. N |-> Back(n)]
           inOrder[n \in 0 .. nsets * assoc] ==
             IF n = 0 THEN <<>>
             ELSE LET s == (n - 1) \div assoc
                      i == ((n - 1) % assoc) + 1
                  IN inOrder[n - 1] \o WriteBack(s, way[s][i])
<1>1. /\ cp \in Configs /\ assoc \in Nat \ {0} /\ nsets \in Nat \ {0} /\ blk \in [Sets -> [Ways -> Block]]
      /\ way \in [Sets -> [1 .. assoc -> Ways]] /\ \A s \in Sets : Ordered(way[s])
  BY GeometryType DEF CacheState, TypeOK
<1>2. calls' = inOrder[N]
  BY DEF cache_flush
<1>3. N \in Nat
  BY <1>1, FlushOrder
<1>4. \A n \in 1 .. N : W[n] = Back(n)
  OBVIOUS
<1>5. PICK g : Concatenates(g, W, N)
  <2> HIDE DEF W, N
  <2> QED
    BY <1>3, ConcatenationExists
<1>6. Concatenates(inOrder, W, N)
  <2>1. g = [n \in 0 .. N |-> IF n = 0 THEN <<>> ELSE g[n - 1] \o W[n]]
    BY <1>5 DEF Concatenates
  <2>2. ASSUME NEW f
        PROVE  [n \in 0 .. N |-> IF n = 0 THEN <<>> ELSE f[n - 1] \o W[n]]
                 = [n \in 0 .. N |-> IF n = 0 THEN <<>>
                    ELSE LET s == (n - 1) \div assoc
                             i == ((n - 1) % assoc) + 1
                         IN f[n - 1] \o WriteBack(s, way[s][i])]
    <3>1. \A n \in 0 .. N : n = 0 \/ n \in 1 .. N
      BY <1>3
    <3> HIDE DEF W, N
    <3> QED
      BY <1>4, <3>1
  <2>3. g = [n \in 0 .. N |-> IF n = 0 THEN <<>>
                    ELSE LET s == (n - 1) \div assoc
                             i == ((n - 1) % assoc) + 1
                         IN g[n - 1] \o WriteBack(s, way[s][i])]
    BY <2>1, <2>2
  <2>4. inOrder = [n \in 0 .. N |-> IF n = 0 THEN <<>>
                    ELSE LET s == (n - 1) \div assoc
                             i == ((n - 1) % assoc) + 1
                         IN inOrder[n - 1] \o WriteBack(s, way[s][i])]
    BY <2>3
  <2> HIDE DEF inOrder, W
  <2>5. inOrder = [n \in 0 .. N |-> IF n = 0 THEN <<>> ELSE inOrder[n - 1] \o W[n]]
    BY <2>2, <2>4
  <2> QED
    BY <2>5 DEF Concatenates
<1>7. \A n \in 1 .. N : W[n] \in Seq(Calls)
  <2> SUFFICES ASSUME NEW n \in 1 .. N PROVE Back(n) \in Seq(Calls)
    BY <1>4
  <2>1. PICK s \in Sets, i \in 1 .. assoc : s = (n - 1) \div assoc /\ i = ((n - 1) % assoc) + 1
    BY <1>1, FlushOrder
  <2>2. way[s][i] \in Ways
    BY <1>1
  <2>3. WriteBack(s, way[s][i]) \in Seq(Calls)
    BY <1>1, <2>2, WriteBackTyped
  <2> QED
    BY <2>1, <2>3
<1>8. /\ calls' \in Seq(Calls)
      /\ \A n \in 1 .. N : \A i \in DOMAIN W[n] : \E j \in DOMAIN calls' : calls'[j] = W[n][i]
  <2> HIDE DEF W, N, inOrder
  <2>1. PICK f : f = inOrder
    OBVIOUS
  <2>2. /\ f[N] \in Seq(Calls)
        /\ \A n \in 1 .. N : \A i \in DOMAIN W[n] : \E j \in DOMAIN f[N] : f[N][j] = W[n][i]
    <3>1. Concatenates(f, W, N) /\ N \in Nat /\ \A n \in 1 .. N : W[n] \in Seq(Calls)
      BY <1>3, <1>6, <1>7, <2>1
    <3>2. PICK V, S, M : V = W /\ S = Calls /\ M = N
      OBVIOUS
    <3>3. M \in Nat
      BY <3>1, <3>2
    <3>4. Concatenates(f, V, M)
      BY <3>1, <3>2
    <3>5. SequencesOf(V, M, S)
      BY <3>1, <3>2 DEF SequencesOf
    <3>6. HasAll(f[M], V, M, S)
      BY ONLY <3>3, <3>4, <3>5, ConcatenationHasAll
    <3> QED
      BY <3>2, <3>6 DEF HasAll
  <2> QED
    BY <1>2, <2>1, <2>2
<1>9. ASSUME NEW s \in Sets, NEW w \in Ways, blk[s][w].valid, blk[s][w].dirty
      PROVE  \E j \in DOMAIN calls' :
               calls'[j] = [cmd |-> "Write", addr |-> CACHE_MK_BADDR(blk[s][w].tag, s), prefetch |-> FALSE]
  <2>0. PICK c : c = [cmd |-> "Write", addr |-> CACHE_MK_BADDR(blk[s][w].tag, s), prefetch |-> FALSE]
    OBVIOUS
  <2>1. PICK i \in 1 .. assoc : way[s][i] = w
    BY <1>1 DEF Ordered
  <2>2. PICK n \in 1 .. N : (n - 1) \div assoc = s /\ ((n - 1) % assoc) + 1 = i
    BY <1>1, FlushOrder
  <2>3. W[n] = WriteBack(s, w)
    BY <1>4, <2>1, <2>2
  <2>4. WriteBack(s, w) = <<c>>
    BY <1>1, <1>9, <2>0, WriteBackTyped
  <2>5. 1 \in DOMAIN W[n] /\ W[n][1] = c
    <3>1. PICK q : q = W[n]
      OBVIOUS
    <3>2. q = <<c>>
      BY <2>3, <2>4, <3>1
    <3> QED
      BY ONLY <3>1, <3>2
  <2>6. \E j \in DOMAIN calls' : calls'[j] = W[n][1]
    <3> HIDE DEF W, N, inOrder
    <3> QED
      BY <1>8, <2>5
  <2> QED
    BY <2>0, <2>5, <2>6
<1> HIDE DEF W, N, inOrder
<1> QED
  BY <1>8, <1>9

-----------------------------------------------------------------------------
\* What is always so is so of a cache just created.
LEMMA StateInit == Init => CacheState
<1> SUFFICES ASSUME Init PROVE CacheState
  OBVIOUS
<1>1. cp \in Configs
  BY CacheAssumption DEF Init, cp
<1>2. assoc \in Nat \ {0} /\ 0 \in Tags /\ 0 \in 0 .. ADDRS - 1
  BY <1>1, GeometryType, AddressesFit
<1>3. blk \in [Sets -> [Ways -> Block]]
  BY <1>2 DEF Init, Block
<1>4. \A s \in Sets : Ordered(way[s]) /\ way[s] \in [1 .. assoc -> Ways]
  <2> SUFFICES ASSUME NEW s \in Sets PROVE Ordered(way[s]) /\ way[s] \in [1 .. assoc -> Ways]
    OBVIOUS
  <2>1. way[s] = [i \in 1 .. assoc |-> assoc - i]
    BY DEF Init
  <2>2. PICK list : list = [i \in 1 .. assoc |-> assoc - i]
    OBVIOUS
  <2>3. \A i \in 1 .. assoc : list[i] = assoc - i /\ assoc - i \in Ways
    BY <1>2, <2>2 DEF Ways
  <2>4. list \in [1 .. assoc -> Ways]
    BY <2>2, <2>3
  <2>5. ASSUME NEW w \in Ways PROVE \E i \in 1 .. assoc : list[i] = w
    <3>1. assoc - w \in 1 .. assoc /\ assoc - (assoc - w) = w
      BY <1>2 DEF Ways
    <3> QED
      BY <2>3, <3>1
  <2>6. \A i, j \in 1 .. assoc : list[i] = list[j] => i = j
    BY <1>2, <2>3
  <2> QED
    BY <2>1, <2>2, <2>4, <2>5, <2>6 DEF Ordered
<1>5. way \in [Sets -> [1 .. assoc -> Ways]]
  BY <1>4 DEF Init
<1>6. /\ hash \in [Sets -> [Buckets -> SUBSET Ways]] /\ last_tagset = 0 /\ last_blk = NULL
      /\ calls = <<>> /\ pending = <<>> /\ serving = [addr |-> 0, blk |-> NULL] /\ status = "idle"
  BY DEF Init
<1>7. TypeOK
  BY <1>1, <1>2, <1>3, <1>5, <1>6 DEF TypeOK, BlockRefs
<1> QED
  BY <1>4, <1>6, <1>7 DEF CacheState

\* The block that the next prefetch looks for is in the address space.
LEMMA PrefetchTarget ==
  ASSUME CacheState, Prefetch
  PROVE  /\ CACHE_BADDR(Head(pending)) \in 0 .. ADDRS - 1
         /\ pending' \in Seq(0 .. ADDRS - 1)
<1>1. ASSUME NEW S, NEW q \in Seq(S), q # <<>>
      PROVE  Head(q) \in S /\ Tail(q) \in Seq(S)
  BY <1>1
<1>2. pending \in Seq(0 .. ADDRS - 1) /\ pending # <<>> /\ pending' = Tail(pending) /\ cp \in Configs
  BY DEF CacheState, TypeOK, Prefetch
<1>3. Head(pending) \in 0 .. ADDRS - 1 /\ Tail(pending) \in Seq(0 .. ADDRS - 1)
  BY <1>1, <1>2
<1> QED
  BY <1>2, <1>3, AddressesFit

\* Invalidating blocks keeps their tags and dirty bits.
LEMMA InvalidBlock ==
  ASSUME NEW b \in Block
  PROVE  [b EXCEPT !.valid = FALSE] \in Block
BY DEF Block

\* What is always so stays so, whoever calls the cache.
LEMMA StateStep ==
  ASSUME CacheInv, CacheState, AnyStep \/ UNCHANGED cacheVars
  PROVE  CacheState'
<1>0. CacheInv'
  BY CacheStep
<1>t. /\ cp \in Configs /\ assoc \in Nat \ {0} /\ nsets \in Nat \ {0} /\ blk \in [Sets -> [Ways -> Block]]
      /\ way \in [Sets -> [1 .. assoc -> Ways]] /\ last_blk \in BlockRefs
      /\ calls \in Seq(Calls) /\ pending \in Seq(0 .. ADDRS - 1) /\ last_tagset \in 0 .. ADDRS - 1
      /\ serving \in [addr : 0 .. ADDRS - 1, blk : BlockRefs]
      /\ status \in {"idle", "busy", "crashed"} /\ 0 \in 0 .. ADDRS - 1
      /\ \A s \in Sets : Ordered(way[s])
  BY GeometryType, AddressesFit DEF CacheState, TypeOK
<1>g. UNCHANGED geometry => BlockRefs' = BlockRefs
  BY DEF geometry, BlockRefs, Sets, Ways
<1>n. NULL \in BlockRefs
  BY DEF BlockRefs
<1>1. ASSUME UNCHANGED geometry, NEW cmd \in {"Read", "Write"}, NEW a \in 0 .. ADDRS - 1, NEW pf \in BOOLEAN,
             NEW targets \in Seq(0 .. ADDRS - 1), cache_access(cmd, a, pf, targets)
      PROVE  CacheState'
  <2>1. Access(cmd, a, pf) /\ pending' = targets /\ serving' = [addr |-> a, blk |-> last_blk']
    BY <1>1 DEF cache_access
  <2>2. KeepsState /\ status' \in {"busy", "crashed"}
    BY <1>1, <2>1, AccessKeepsState
  <2>3. last_blk' \in BlockRefs
    BY <1>0, <1>1, <1>g DEF CacheInv, BlocksTyped, BlockRefs
  <2>4. serving' \in [addr : 0 .. ADDRS - 1, blk : BlockRefs]
    BY <2>1, <2>3
  <2> QED
    BY <1>0, <1>1, <2>1, <2>2, <2>4, StateNext
<1>2. ASSUME UNCHANGED geometry, Prefetch PROVE CacheState'
  <2>1. /\ CACHE_BADDR(Head(pending)) \in 0 .. ADDRS - 1 /\ pending' \in Seq(0 .. ADDRS - 1)
        /\ serving' = serving /\ status = "busy"
    BY <1>2, PrefetchTarget DEF Prefetch
  <2>2. KeepsState /\ status' \in {"busy", "crashed"}
    <3>1. CASE cache_probe(CACHE_BADDR(Head(pending)))
      <4>1. UNCHANGED <<blk, way, hash, last_tagset, last_blk, calls, status>>
        BY <1>2, <3>1 DEF Prefetch
      <4> QED
        BY <1>t, <2>1, <4>1 DEF KeepsState, CacheState
    <3>2. CASE ~ cache_probe(CACHE_BADDR(Head(pending)))
      <4>1. Access("Read", CACHE_BADDR(Head(pending)), TRUE)
        BY <1>2, <3>2 DEF Prefetch
      <4> QED
        BY <1>2, <2>1, <4>1, AccessKeepsState
    <3> QED
      BY <3>1, <3>2
  <2> QED
    BY <1>0, <1>2, <1>t, <2>1, <2>2, StateNext
<1>3. ASSUME UNCHANGED geometry, Served PROVE CacheState'
  <2>1. /\ UNCHANGED <<blk, way, last_tagset, last_blk, pending, serving, status>>
        /\ status = "busy" /\ calls # <<>> /\ calls' = Tail(calls)
    BY <1>3 DEF Served
  <2>2. calls' \in Seq(Calls)
    BY <1>t, <2>1
  <2>3. KeepsState
    BY <1>t, <2>1, <2>2 DEF KeepsState, CacheState
  <2> QED
    BY <1>0, <1>3, <1>t, <2>1, <2>3, StateNext
<1>4. ASSUME UNCHANGED geometry, Return PROVE CacheState'
  <2>1. /\ UNCHANGED <<blk, way, last_tagset, last_blk, calls, pending>>
        /\ status' = "idle" /\ calls = <<>> /\ pending = <<>> /\ serving' = [addr |-> 0, blk |-> NULL]
    BY <1>4 DEF Return
  <2>2. KeepsState
    BY <1>t, <2>1 DEF KeepsState, CacheState
  <2>3. serving' \in [addr : 0 .. ADDRS - 1, blk : BlockRefs] /\ serving'.blk = NULL
    BY <1>t, <1>n, <2>1
  <2> QED
    BY <1>0, <1>4, <1>t, <2>1, <2>2, <2>3, StateNext
<1>5. ASSUME UNCHANGED geometry, cache_flush PROVE CacheState'
  <2>1. /\ UNCHANGED <<way, pending, serving>> /\ status' = "busy"
        /\ last_tagset' = 0 /\ last_blk' = NULL
        /\ blk' = [s \in Sets |-> [w \in Ways |-> [blk[s][w] EXCEPT !.valid = FALSE]]]
    BY <1>5 DEF cache_flush, ForgetLast
  <2>2. \A s \in Sets, w \in Ways : [blk[s][w] EXCEPT !.valid = FALSE] \in Block
    <3>1. \A s \in Sets, w \in Ways : blk[s][w] \in Block
      BY <1>t
    <3> QED
      BY <3>1, InvalidBlock
  <2>3. blk' \in [Sets -> [Ways -> Block]]
    BY <2>1, <2>2
  <2>4. calls' \in Seq(Calls)
    BY <1>5, FlushWritesAll
  <2>5. KeepsState
    BY <1>t, <2>1, <2>3, <2>4 DEF KeepsState
  <2> QED
    BY <1>0, <1>5, <1>t, <2>1, <2>5, StateNext
<1>6. ASSUME UNCHANGED geometry, NEW a \in 0 .. ADDRS - 1, cache_flush_addr(a) PROVE CacheState'
  <2>1. PICK s : s = CACHE_SET(a) /\ s \in Sets
    BY <1>t, AddressesFit
  <2>2. PICK w \in Found(a) : /\ blk' = [blk EXCEPT ![s][w].valid = FALSE]
                              /\ calls' = WriteBack(s, w)
                              /\ way' = [way EXCEPT ![s] = ToTail(way[s], Place(way[s], w))]
    BY <1>6, <2>1 DEF cache_flush_addr
  <2>3. /\ UNCHANGED <<pending, serving>> /\ status' = "busy" /\ last_tagset' = 0 /\ last_blk' = NULL
    BY <1>6 DEF cache_flush_addr, ForgetLast
  <2>4. w \in Ways
    <3>1. hash \in [Sets -> [Buckets -> SUBSET Ways]]
      BY DEF CacheInv, BlocksTyped
    <3>2. CACHE_TAG(a) \in Nat
      BY <1>t, AddressesFit
    <3>3. hsize = 0 \/ CACHE_HASH(CACHE_TAG(a)) \in Buckets
      BY <1>t, <3>2, GeometryType, BucketExists
    <3> QED
      BY <2>1, <2>2, <3>1, <3>3 DEF Found, Chain
  <2>5. PICK b : b = [blk[s][w] EXCEPT !.valid = FALSE]
    OBVIOUS
  <2>6. b \in Block
    <3>1. blk[s][w] \in Block
      BY <1>t, <2>1, <2>4
    <3> QED
      BY <2>5, <3>1, InvalidBlock
  <2>7. blk' \in [Sets -> [Ways -> Block]]
    <3>1. blk' = [blk EXCEPT ![s] = [blk[s] EXCEPT ![w] = b]]
      BY <2>2, <2>5
    <3> QED
      BY <1>t, <2>1, <2>4, <2>6, <3>1
  <2>8. PICK list : list = ToTail(way[s], Place(way[s], w))
    OBVIOUS
  <2>9. Ordered(list) /\ list \in [1 .. assoc -> Ways]
    <3>1. Ordered(way[s])
      BY <1>t, <2>1
    <3>2. Place(way[s], w) \in 1 .. assoc
      BY <2>4, <3>1, PlaceIs
    <3>3. Ordered(list)
      BY <1>t, <2>8, <3>1, <3>2, ToTailOrdered
    <3> QED
      BY <3>3 DEF Ordered
  <2>10. way' \in [Sets -> [1 .. assoc -> Ways]] /\ \A r \in Sets : way'[r] = way[r] \/ way'[r] = list
    BY <1>t, <2>1, <2>2, <2>8, <2>9
  <2>11. \A r \in Sets : Ordered(way'[r])
    BY <1>t, <2>9, <2>10
  <2>12. calls' \in Seq(Calls)
    BY <1>t, <2>1, <2>2, <2>4, WriteBackTyped
  <2>13. KeepsState
    BY <1>t, <2>3, <2>7, <2>10, <2>11, <2>12 DEF KeepsState
  <2> QED
    BY <1>0, <1>6, <1>t, <2>3, <2>13, StateNext
<1>7. CASE UNCHANGED cacheVars
  <2>1. UNCHANGED <<geometry, blk, way, last_tagset, last_blk, calls, pending, serving, status>>
    BY <1>7 DEF cacheVars, cp, geometry
  <2>2. KeepsState
    BY <1>t, <2>1 DEF KeepsState, CacheState
  <2> QED
    BY <1>0, <1>t, <2>1, <2>2, StateNext DEF CacheState
<1>8. CASE AnyStep
  <2> USE <1>8
  <2>1. UNCHANGED geometry
    BY DEF AnyStep
  <2>2. \/ \E cmd \in {"Read", "Write"}, a \in 0 .. ADDRS - 1, pf \in BOOLEAN, targets \in Seq(0 .. ADDRS - 1) :
             cache_access(cmd, a, pf, targets)
        \/ Prefetch \/ Served \/ Return \/ cache_flush
        \/ \E a \in 0 .. ADDRS - 1 : cache_flush_addr(a)
    BY Zenon DEF AnyStep
  <2> QED
    BY ONLY <1>1, <1>2, <1>3, <1>4, <1>5, <1>6, <2>1, <2>2, Zenon
<1> QED
  BY <1>7, <1>8

\* The cache's variables keep their types, the list of write-backs that a flush makes included.
THEOREM CacheTyped == Spec => []TypeOK
<1>1. Init => CacheInv /\ CacheState
  BY CacheInit, StateInit
<1>2. CacheInv /\ CacheState /\ [Next]_cacheVars => CacheInv' /\ CacheState'
  BY NextIsAnyStep, CacheStep, StateStep
<1>3. CacheState => TypeOK
  BY DEF CacheState
<1> QED
  BY <1>1, <1>2, <1>3, PTL DEF Spec

-----------------------------------------------------------------------------
\* generate_prefetch looks for fewer blocks than a set has.
FewPrefetches ==
  \A c \in Configs, a \in DataAddrs : \A targets \in PrefetchTargets(a) :
    c.policy = "LRU" /\ c.assoc > 1 /\ c.prefetch => Len(targets) < c.assoc

\* Under LRU the block that was hit stays where it was, and too near the front of its set for
\* the prefetches still to be made to replace it.
HitStays ==
  policy = "LRU" /\ assoc > 1 /\ status = "busy" /\ serving.blk # NULL =>
    /\ serving.blk \in Sets \X Ways
    /\ Holds(serving.blk, serving.addr)
    /\ \E p \in 1 .. assoc : /\ way[serving.blk[1]][p] = serving.blk[2]
                             /\ p + Len(pending) <= assoc

\* A block of an order that another moves to the head of goes down by one place at most.
LEMMA ToHeadMovesByOne ==
  ASSUME assoc \in Nat \ {0}, NEW list, Ordered(list), NEW k \in 1 .. assoc, NEW p \in 1 .. assoc,
         p < assoc
  PROVE  \E q \in 1 .. assoc : q <= p + 1 /\ ToHead(list, k)[q] = list[p]
<1>1. \A i \in 1 .. assoc :
        ToHead(list, k)[i] = IF i = 1 THEN list[k] ELSE IF i <= k THEN list[i - 1] ELSE list[i]
  BY DEF ToHead
<1>2. CASE p = k
  BY <1>1, <1>2
<1>3. CASE p < k
  <2>1. p + 1 \in 1 .. assoc /\ p + 1 # 1 /\ p + 1 <= k /\ (p + 1) - 1 = p
    BY <1>3
  <2> QED
    BY <1>1, <2>1
<1>4. CASE p > k
  <2>1. p # 1 /\ ~ (p <= k)
    BY <1>4
  <2> QED
    BY <1>1, <2>1
<1> QED
  BY <1>2, <1>3, <1>4

\* Under LRU an access replaces no block but the last of a set, and moves it down by one place
\* at most.
LEMMA FrontIsKept ==
  ASSUME CacheInv, CacheState, UNCHANGED geometry, policy = "LRU",
         NEW s \in Sets, NEW w \in Ways, NEW p \in 1 .. assoc, p < assoc, way[s][p] = w,
         NEW cmd, NEW a \in 0 .. ADDRS - 1, NEW pf, Access(cmd, a, pf)
  PROVE  /\ blk'[s][w].tag = blk[s][w].tag /\ blk'[s][w].valid = blk[s][w].valid
         /\ \E q \in 1 .. assoc : q <= p + 1 /\ way'[s][q] = w
<1>0. /\ Ordered(way[s]) /\ assoc \in Nat \ {0} /\ way \in [Sets -> [1 .. assoc -> Ways]]
      /\ cp \in Configs
  BY GeometryType DEF CacheState, TypeOK
<1>w. ASSUME NEW r \in Sets, NEW k \in 1 .. assoc, NEW list, list = ToHead(way[r], k), way' = [way EXCEPT ![r] = list]
      PROVE  \E q \in 1 .. assoc : q <= p + 1 /\ way'[s][q] = w
  <2>1. CASE r = s
    <3>1. PICK q \in 1 .. assoc : q <= p + 1 /\ ToHead(way[s], k)[q] = way[s][p]
      BY <1>0, ToHeadMovesByOne
    <3>2. way'[s] = list
      BY <1>0, <1>w, <2>1
    <3> QED
      BY <1>w, <2>1, <3>1, <3>2
  <2>2. CASE r # s
    <3>1. way'[s] = way[s]
      BY <1>0, <1>w, <2>2
    <3> QED
      BY <1>0, <3>1
  <2> QED
    BY <2>1, <2>2
<1>u. ASSUME way' = way PROVE \E q \in 1 .. assoc : q <= p + 1 /\ way'[s][q] = w
  BY <1>0, <1>u
<1>1. /\ cp \in Configs /\ assoc \in Nat \ {0} /\ blk \in [Sets -> [Ways -> Block]]
      /\ last_blk \in BlockRefs /\ \A r \in Sets : Ordered(way[r])
  BY GeometryType DEF CacheState, TypeOK
<1>2. CACHE_SET(a) \in Sets
  BY <1>1, AddressesFit
<1>3. CASE FastHit(cmd, a)
  <2>1. PICK r \in Sets, v \in Ways : last_blk = <<r, v>>
    BY <1>1, <1>3 DEF FastHit, BlockRefs
  <2>2. MarkDirty(cmd, r, v)
    BY <1>3, <2>1 DEF FastHit
  <2>3. way' = way
    BY <1>3 DEF FastHit
  <2> QED
    BY <1>1, <1>u, <2>2, <2>3, MarkDirtyTyped
<1>4. CASE NullHit(a)
  BY <1>4, <1>u DEF NullHit
<1>5. ASSUME NEW v \in Ways, Hit(cmd, a, v)
      PROVE  /\ blk'[s][w].tag = blk[s][w].tag /\ blk'[s][w].valid = blk[s][w].valid
             /\ \E q \in 1 .. assoc : q <= p + 1 /\ way'[s][q] = w
  <2>1. MarkDirty(cmd, CACHE_SET(a), v)
    BY <1>5 DEF Hit
  <2>2. blk'[s][w].tag = blk[s][w].tag /\ blk'[s][w].valid = blk[s][w].valid
    BY <1>1, <1>2, <2>1, MarkDirtyTyped
  <2>3. PICK r \in Sets : r = CACHE_SET(a)
    BY <1>2
  <2>6. PICK list : list = ToHead(way[r], Place(way[r], v)) /\ way' = [way EXCEPT ![r] = list]
    BY <1>5, <2>3 DEF Hit, Reordered
  <2>4. Place(way[r], v) \in 1 .. assoc
    BY <1>1, PlaceIs
  <2>5. \E q \in 1 .. assoc : q <= p + 1 /\ way'[s][q] = w
    BY <1>w, <2>4, <2>6
  <2> QED
    BY <2>2, <2>5
<1>6. ASSUME NEW v \in Ways, Miss(cmd, a, pf, v)
      PROVE  /\ blk'[s][w].tag = blk[s][w].tag /\ blk'[s][w].valid = blk[s][w].valid
             /\ \E q \in 1 .. assoc : q <= p + 1 /\ way'[s][q] = w
  <2>1. v = way[CACHE_SET(a)][assoc]
    BY <1>6 DEF Miss, Victims
  <2>2. CACHE_SET(a) = s => v # w
    <3>1. p # assoc /\ assoc \in 1 .. assoc
      BY <1>1
    <3> QED
      BY <1>0, <2>1, <3>1 DEF Ordered
  <2>3. PICK r \in Sets : r = CACHE_SET(a)
    BY <1>2
  <2>8. PICK b : blk' = [blk EXCEPT ![r][v] = b]
    BY <1>6, <2>3 DEF Miss
  <2>4. blk'[s][w] = blk[s][w]
    BY <1>1, <2>2, <2>3, <2>8
  <2>5. PICK list : list = ToHead(way[r], assoc) /\ way' = [way EXCEPT ![r] = list]
    BY <1>6, <2>3 DEF Miss
  <2>6. assoc \in 1 .. assoc
    BY <1>1
  <2>7. \E q \in 1 .. assoc : q <= p + 1 /\ way'[s][q] = w
    BY <1>w, <2>5, <2>6
  <2> QED
    BY <2>4, <2>7
<1> QED
  BY <1>3, <1>4, <1>5, <1>6 DEF Access

\* A step of the program keeps the block that was hit in its place.
LEMMA HitStaysStep ==
  ASSUME CacheInv, CacheState, HitStays, [Next]_cacheVars, FewPrefetches
  PROVE  HitStays'
<1>0. CacheInv' /\ CacheState'
  BY NextIsAnyStep, CacheStep, StateStep
<1>t. /\ cp \in Configs /\ assoc \in Nat \ {0} /\ blk \in [Sets -> [Ways -> Block]]
      /\ \A r \in Sets : Ordered(way[r])
      /\ pending \in Seq(0 .. ADDRS - 1)
  BY GeometryType DEF CacheState, TypeOK
<1>g. UNCHANGED geometry
  BY DEF Next, cacheVars, cp, geometry
<1>s. /\ Sets' = Sets /\ Ways' = Ways /\ policy' = policy /\ assoc' = assoc
      /\ \A x : CACHE_SET(x)' = CACHE_SET(x) /\ CACHE_TAG(x)' = CACHE_TAG(x)
  BY <1>g DEF geometry, Sets, Ways, CACHE_SET, CACHE_TAG
<1> SUFFICES ASSUME policy = "LRU", assoc > 1, status' = "busy", serving'.blk # NULL
             PROVE  /\ serving'.blk \in Sets \X Ways
                    /\ Holds(serving.blk, serving.addr)'
                    /\ \E p \in 1 .. assoc : /\ way'[serving'.blk[1]][p] = serving'.blk[2]
                                             /\ p + Len(pending') <= assoc
  BY <1>s DEF HitStays, NULL
<1>1. ASSUME NEW cmd \in Cmds, NEW a \in DataAddrs,
             NEW targets \in IF prefetch THEN PrefetchTargets(a) ELSE {<<>>},
             cache_access(cmd, a, FALSE, targets)
      PROVE  /\ serving'.blk \in Sets \X Ways
             /\ Holds(serving.blk, serving.addr)'
             /\ \E p \in 1 .. assoc : /\ way'[serving'.blk[1]][p] = serving'.blk[2]
                                      /\ p + Len(pending') <= assoc
  <2>1. Access(cmd, a, FALSE) /\ pending' = targets /\ serving' = [addr |-> a, blk |-> last_blk']
    BY <1>1 DEF cache_access
  <2>2. a \in 0 .. ADDRS - 1 /\ a \in Nat
    BY CacheAssumption
  <2>3. last_tagset' = CACHE_BADDR(a)
    BY <2>1 DEF Access, FastHit, NullHit, Hit, Miss, SameBlock, ForgetLast
  <2>4. last_blk' # NULL /\ last_blk' \in Sets \X Ways
    BY <1>0, <1>s, <2>1 DEF CacheInv, BlocksTyped, NULL
  <2>5. CACHE_SET(CACHE_BADDR(a)) = CACHE_SET(a) /\ CACHE_TAG(CACHE_BADDR(a)) = CACHE_TAG(a)
    BY <1>t, <2>2, BlockAddress
  <2>6. Holds(last_blk, last_tagset)'
    <3>1. LastBlockHolds' /\ last_blk' # NULL'
      BY <1>0, <2>4 DEF CacheInv, NULL
    <3> QED
      BY <3>1 DEF LastBlockHolds
  <2>7. Holds(serving.blk, serving.addr)'
    BY <1>s, <2>1, <2>3, <2>5, <2>6 DEF Holds
  <2>8. 1 + Len(targets) <= assoc /\ 1 \in 1 .. assoc
    <3>1. CASE prefetch
      <4>1. targets \in PrefetchTargets(a) /\ targets \in Seq(0 .. ADDRS - 1)
        BY <2>2, <3>1, CacheAssumption
      <4>2. cp.policy = policy /\ cp.assoc = assoc /\ cp.prefetch = prefetch
        BY DEF cp
      <4>3. Len(targets) < assoc
        BY <1>t, <3>1, <4>1, <4>2 DEF FewPrefetches
      <4> QED
        BY <1>t, <4>1, <4>3
    <3>2. CASE ~ prefetch
      BY <1>t, <3>2
    <3> QED
      BY <3>1, <3>2
  <2>9. way'[last_blk'[1]][1] = last_blk'[2]
    BY <1>0, <1>s, <2>4 DEF CacheState, NULL
  <2> QED
    BY <2>1, <2>4, <2>7, <2>8, <2>9
<1>2. ASSUME status = "busy", serving' = serving, UNCHANGED <<blk, way>>,
             Len(pending') <= Len(pending), Len(pending') \in Nat
      PROVE  /\ serving'.blk \in Sets \X Ways
             /\ Holds(serving.blk, serving.addr)'
             /\ \E p \in 1 .. assoc : /\ way'[serving'.blk[1]][p] = serving'.blk[2]
                                      /\ p + Len(pending') <= assoc
  <2>1. PICK p \in 1 .. assoc :
          /\ Holds(serving.blk, serving.addr) /\ serving.blk \in Sets \X Ways
          /\ way[serving.blk[1]][p] = serving.blk[2] /\ p + Len(pending) <= assoc
    BY <1>2 DEF HitStays, NULL
  <2>2. Holds(serving.blk, serving.addr)'
    BY <1>2, <1>s, <2>1 DEF Holds
  <2>3. p + Len(pending') <= assoc
    BY <1>t, <1>2, <2>1
  <2> QED
    BY <1>2, <2>1, <2>2, <2>3
<1>3. ASSUME Prefetch
      PROVE  /\ serving'.blk \in Sets \X Ways
             /\ Holds(serving.blk, serving.addr)'
             /\ \E p \in 1 .. assoc : /\ way'[serving'.blk[1]][p] = serving'.blk[2]
                                      /\ p + Len(pending') <= assoc
  <2>1. status = "busy" /\ pending # <<>> /\ pending' = Tail(pending) /\ serving' = serving
    BY <1>3 DEF Prefetch
  <2>2. PICK p \in 1 .. assoc :
          /\ Holds(serving.blk, serving.addr) /\ serving.blk \in Sets \X Ways
          /\ way[serving.blk[1]][p] = serving.blk[2] /\ p + Len(pending) <= assoc
    BY <2>1 DEF HitStays, NULL
  <2>3. Len(pending) \in Nat /\ Len(pending) >= 1 /\ Len(pending') = Len(pending) - 1
    BY <1>t, <2>1
  <2>4. CASE cache_probe(CACHE_BADDR(Head(pending)))
    <3>1. UNCHANGED <<blk, way>>
      BY <1>3, <2>4 DEF Prefetch
    <3> QED
      BY <1>2, <2>1, <2>3, <3>1
  <2>5. CASE ~ cache_probe(CACHE_BADDR(Head(pending)))
    <3>1. Access("Read", CACHE_BADDR(Head(pending)), TRUE) /\ CACHE_BADDR(Head(pending)) \in 0 .. ADDRS - 1
      BY <1>3, <2>5, PrefetchTarget DEF Prefetch
    <3>2. PICK s \in Sets, w \in Ways : serving.blk = <<s, w>>
      BY <2>2
    <3>3. PICK q \in 1 .. assoc :
            /\ blk'[s][w].tag = blk[s][w].tag /\ blk'[s][w].valid = blk[s][w].valid
            /\ q <= p + 1 /\ way'[s][q] = w
      <4>1. way[s][p] = w /\ p < assoc
        BY <1>t, <2>2, <2>3, <3>2
      <4> QED
        BY <1>g, <3>1, <4>1, FrontIsKept
    <3>4. Holds(serving.blk, serving.addr)'
      BY <1>s, <2>1, <2>2, <3>2, <3>3 DEF Holds
    <3>5. way'[serving'.blk[1]][q] = serving'.blk[2] /\ q + Len(pending') <= assoc
      BY <1>t, <2>1, <2>2, <2>3, <3>2, <3>3
    <3> QED
      BY <2>1, <2>2, <3>4, <3>5
  <2> QED
    BY <2>4, <2>5
<1>n. Len(pending) \in Nat
  BY <1>t
<1>4. CASE Served
  BY <1>2, <1>4, <1>n DEF Served
<1>5. CASE Return
  BY <1>5 DEF Return
<1>6. CASE cache_flush \/ \E a \in DataAddrs : cache_flush_addr(a)
  <2>1. status = "idle" /\ serving' = serving
    BY <1>6 DEF cache_flush, cache_flush_addr
  <2> QED
    BY <2>1 DEF CacheState
<1>7. CASE UNCHANGED cacheVars
  BY <1>2, <1>7, <1>n DEF cacheVars
<1> QED
  BY <1>1, <1>3, <1>4, <1>5, <1>6, <1>7 DEF Next

\* Under LRU, when an access is followed by fewer prefetches than a set has blocks, a hit that
\* has made its prefetches still reads the ready time of the block that it hit.
THEOREM LruHitsAreKept == FewPrefetches => (Spec => []LruKeepsTheHit)
<1> SUFFICES ASSUME FewPrefetches PROVE Spec => []LruKeepsTheHit
  OBVIOUS
<1>1. Init => CacheInv /\ CacheState /\ HitStays
  BY CacheInit, StateInit DEF Init, HitStays
<1>2. CacheInv /\ CacheState /\ HitStays /\ [Next]_cacheVars => CacheInv' /\ CacheState' /\ HitStays'
  BY NextIsAnyStep, CacheStep, StateStep, HitStaysStep
<1>3. HitStays => LruKeepsTheHit
  BY DEF HitStays, LruKeepsTheHit
<1> QED
  BY <1>1, <1>2, <1>3, PTL DEF Spec

-----------------------------------------------------------------------------
\* The newest data of an address that the next level does not have: in a dirty block, or on
\* its way down.
Dirty(x) == \E w \in Ways : /\ blk[CACHE_SET(x)][w].valid /\ blk[CACHE_SET(x)][w].dirty
                            /\ blk[CACHE_SET(x)][w].tag = CACHE_TAG(x)
GoesDown(x) == \E i \in DOMAIN calls : calls[i].cmd = "Write" /\ calls[i].addr = CACHE_BADDR(x)
Safe(x) == Dirty(x) \/ GoesDown(x)

\* Addresses of one block are in the same place.
LEMMA SameBlockSamePlace ==
  ASSUME cp \in Configs, NEW x \in 0 .. ADDRS - 1, NEW y \in 0 .. ADDRS - 1, CACHE_BADDR(x) = CACHE_BADDR(y)
  PROVE  CACHE_SET(x) = CACHE_SET(y) /\ CACHE_TAG(x) = CACHE_TAG(y)
<1>1. x \in Nat /\ y \in Nat
  BY CacheAssumption
<1> QED
  BY <1>1, BlockAddress

\* An access loses no data: what it replaces it writes back; and what it writes is safe,
\* unless it ends the simulation.
LEMMA AccessSaves ==
  ASSUME CacheInv, CacheState, UNCHANGED geometry, calls = <<>>, NEW cmd, NEW a \in 0 .. ADDRS - 1,
         NEW pf, Access(cmd, a, pf), NEW x \in 0 .. ADDRS - 1
  PROVE  /\ Safe(x) => Safe(x)'
         /\ cmd = "Write" /\ CACHE_BADDR(x) = CACHE_BADDR(a) /\ CACHE_BADDR(a) # 0 => Safe(x)'
<1>t. /\ cp \in Configs /\ assoc \in Nat \ {0} /\ blk \in [Sets -> [Ways -> Block]]
      /\ last_blk \in BlockRefs /\ \A r \in Sets : Ordered(way[r])
  BY GeometryType DEF CacheState, TypeOK
<1>s. /\ Ways' = Ways
      /\ CACHE_SET(x)' = CACHE_SET(x) /\ CACHE_TAG(x)' = CACHE_TAG(x) /\ CACHE_BADDR(x)' = CACHE_BADDR(x)
  BY DEF geometry, Sets, Ways, CACHE_SET, CACHE_TAG, CACHE_BADDR
<1>x. CACHE_SET(x) \in Sets /\ CACHE_MK_BADDR(CACHE_TAG(x), CACHE_SET(x)) = CACHE_BADDR(x)
  BY <1>t, AddressesFit
<1>a. CACHE_SET(a) \in Sets /\ a \in Nat
  BY <1>t, AddressesFit, CacheAssumption
<1>d. Safe(x) => Dirty(x)
  BY DEF Safe, GoesDown
<1>b. CACHE_BADDR(x) = CACHE_BADDR(a) => CACHE_SET(x) = CACHE_SET(a) /\ CACHE_TAG(x) = CACHE_TAG(a)
  BY <1>t, SameBlockSamePlace
<1>1. ASSUME NEW s \in Sets, NEW w \in Ways, MarkDirty(cmd, s, w),
             blk[s][w].valid /\ s = CACHE_SET(a) /\ blk[s][w].tag = CACHE_TAG(a)
      PROVE  /\ Safe(x) => Safe(x)'
             /\ cmd = "Write" /\ CACHE_BADDR(x) = CACHE_BADDR(a) => Safe(x)'
  <2>1. /\ \A r \in Sets, v \in Ways :
              /\ blk'[r][v].tag = blk[r][v].tag /\ blk'[r][v].valid = blk[r][v].valid
              /\ r # s \/ v # w => blk'[r][v] = blk[r][v]
        /\ blk'[s][w].dirty = (blk[s][w].dirty \/ cmd = "Write")
    BY <1>t, <1>1, MarkDirtyTyped
  <2>2. ASSUME Dirty(x) PROVE Dirty(x)'
    <3>1. PICK v \in Ways : /\ blk[CACHE_SET(x)][v].valid /\ blk[CACHE_SET(x)][v].dirty
                            /\ blk[CACHE_SET(x)][v].tag = CACHE_TAG(x)
      BY <2>2 DEF Dirty
    <3>2. /\ blk'[CACHE_SET(x)][v].valid /\ blk'[CACHE_SET(x)][v].dirty
          /\ blk'[CACHE_SET(x)][v].tag = CACHE_TAG(x)
      BY <1>x, <2>1, <3>1
    <3> QED
      BY <1>s, <3>2 DEF Dirty
  <2>3. ASSUME cmd = "Write", CACHE_BADDR(x) = CACHE_BADDR(a) PROVE Dirty(x)'
    <3>1. blk'[CACHE_SET(x)][w].valid /\ blk'[CACHE_SET(x)][w].dirty /\ blk'[CACHE_SET(x)][w].tag = CACHE_TAG(x)
      BY <1>b, <1>1, <2>1, <2>3
    <3> QED
      BY <1>s, <3>1 DEF Dirty
  <2> QED
    BY <1>d, <2>2, <2>3 DEF Safe
<1>2. CASE FastHit(cmd, a)
  <2>1. PICK r \in Sets, v \in Ways : last_blk = <<r, v>>
    BY <1>t, <1>2 DEF FastHit, BlockRefs
  <2>2. MarkDirty(cmd, r, v) /\ last_tagset = CACHE_BADDR(a) /\ last_blk # NULL
    BY <1>2, <2>1 DEF FastHit, SameBlock
  <2>3. CACHE_SET(CACHE_BADDR(a)) = CACHE_SET(a) /\ CACHE_TAG(CACHE_BADDR(a)) = CACHE_TAG(a)
    BY <1>t, <1>a, BlockAddress
  <2>4. blk[r][v].valid /\ r = CACHE_SET(a) /\ blk[r][v].tag = CACHE_TAG(a)
    BY <2>1, <2>2, <2>3 DEF CacheInv, LastBlockHolds, Holds
  <2> QED
    BY <1>1, <2>2, <2>4
<1>3. CASE NullHit(a)
  <2>1. UNCHANGED <<blk, calls>> /\ CACHE_BADDR(a) = 0
    BY <1>3 DEF NullHit, SameBlock, CacheState
  <2> QED
    BY <1>s, <2>1 DEF Safe, Dirty, GoesDown
<1>4. ASSUME NEW w \in Ways, Hit(cmd, a, w)
      PROVE  /\ Safe(x) => Safe(x)'
             /\ cmd = "Write" /\ CACHE_BADDR(x) = CACHE_BADDR(a) => Safe(x)'
  <2>1. MarkDirty(cmd, CACHE_SET(a), w) /\ blk[CACHE_SET(a)][w].valid /\ blk[CACHE_SET(a)][w].tag = CACHE_TAG(a)
    BY <1>4 DEF Hit, Found
  <2> QED
    BY <1>1, <1>a, <2>1
<1>5. ASSUME NEW w \in Ways, Miss(cmd, a, pf, w)
      PROVE  /\ Safe(x) => Safe(x)'
             /\ cmd = "Write" /\ CACHE_BADDR(x) = CACHE_BADDR(a) => Safe(x)'
  <2>1. PICK s, b, read : /\ s = CACHE_SET(a) /\ b = [tag |-> CACHE_TAG(a), valid |-> TRUE, dirty |-> cmd = "Write"]
                          /\ read = [cmd |-> "Read", addr |-> CACHE_BADDR(a), prefetch |-> pf]
    OBVIOUS
  <2>2. /\ s \in Sets /\ blk' = [blk EXCEPT ![s][w] = b] /\ calls' = WriteBack(s, w) \o <<read>>
    BY <1>a, <1>5, <2>1 DEF Miss, Call
  <2>3. blk'[s][w] = b /\ \A r \in Sets, v \in Ways : r # s \/ v # w => blk'[r][v] = blk[r][v]
    BY <1>t, <2>2
  <2>4. ASSUME Dirty(x) PROVE Safe(x)'
    <3>1. PICK v \in Ways : /\ blk[CACHE_SET(x)][v].valid /\ blk[CACHE_SET(x)][v].dirty
                            /\ blk[CACHE_SET(x)][v].tag = CACHE_TAG(x)
      BY <2>4 DEF Dirty
    <3>2. CASE CACHE_SET(x) # s \/ v # w
      <4>1. blk'[CACHE_SET(x)][v] = blk[CACHE_SET(x)][v]
        BY <1>x, <2>3, <3>2
      <4>2. Dirty(x)'
        BY <1>s, <3>1, <4>1 DEF Dirty
      <4> QED
        BY <4>2 DEF Safe
    <3>3. CASE CACHE_SET(x) = s /\ v = w
      <4>1. PICK c : c = [cmd |-> "Write", addr |-> CACHE_BADDR(x), prefetch |-> FALSE]
        OBVIOUS
      <4>2. WriteBack(s, w) = <<c>>
        BY <1>t, <1>x, <2>2, <3>1, <3>3, <4>1, WriteBackTyped
      <4>3. calls' = <<c>> \o <<read>>
        BY <2>2, <4>2
      <4>4. 1 \in DOMAIN (<<c>> \o <<read>>) /\ (<<c>> \o <<read>>)[1] = c
        OBVIOUS
      <4>5. 1 \in DOMAIN calls' /\ calls'[1] = c
        BY ONLY <4>3, <4>4
      <4>6. c.cmd = "Write" /\ c.addr = CACHE_BADDR(x)
        BY <4>1
      <4>7. GoesDown(x)'
        BY <1>s, <4>5, <4>6 DEF GoesDown
      <4> QED
        BY <4>7 DEF Safe
    <3> QED
      BY <3>2, <3>3
  <2>5. ASSUME cmd = "Write", CACHE_BADDR(x) = CACHE_BADDR(a) PROVE Safe(x)'
    <3>1. b.valid /\ b.dirty /\ b.tag = CACHE_TAG(x) /\ CACHE_SET(x) = s
      BY <1>b, <2>1, <2>5
    <3>2. Dirty(x)'
      BY <1>s, <2>3, <3>1 DEF Dirty
    <3> QED
      BY <3>2 DEF Safe
  <2> QED
    BY <1>d, <2>4, <2>5
<1> QED
  BY <1>2, <1>3, <1>4, <1>5 DEF Access

\* A prefetch loses no data: what it replaces it writes back.
LEMMA PrefetchSaves ==
  ASSUME CacheInv, CacheState, UNCHANGED geometry, Prefetch, NEW x \in 0 .. ADDRS - 1, Safe(x)
  PROVE  Safe(x)'
<1>1. calls = <<>> /\ CACHE_BADDR(Head(pending)) \in 0 .. ADDRS - 1
  BY PrefetchTarget DEF Prefetch
<1>2. CASE cache_probe(CACHE_BADDR(Head(pending)))
  <2>1. UNCHANGED <<blk, calls>>
    BY <1>2 DEF Prefetch
  <2> QED
    BY <2>1 DEF geometry, Safe, Dirty, GoesDown, Ways, CACHE_SET, CACHE_TAG, CACHE_BADDR
<1>3. CASE ~ cache_probe(CACHE_BADDR(Head(pending)))
  <2>1. Access("Read", CACHE_BADDR(Head(pending)), TRUE)
    BY <1>3 DEF Prefetch
  <2> QED
    BY <1>1, <2>1, AccessSaves
<1> QED
  BY <1>2, <1>3

\* A flush of the whole cache leaves no valid block, and no data behind.
LEMMA FlushSaves ==
  ASSUME CacheState, UNCHANGED geometry, cache_flush
  PROVE  /\ \A x \in 0 .. ADDRS - 1 : Safe(x) => Safe(x)'
         /\ \A s \in Sets, w \in Ways : ~ blk'[s][w].valid
<1>t. cp \in Configs /\ blk \in [Sets -> [Ways -> Block]] /\ calls = <<>>
  BY DEF CacheState, TypeOK, cache_flush
<1>1. ASSUME NEW x \in 0 .. ADDRS - 1, Safe(x) PROVE Safe(x)'
  <2>1. CACHE_SET(x) \in Sets /\ CACHE_MK_BADDR(CACHE_TAG(x), CACHE_SET(x)) = CACHE_BADDR(x)
    BY <1>t, AddressesFit
  <2>2. Dirty(x)
    BY <1>t, <1>1 DEF Safe, GoesDown
  <2>3. PICK v \in Ways : /\ blk[CACHE_SET(x)][v].valid /\ blk[CACHE_SET(x)][v].dirty
                          /\ blk[CACHE_SET(x)][v].tag = CACHE_TAG(x)
    BY <2>2 DEF Dirty
  <2>4. \E j \in DOMAIN calls' : calls'[j] = [cmd |-> "Write", addr |-> CACHE_BADDR(x), prefetch |-> FALSE]
    BY <2>1, <2>3, FlushWritesAll
  <2>5. CACHE_BADDR(x)' = CACHE_BADDR(x)
    BY DEF geometry, CACHE_BADDR
  <2>6. GoesDown(x)'
    BY <2>4, <2>5 DEF GoesDown
  <2> QED
    BY <2>6 DEF Safe
<1>2. ASSUME NEW s \in Sets, NEW w \in Ways PROVE ~ blk'[s][w].valid
  <2>1. blk' = [r \in Sets |-> [v \in Ways |-> [blk[r][v] EXCEPT !.valid = FALSE]]]
    BY DEF cache_flush
  <2>2. blk'[s][w] = [blk[s][w] EXCEPT !.valid = FALSE] /\ blk[s][w] \in Block
    BY <1>t, <2>1
  <2> QED
    BY <2>2 DEF Block
<1> QED
  BY <1>1, <1>2

\* What the next level has served is all that leaves.
LEMMA ServedSaves ==
  ASSUME CacheState, UNCHANGED geometry, Served, NEW x \in 0 .. ADDRS - 1, Safe(x),
         ~ (Head(calls).cmd = "Write" /\ Head(calls).addr = CACHE_BADDR(x))
  PROVE  Safe(x)'
<1>1. /\ calls \in Seq(Calls) /\ calls # <<>> /\ calls' = Tail(calls) /\ blk' = blk
  BY DEF CacheState, TypeOK, Served
<1>2. /\ Ways' = Ways
      /\ CACHE_SET(x)' = CACHE_SET(x) /\ CACHE_TAG(x)' = CACHE_TAG(x) /\ CACHE_BADDR(x)' = CACHE_BADDR(x)
  BY DEF geometry, Sets, Ways, CACHE_SET, CACHE_TAG, CACHE_BADDR
<1>3. CASE Dirty(x)
  BY <1>1, <1>2, <1>3 DEF Dirty, Safe
<1>4. CASE GoesDown(x)
  <2>1. PICK i \in DOMAIN calls : calls[i].cmd = "Write" /\ calls[i].addr = CACHE_BADDR(x)
    BY <1>4 DEF GoesDown
  <2>2. i # 1
    BY <1>1, <2>1
  <2>3. i - 1 \in DOMAIN calls' /\ calls'[i - 1] = calls[i]
    BY <1>1, <2>1, <2>2
  <2>4. GoesDown(x)'
    BY <1>2, <2>1, <2>3 DEF GoesDown
  <2> QED
    BY <2>4 DEF Safe
<1> QED
  BY <1>3, <1>4 DEF Safe

\* A call loses no data, and what it writes is safe.
LEMMA CallSaves ==
  ASSUME CacheInv, CacheState, UNCHANGED geometry, NEW cmd, NEW a \in 0 .. ADDRS - 1, NEW pf, NEW targets,
         cache_access(cmd, a, pf, targets), NEW x \in 0 .. ADDRS - 1
  PROVE  /\ Safe(x) => Safe(x)'
         /\ cmd = "Write" /\ CACHE_BADDR(x) = CACHE_BADDR(a) /\ CACHE_BADDR(a) # 0 => Safe(x)'
<1>1. Access(cmd, a, pf) /\ calls = <<>>
  BY DEF cache_access, CacheState
<1> QED
  BY <1>1, AccessSaves

\* Blocks and calls that stay keep what is safe.
LEMMA NothingMoves ==
  ASSUME UNCHANGED <<geometry, blk, calls>>, NEW x, Safe(x)
  PROVE  Safe(x)'
BY DEF geometry, Safe, Dirty, GoesDown, Ways, CACHE_SET, CACHE_TAG, CACHE_BADDR

\* All that is inductive, together.
LEMMA BothStay ==
  ASSUME CacheInv, CacheState, AnyStep \/ UNCHANGED cacheVars
  PROVE  CacheInv' /\ CacheState'
BY CacheStep, StateStep

-----------------------------------------------------------------------------
\* The order of the valid blocks of a set, b, in the way list l: what order maps a set to.
OrderIn(l, b) ==
  {<<b[l[p[1]]].tag, b[l[p[2]]].tag>> :
     p \in {p \in {i \in 1 .. assoc : b[l[i]].valid} \X {i \in 1 .. assoc : b[l[i]].valid} : p[1] <= p[2]}}
SetOfBlocks(b) == \A w \in Ways : b[w] \in [tag : Nat, valid : BOOLEAN, dirty : BOOLEAN]
OnceEach(b)    == \A v, w \in Ways : b[v].valid /\ b[w].valid /\ b[v].tag = b[w].tag => v = w

\* v is nearer the head of a way list than w, or is w.
Outlives(l, v, w) == Place(l, v) <= Place(l, w)

\* A block is at the place that has it, and the first, moved to the head, stays.
LEMMA PlaceOf ==
  ASSUME assoc \in Nat \ {0}, NEW l, Ordered(l), NEW i \in 1 .. assoc
  PROVE  l[i] \in Ways /\ Place(l, l[i]) = i /\ ToHead(l, 1) = l
<1>1. l[i] \in Ways
  BY DEF Ordered
<1>2. Place(l, l[i]) \in 1 .. assoc /\ l[Place(l, l[i])] = l[i]
  BY <1>1, PlaceIs
<1>3. Place(l, l[i]) = i
  BY <1>2 DEF Ordered
<1>4. l = [j \in 1 .. assoc |-> l[j]]
  BY DEF Ordered
<1>5. \A j \in 1 .. assoc : l[j] = IF j = 1 THEN l[1] ELSE IF j <= 1 THEN l[j - 1] ELSE l[j]
  OBVIOUS
<1>6. ToHead(l, 1) = [j \in 1 .. assoc |-> l[j]]
  BY <1>5, Zenon DEF ToHead
<1> QED
  BY <1>1, <1>3, <1>4, <1>6

\* A pair of the order stands for two valid blocks in their places.
LEMMA OrderMeans ==
  ASSUME assoc \in Nat \ {0}, NEW l, Ordered(l), NEW b, NEW q
  PROVE  q \in OrderIn(l, b) <=>
           \E v, w \in Ways : /\ b[v].valid /\ b[w].valid /\ Outlives(l, v, w)
                              /\ q = <<b[v].tag, b[w].tag>>
<1>1. ASSUME q \in OrderIn(l, b)
      PROVE  \E v, w \in Ways : /\ b[v].valid /\ b[w].valid /\ Outlives(l, v, w)
                                /\ q = <<b[v].tag, b[w].tag>>
  <2>1. PICK i \in 1 .. assoc, j \in 1 .. assoc :
          b[l[i]].valid /\ b[l[j]].valid /\ i <= j /\ q = <<b[l[i]].tag, b[l[j]].tag>>
    BY <1>1 DEF OrderIn
  <2>2. ASSUME NEW k \in 1 .. assoc PROVE l[k] \in Ways /\ Place(l, l[k]) = k
    BY PlaceOf
  <2> QED
    BY <2>1, <2>2 DEF Outlives
<1>2. ASSUME NEW v \in Ways, NEW w \in Ways, b[v].valid, b[w].valid, Outlives(l, v, w),
             q = <<b[v].tag, b[w].tag>>
      PROVE  q \in OrderIn(l, b)
  <2>1. /\ Place(l, v) \in 1 .. assoc /\ l[Place(l, v)] = v
        /\ Place(l, w) \in 1 .. assoc /\ l[Place(l, w)] = w
    BY PlaceIs
  <2> DEFINE V == {i \in 1 .. assoc : b[l[i]].valid}
             p == <<Place(l, v), Place(l, w)>>
  <2>2. p \in {r \in V \X V : r[1] <= r[2]}
    BY <1>2, <2>1 DEF Outlives
  <2>3. q = <<b[l[p[1]]].tag, b[l[p[2]]].tag>>
    BY <1>2, <2>1
  <2> QED
    BY <2>2, <2>3 DEF OrderIn
<1> QED
  BY <1>1, <1>2

\* Places are numbers, every block is in one, and no two share it.
LEMMA Places ==
  ASSUME NEW l, Ordered(l)
  PROVE  /\ \A w \in Ways : Place(l, w) \in 1 .. assoc
         /\ \A v, w \in Ways : Place(l, v) = Place(l, w) => v = w
BY PlaceIs

\* The block that moves to the head comes before all others, which keep their order.
LEMMA HeadPlaces ==
  ASSUME assoc \in Nat \ {0}, NEW l, Ordered(l), NEW x \in Ways,
         NEW n, n = ToHead(l, Place(l, x)), NEW v \in Ways, NEW w \in Ways
  PROVE  Outlives(n, v, w) <=> v = x \/ (w # x /\ Outlives(l, v, w))
<1> DEFINE p == Place(l, x)
           to(u) == IF u = x THEN 1 ELSE IF Place(l, u) < p THEN Place(l, u) + 1 ELSE Place(l, u)
<1>1. p \in 1 .. assoc /\ l[p] = x
  BY PlaceIs
<1>2. Ordered(n)
  BY <1>1, ToHeadOrdered
<1>3. ASSUME NEW u \in Ways PROVE Place(n, u) = to(u)
  <2>1. Place(l, u) \in 1 .. assoc /\ l[Place(l, u)] = u /\ (u # x => Place(l, u) # p)
    BY <1>1, PlaceIs
  <2>2. to(u) \in 1 .. assoc
    BY <1>1, <2>1
  <2>3. n[to(u)] = u
    BY <1>1, <2>1, <2>2 DEF ToHead
  <2> HIDE DEF to
  <2>4. Place(n, u) \in 1 .. assoc /\ n[Place(n, u)] = u
    BY <1>2, PlaceIs
  <2> QED
    BY <1>2, <2>2, <2>3, <2>4 DEF Ordered
<1>4. /\ Place(l, v) \in 1 .. assoc /\ Place(l, w) \in 1 .. assoc
      /\ (v # x => Place(l, v) # p) /\ (w # x => Place(l, w) # p)
  BY <1>1, Places
<1>5. Place(n, v) <= Place(n, w) <=> v = x \/ (w # x /\ Place(l, v) <= Place(l, w))
  <2> HIDE DEF p
  <2> QED
    BY <1>1, <1>3, <1>4
<1> QED
  BY <1>5 DEF Outlives

\* The block that moves to the tail leaves the order of the others.
LEMMA TailPlaces ==
  ASSUME assoc \in Nat \ {0}, NEW l, Ordered(l), NEW x \in Ways,
         NEW n, n = ToTail(l, Place(l, x)), NEW v \in Ways, NEW w \in Ways
  PROVE  Outlives(n, v, w) <=> w = x \/ (v # x /\ Outlives(l, v, w))
<1> DEFINE p == Place(l, x)
           to(u) == IF u = x THEN assoc ELSE IF Place(l, u) > p THEN Place(l, u) - 1 ELSE Place(l, u)
<1>1. p \in 1 .. assoc /\ l[p] = x
  BY PlaceIs
<1>2. Ordered(n)
  BY <1>1, ToTailOrdered
<1>3. ASSUME NEW u \in Ways PROVE Place(n, u) = to(u)
  <2>1. Place(l, u) \in 1 .. assoc /\ l[Place(l, u)] = u /\ (u # x => Place(l, u) # p)
    BY <1>1, PlaceIs
  <2>2. to(u) \in 1 .. assoc
    BY <1>1, <2>1
  <2>3. n[to(u)] = u
    BY <1>1, <2>1, <2>2 DEF ToTail
  <2> HIDE DEF to
  <2>4. Place(n, u) \in 1 .. assoc /\ n[Place(n, u)] = u
    BY <1>2, PlaceIs
  <2> QED
    BY <1>2, <2>2, <2>3, <2>4 DEF Ordered
<1>4. /\ Place(l, v) \in 1 .. assoc /\ Place(l, w) \in 1 .. assoc
      /\ (v # x => Place(l, v) # p) /\ (w # x => Place(l, w) # p)
  BY <1>1, Places
<1>5. Place(n, v) <= Place(n, w) <=> w = x \/ (v # x /\ Place(l, v) <= Place(l, w))
  <2> HIDE DEF p
  <2> QED
    BY <1>1, <1>3, <1>4
<1> QED
  BY <1>5 DEF Outlives

\* The pairs of blocks other than x.
RestOf(R, l, b, x) ==
  \A q : q \in R <=> \E v, w \in Ways \ {x} : /\ b[v].valid /\ b[w].valid /\ Outlives(l, v, w)
                                            /\ q = <<b[v].tag, b[w].tag>>

\* Without the address of a valid block the others remain; without that of none, all.
LEMMA WithoutIsRest ==
  ASSUME assoc \in Nat \ {0}, NEW l, Ordered(l), NEW b, OnceEach(b), NEW x \in Ways
  PROVE  /\ b[x].valid => RestOf(Promise!Without(OrderIn(l, b), b[x].tag), l, b, x)
         /\ ~ b[x].valid => RestOf(OrderIn(l, b), l, b, x)
<1>1. ASSUME b[x].valid, NEW q
      PROVE  q \in Promise!Without(OrderIn(l, b), b[x].tag) <=>
               \E v, w \in Ways \ {x} : /\ b[v].valid /\ b[w].valid /\ Outlives(l, v, w)
                                       /\ q = <<b[v].tag, b[w].tag>>
  <2>1. q \in Promise!Without(OrderIn(l, b), b[x].tag) <=>
          q \in OrderIn(l, b) /\ b[x].tag \notin {q[1], q[2]}
    BY DEF Promise!Without
  <2>2. ASSUME NEW v \in Ways, b[v].valid PROVE b[v].tag = b[x].tag <=> v = x
    BY <1>1, <2>2 DEF OnceEach
  <2> QED
    BY <2>1, <2>2, OrderMeans
<1>2. ASSUME ~ b[x].valid, NEW q
      PROVE  q \in OrderIn(l, b) <=>
               \E v, w \in Ways \ {x} : /\ b[v].valid /\ b[w].valid /\ Outlives(l, v, w)
                                       /\ q = <<b[v].tag, b[w].tag>>
  BY <1>2, OrderMeans
<1> QED
  BY <1>1, <1>2 DEF RestOf

\* Block x may now hold another address, which no other has; without it R has the others.
Enters(R, l, b, x, c) ==
  /\ \A v \in Ways \ {x} : c[v] = b[v]
  /\ c[x].valid
  /\ \A v \in Ways \ {x} : b[v].valid => b[v].tag # c[x].tag
  /\ RestOf(Promise!Without(R, c[x].tag), l, b, x)

\* A block moved to the head, with whatever address it now holds, is in front of the rest.
LEMMA HeadInFront ==
  ASSUME assoc \in Nat \ {0}, NEW l, Ordered(l), NEW x \in Ways, NEW b, NEW c,
         NEW R, Enters(R, l, b, x, c)
  PROVE  OrderIn(ToHead(l, Place(l, x)), c) = Promise!InFront(R, c[x].tag)
<1> DEFINE n == ToHead(l, Place(l, x))
           t == c[x].tag
           rest == Promise!Without(R, t)
<1>1. Place(l, x) \in 1 .. assoc
  BY PlaceIs
<1>2. Ordered(n)
  BY <1>1, ToHeadOrdered
<1>3. ASSUME NEW v \in Ways, NEW w \in Ways
      PROVE  Outlives(n, v, w) <=> v = x \/ (w # x /\ Outlives(l, v, w))
  BY HeadPlaces
<1>4. \A q : q \in rest <=> \E v, w \in Ways \ {x} : /\ b[v].valid /\ b[w].valid /\ Outlives(l, v, w)
                                                 /\ q = <<b[v].tag, b[w].tag>>
  BY DEF RestOf, Enters
<1>e. /\ \A v \in Ways \ {x} : c[v] = b[v]
      /\ c[x].valid
      /\ \A v \in Ways \ {x} : b[v].valid => b[v].tag # c[x].tag
  BY DEF Enters
<1> HIDE DEF rest, n
<1>5. ASSUME NEW q
      PROVE  q \in OrderIn(n, c) <=>
               \/ q \in rest
               \/ \E w \in Ways \ {x} : b[w].valid /\ q = <<t, b[w].tag>>
               \/ q = <<t, t>>
  <2>1. q \in OrderIn(n, c) <=> \E v, w \in Ways : /\ c[v].valid /\ c[w].valid /\ Outlives(n, v, w)
                                                  /\ q = <<c[v].tag, c[w].tag>>
    BY <1>2, OrderMeans
  <2>2. q \in OrderIn(n, c) <=>
          \/ \E v, w \in Ways \ {x} : /\ c[v].valid /\ c[w].valid /\ Outlives(l, v, w)
                                    /\ q = <<c[v].tag, c[w].tag>>
          \/ \E w \in Ways \ {x} : c[w].valid /\ q = <<t, c[w].tag>>
          \/ q = <<t, t>>
    BY <1>3, <1>e, <2>1
  <2> QED
    BY <1>4, <1>e, <2>2
<1>6. ASSUME NEW w \in Ways \ {x}, b[w].valid
      PROVE  <<b[w].tag, b[w].tag>> \in rest
  <2>1. Outlives(l, w, w)
    BY Places DEF Outlives
  <2> QED
    BY <1>4, <1>6, <2>1
<1>7. ASSUME NEW q
      PROVE  (\E w \in Ways \ {x} : b[w].valid /\ q = <<t, b[w].tag>>) <=>
               q \in {<<t, p[2]>> : p \in rest}
  <2>1. ASSUME NEW w \in Ways \ {x}, b[w].valid, q = <<t, b[w].tag>>
        PROVE  q \in {<<t, p[2]>> : p \in rest}
    <3>1. PICK p \in rest : p = <<b[w].tag, b[w].tag>>
      BY <1>6, <2>1
    <3>2. q = <<t, p[2]>>
      BY <2>1, <3>1
    <3> QED
      BY <3>2
  <2>2. ASSUME NEW p \in rest, q = <<t, p[2]>>
        PROVE  \E w \in Ways \ {x} : b[w].valid /\ q = <<t, b[w].tag>>
    BY <1>4, <2>2
  <2> QED
    BY <2>1, <2>2
<1>8. Promise!InFront(R, t) = rest \cup {<<t, p[2]>> : p \in rest} \cup {<<t, t>>}
  BY DEF Promise!InFront, rest
<1>9. OrderIn(n, c) = rest \cup {<<t, p[2]>> : p \in rest} \cup {<<t, t>>}
  BY <1>5, <1>7
<1> QED
  BY <1>8, <1>9 DEF n

\* What is not in an order need not be taken out of it.
LEMMA WithoutAgain ==
  ASSUME NEW R, NEW t, \A q \in R : q[1] # t /\ q[2] # t
  PROVE  Promise!Without(R, t) = R
BY DEF Promise!Without

\* Block x becomes invalid.
Leaves(b, x, c) == b[x].valid /\ ~ c[x].valid /\ \A v \in Ways \ {x} : c[v] = b[v]

\* A valid block that is made invalid, at the tail, takes its address out of the order.
LEMMA TailDrops ==
  ASSUME assoc \in Nat \ {0}, NEW l, Ordered(l), NEW x \in Ways, NEW b, OnceEach(b), NEW c,
         Leaves(b, x, c)
  PROVE  OrderIn(ToTail(l, Place(l, x)), c) = Promise!Without(OrderIn(l, b), b[x].tag)
<1> DEFINE n == ToTail(l, Place(l, x))
           rest == Promise!Without(OrderIn(l, b), b[x].tag)
<1>1. Place(l, x) \in 1 .. assoc
  BY PlaceIs
<1>2. Ordered(n)
  BY <1>1, ToTailOrdered
<1>3. ASSUME NEW v \in Ways \ {x}, NEW w \in Ways \ {x}
      PROVE  Outlives(n, v, w) <=> Outlives(l, v, w)
  BY TailPlaces
<1>4. \A q : q \in rest <=> \E v, w \in Ways \ {x} : /\ b[v].valid /\ b[w].valid /\ Outlives(l, v, w)
                                                 /\ q = <<b[v].tag, b[w].tag>>
  BY WithoutIsRest DEF RestOf, Leaves
<1> HIDE DEF rest, n
<1>5. ASSUME NEW q PROVE q \in OrderIn(n, c) <=> q \in rest
  <2>1. q \in OrderIn(n, c) <=> \E v, w \in Ways : /\ c[v].valid /\ c[w].valid /\ Outlives(n, v, w)
                                                  /\ q = <<c[v].tag, c[w].tag>>
    BY <1>2, OrderMeans
  <2> QED
    BY <1>3, <1>4, <2>1 DEF Leaves
<1>6. OrderIn(n, c) = rest
  BY <1>5 DEF OrderIn
<1> QED
  BY <1>6 DEF n, rest

\* Dirty bits do not matter to the order, nor does a list without valid blocks.
LEMMA SameOrder ==
  ASSUME assoc \in Nat \ {0}, NEW l, Ordered(l), NEW b, NEW c
  PROVE  /\ (\A v \in Ways : c[v].tag = b[v].tag /\ c[v].valid = b[v].valid) => OrderIn(l, c) = OrderIn(l, b)
         /\ (\A v \in Ways : ~ c[v].valid) => OrderIn(l, c) = {}
<1>1. ASSUME \A v \in Ways : c[v].tag = b[v].tag /\ c[v].valid = b[v].valid
      PROVE  OrderIn(l, c) = OrderIn(l, b)
  <2>1. ASSUME NEW q PROVE q \in OrderIn(l, c) <=> q \in OrderIn(l, b)
    BY <1>1, OrderMeans
  <2> QED
    BY <2>1
<1>2. ASSUME \A v \in Ways : ~ c[v].valid PROVE OrderIn(l, c) = {}
  BY <1>2, OrderMeans
<1> QED
  BY <1>1, <1>2

-----------------------------------------------------------------------------
\* The addresses of the valid blocks.
HeldIn(b) == {b[v].tag : v \in {v \in Ways : b[v].valid}}

\* They are what the order is an order of.
LEMMA HeldIs ==
  ASSUME assoc \in Nat \ {0}, NEW l, Ordered(l), NEW b
  PROVE  {p[1] : p \in OrderIn(l, b)} = HeldIn(b)
<1>1. ASSUME NEW t, t \in HeldIn(b) PROVE t \in {p[1] : p \in OrderIn(l, b)}
  <2>1. PICK v \in Ways : b[v].valid /\ t = b[v].tag
    BY <1>1 DEF HeldIn
  <2>2. Outlives(l, v, v)
    BY Places DEF Outlives
  <2>3. <<t, t>> \in OrderIn(l, b)
    BY <2>1, <2>2, OrderMeans
  <2> QED
    BY <2>3
<1>2. ASSUME NEW p \in OrderIn(l, b) PROVE p[1] \in HeldIn(b)
  <2>1. PICK v \in Ways, w \in Ways : b[v].valid /\ p = <<b[v].tag, b[w].tag>>
    BY OrderMeans
  <2> QED
    BY <2>1 DEF HeldIn
<1> QED
  BY <1>1, <1>2

\* The blocks of a set are as many as its associativity.
LEMMA WaysFinite ==
  ASSUME assoc \in Nat \ {0}
  PROVE  IsFiniteSet(Ways) /\ Cardinality(Ways) = assoc
<1>1. IsFiniteSet(0 .. assoc - 1) /\ Cardinality(0 .. assoc - 1) = assoc
  BY FS_Interval
<1> QED
  BY <1>1 DEF Ways

\* A set that holds each address once is full exactly if all its blocks are valid.
LEMMA HeldCounted ==
  ASSUME assoc \in Nat \ {0}, NEW b, OnceEach(b)
  PROVE  /\ Cardinality(HeldIn(b)) \in Nat /\ Cardinality(HeldIn(b)) <= assoc
         /\ Cardinality(HeldIn(b)) < assoc <=> \E v \in Ways : ~ b[v].valid
<1> DEFINE V == {v \in Ways : b[v].valid}
           f == [v \in V |-> b[v].tag]
<1>1. IsFiniteSet(V) /\ Cardinality(V) <= assoc /\ (Cardinality(V) = assoc => V = Ways)
  BY WaysFinite, FS_Subset
<1>2. f \in Bijection(V, HeldIn(b))
  BY DEF Bijection, Injection, IsInjective, Surjection, HeldIn, OnceEach
<1>3. Cardinality(HeldIn(b)) = Cardinality(V)
  BY <1>1, <1>2, FS_Bijection DEF ExistsBijection
<1>4. Cardinality(V) \in Nat
  BY <1>1, FS_CardinalityType
<1>5. V = Ways <=> ~ \E v \in Ways : ~ b[v].valid
  OBVIOUS
<1>6. V = Ways => Cardinality(V) = assoc
  BY WaysFinite
<1> QED
  BY <1>1, <1>3, <1>4, <1>5, <1>6

\* The valid block at the tail is the one to be replaced before all others.
LEMMA TailIsOldest ==
  ASSUME assoc \in Nat \ {0}, NEW l, Ordered(l), NEW b, NEW x, x = l[assoc], b[x].valid
  PROVE  /\ x \in Ways /\ Place(l, x) = assoc
         /\ b[x].tag \in HeldIn(b)
         /\ \A u \in HeldIn(b) : <<u, b[x].tag>> \in OrderIn(l, b)
<1>1. x \in Ways
  BY DEF Ordered
<1>2. Place(l, x) = assoc
  BY PlaceOf
<1>3. ASSUME NEW u \in HeldIn(b) PROVE <<u, b[x].tag>> \in OrderIn(l, b)
  <2>1. PICK v \in Ways : b[v].valid /\ u = b[v].tag
    BY DEF HeldIn
  <2>2. Outlives(l, v, x)
    BY <1>2, <2>1, Places DEF Outlives
  <2> QED
    BY <1>1, <2>1, <2>2, OrderMeans
<1> QED
  BY <1>1, <1>2, <1>3 DEF HeldIn

-----------------------------------------------------------------------------
\* Under LRU and FIFO the valid blocks of a set come first in its way list.
ValidAhead(l, b) == \A v, w \in Ways : b[w].valid /\ Outlives(l, v, w) => b[v].valid
ValidFirst == policy # "Random" => \A s \in Sets : ValidAhead(way[s], blk[s])

\* A valid block may go to the head, an invalid one to the tail.
LEMMA AheadStays ==
  ASSUME assoc \in Nat \ {0}, NEW l, Ordered(l), NEW x \in Ways, NEW b, ValidAhead(l, b), NEW c,
         \A v \in Ways \ {x} : c[v].valid = b[v].valid
  PROVE  /\ c[x].valid => ValidAhead(ToHead(l, Place(l, x)), c)
         /\ ~ c[x].valid => ValidAhead(ToTail(l, Place(l, x)), c)
<1>1. ASSUME c[x].valid, NEW v \in Ways, NEW w \in Ways, c[w].valid, Outlives(ToHead(l, Place(l, x)), v, w)
      PROVE  c[v].valid
  <2>1. v = x \/ (w # x /\ Outlives(l, v, w))
    BY <1>1, HeadPlaces
  <2> QED
    BY <1>1, <2>1 DEF ValidAhead
<1>2. ASSUME ~ c[x].valid, NEW v \in Ways, NEW w \in Ways, c[w].valid, Outlives(ToTail(l, Place(l, x)), v, w)
      PROVE  c[v].valid
  <2>1. v # x /\ Outlives(l, v, w)
    BY <1>2, TailPlaces
  <2> QED
    BY <1>2, <2>1 DEF ValidAhead
<1> QED
  BY <1>1, <1>2 DEF ValidAhead

\* The blocks are all valid if the last is.
LEMMA FullIfTailValid ==
  ASSUME assoc \in Nat \ {0}, NEW l, Ordered(l), NEW b, ValidAhead(l, b)
  PROVE  (\E v \in Ways : ~ b[v].valid) <=> ~ b[l[assoc]].valid
<1>1. l[assoc] \in Ways /\ Place(l, l[assoc]) = assoc
  <2>1. assoc \in 1 .. assoc
    OBVIOUS
  <2> QED
    BY <2>1, PlaceOf
<1>2. ASSUME NEW v \in Ways PROVE Outlives(l, v, l[assoc])
  BY <1>1, Places DEF Outlives
<1> QED
  BY <1>1, <1>2 DEF ValidAhead

-----------------------------------------------------------------------------
\* What the refinement rests on.
Promising == CacheInv /\ CacheState /\ ValidFirst
Kept(s) == OrderIn(way[s], blk[s])
promised == <<policy, assoc, order, hit>>

\* What holds of each set.
LEMMA SetFacts ==
  ASSUME CacheInv, CacheState, NEW s \in Sets
  PROVE  /\ assoc \in Nat \ {0} /\ Ordered(way[s]) /\ OnceEach(blk[s])
         /\ blk[s] \in [Ways -> Block]
BY GeometryType DEF CacheInv, CacheState, TypeOK, OneCopy, OnceEach

\* The order maps each set to the order of its valid blocks.
LEMMA OrderIs ==
  /\ order = [s \in Sets |-> Kept(s)] /\ Promise!Sets = Sets
  /\ \A s \in Sets : Promise!Held(s) = {p[1] : p \in Kept(s)}
<1>1. order = [s \in Sets |-> Kept(s)]
  BY DEF order, ValidPlaces, TagAt, OrderIn, Kept
<1> QED
  BY <1>1 DEF Promise!Sets, Promise!Held

\* And so it does after a step.
LEMMA OrderNext ==
  ASSUME UNCHANGED geometry
  PROVE  /\ Sets' = Sets /\ Ways' = Ways /\ assoc' = assoc /\ policy' = policy
         /\ order' = [s \in Sets |-> OrderIn(way'[s], blk'[s])]
         /\ Promise!Sets' = Sets
         /\ \A s \in Sets : Promise!Held(s)' = {p[1] : p \in OrderIn(way'[s], blk'[s])}
<1>1. /\ Sets' = Sets /\ Ways' = Ways /\ assoc' = assoc /\ policy' = policy
  BY DEF geometry, Sets, Ways
<1>2. order' = [s \in Sets |-> OrderIn(way'[s], blk'[s])]
  BY <1>1 DEF order, ValidPlaces, TagAt, OrderIn
<1> QED
  BY <1>1, <1>2 DEF Promise!Sets, Promise!Held

\* One set changes.
LEMMA OneSetChanges ==
  ASSUME UNCHANGED geometry, NEW s \in Sets,
         \A r \in Sets : r # s => way'[r] = way[r] /\ blk'[r] = blk[r]
  PROVE  order' = [order EXCEPT ![s] = OrderIn(way'[s], blk'[s])]
BY OrderIs, OrderNext DEF Kept

\* The address that is served is that of serving.
LEMMA HitNext ==
  ASSUME UNCHANGED geometry
  PROVE  /\ serving' = serving => hit' = hit
         /\ serving'.blk = NULL => hit' = <<>>
         /\ \A a, ref : serving' = [addr |-> a, blk |-> ref] /\ ref # NULL =>
                        hit' = <<CACHE_SET(a), CACHE_TAG(a)>>
BY DEF hit, geometry, CACHE_SET, CACHE_TAG, NULL

\* Steps that leave blocks and lists alone, dirty bits apart, leave the order alone.
LEMMA OrderStays ==
  ASSUME CacheInv, CacheState, UNCHANGED geometry, way' = way,
         \A s \in Sets, w \in Ways : blk'[s][w].tag = blk[s][w].tag /\ blk'[s][w].valid = blk[s][w].valid
  PROVE  order' = order /\ (ValidFirst => ValidFirst')
<1>1. ASSUME NEW s \in Sets PROVE OrderIn(way'[s], blk'[s]) = OrderIn(way[s], blk[s])
  BY SetFacts, SameOrder
<1>2. order' = order
  BY <1>1, OrderIs, OrderNext DEF Kept
<1>3. ASSUME ValidFirst PROVE ValidFirst'
  BY <1>3, OrderNext DEF ValidFirst, ValidAhead, Outlives, Place
<1> QED
  BY <1>2, <1>3

\* A hit, of the look-up in the set, uses the address as the promise says.
LEMMA HitUses ==
  ASSUME Promising, UNCHANGED geometry, NEW cmd, NEW a \in 0 .. ADDRS - 1, NEW w \in Ways,
         Hit(cmd, a, w), hit = <<>>, hit' = <<CACHE_SET(a), CACHE_TAG(a)>>
  PROVE  Promise!Next /\ ValidFirst'
<1> DEFINE s == CACHE_SET(a)
           t == CACHE_TAG(a)
<1>1. s \in Sets
  BY AddressesFit DEF Promising, CacheState, TypeOK
<1>2. MarkDirty(cmd, s, w) /\ way' = [way EXCEPT ![s] = Reordered(@, w)]
  BY DEF Hit
<1>3. blk[s][w].valid /\ blk[s][w].tag = t
  BY DEF Hit, Found
<1>4. /\ assoc \in Nat \ {0} /\ Ordered(way[s]) /\ OnceEach(blk[s]) /\ blk[s] \in [Ways -> Block]
  BY <1>1, SetFacts DEF Promising
<1>5. \A r \in Sets, v \in Ways :
        /\ blk'[r][v].tag = blk[r][v].tag /\ blk'[r][v].valid = blk[r][v].valid
        /\ r # s \/ v # w => blk'[r][v] = blk[r][v]
  <2>1. blk \in [Sets -> [Ways -> Block]]
    BY DEF Promising, CacheState, TypeOK
  <2> HIDE DEF s
  <2> QED
    BY <1>1, <1>2, <2>1, MarkDirtyTyped
<1>6. t \in Promise!Held(s)
  <2>1. t \in HeldIn(blk[s])
    BY <1>3 DEF HeldIn
  <2> QED
    BY <1>1, <1>4, <2>1, HeldIs, OrderIs DEF Kept
<1> HIDE DEF s, t
<1>7. CASE policy = "LRU"
  <2>1. way'[s] = ToHead(way[s], Place(way[s], w)) /\ \A r \in Sets : r # s => way'[r] = way[r]
    BY <1>1, <1>2, <1>7 DEF Reordered, Promising, CacheState, TypeOK
  <2>2. RestOf(Promise!Without(OrderIn(way[s], blk[s]), t), way[s], blk[s], w)
    BY <1>3, <1>4, WithoutIsRest
  <2>3. \A v \in Ways \ {w} : blk[s][v].valid => blk[s][v].tag # t
    BY <1>3, <1>4 DEF OnceEach
  <2>4. blk'[s][w].valid /\ blk'[s][w].tag = t /\ \A v \in Ways \ {w} : blk'[s][v] = blk[s][v]
    BY <1>1, <1>3, <1>5
  <2>5. OrderIn(way'[s], blk'[s]) = Promise!InFront(OrderIn(way[s], blk[s]), t)
    <3>1. Enters(OrderIn(way[s], blk[s]), way[s], blk[s], w, blk'[s])
      BY <2>2, <2>3, <2>4 DEF Enters
    <3> QED
      BY <1>4, <2>1, <2>4, <3>1, HeadInFront
  <2>6. ASSUME NEW r \in Sets, r # s PROVE blk'[r] = blk[r]
    BY <1>1, <1>2, <2>6 DEF MarkDirty, Promising, CacheState, TypeOK
  <2>7. order' = [order EXCEPT ![s] = Promise!InFront(@, t)]
    <3>1. order' = [order EXCEPT ![s] = OrderIn(way'[s], blk'[s])]
      BY <1>1, <2>1, <2>6, OneSetChanges
    <3>2. order[s] = OrderIn(way[s], blk[s])
      BY <1>1, OrderIs DEF Kept
    <3> QED
      BY <2>5, <3>1, <3>2
  <2>8. Promise!Use(s, t)
    BY <1>7, <2>7 DEF Promise!Use, s, t
  <2>9. Promise!Next
    BY <1>1, <1>6, <2>8, OrderIs DEF Promise!Next, geometry
  <2>10. ValidFirst'
    <3>1. ASSUME NEW r \in Sets PROVE ValidAhead(way'[r], blk'[r])
      <4>1. ValidAhead(way[r], blk[r])
        BY <1>7 DEF Promising, ValidFirst
      <4>2. CASE r = s
        BY <1>4, <2>1, <2>4, <4>1, <4>2, AheadStays
      <4>3. CASE r # s
        BY <2>1, <2>6, <4>1, <4>3
      <4> QED
        BY <4>2, <4>3
    <3> QED
      BY <3>1, OrderNext DEF ValidFirst, ValidAhead, Outlives, Place
  <2> QED
    BY <2>9, <2>10
<1>8. CASE policy # "LRU"
  <2>1. way' = way
    BY <1>1, <1>2, <1>8 DEF Reordered, Promising, CacheState, TypeOK
  <2>2. order' = order /\ ValidFirst'
    BY <1>5, <2>1, OrderStays DEF Promising
  <2>3. Promise!Use(s, t)
    BY <1>8, <2>2 DEF Promise!Use, s, t
  <2> QED
    BY <1>1, <1>6, <2>2, <2>3, OrderIs DEF Promise!Next, geometry
<1> QED
  BY <1>7, <1>8

\* A fast hit uses the address as the promise says: it is the last used already.
LEMMA FastHitUses ==
  ASSUME Promising, UNCHANGED geometry, NEW cmd, NEW a \in 0 .. ADDRS - 1,
         FastHit(cmd, a), hit = <<>>, hit' = <<CACHE_SET(a), CACHE_TAG(a)>>
  PROVE  Promise!Next /\ ValidFirst'
<1>1. PICK s \in Sets, w \in Ways : last_blk = <<s, w>>
  BY DEF Promising, CacheInv, BlocksTyped, FastHit
<1>2. MarkDirty(cmd, s, w) /\ way' = way /\ last_blk # NULL /\ last_tagset = CACHE_BADDR(a)
  BY <1>1 DEF FastHit, SameBlock
<1>3. s = CACHE_SET(a) /\ blk[s][w].valid /\ blk[s][w].tag = CACHE_TAG(a)
  <2>1. a \in Nat /\ cp \in Configs
    BY CacheAssumption DEF Promising, CacheState, TypeOK
  <2>2. CACHE_SET(CACHE_BADDR(a)) = CACHE_SET(a) /\ CACHE_TAG(CACHE_BADDR(a)) = CACHE_TAG(a)
    BY <2>1, BlockAddress
  <2> QED
    BY <1>1, <1>2, <2>2 DEF Promising, CacheInv, LastBlockHolds, Holds
<1>4. /\ assoc \in Nat \ {0} /\ Ordered(way[s]) /\ OnceEach(blk[s]) /\ blk[s] \in [Ways -> Block]
  BY SetFacts DEF Promising
<1>5. order' = order /\ ValidFirst'
  <2>1. blk \in [Sets -> [Ways -> Block]]
    BY DEF Promising, CacheState, TypeOK
  <2>2. \A r \in Sets, v \in Ways :
          blk'[r][v].tag = blk[r][v].tag /\ blk'[r][v].valid = blk[r][v].valid
    BY <1>2, <2>1, MarkDirtyTyped
  <2> QED
    BY <1>2, <2>2, OrderStays DEF Promising
<1>6. CACHE_TAG(a) \in Promise!Held(s)
  <2>1. CACHE_TAG(a) \in HeldIn(blk[s])
    BY <1>3 DEF HeldIn
  <2> QED
    BY <1>4, <2>1, HeldIs, OrderIs DEF Kept
<1>7. ASSUME policy = "LRU" PROVE order = [order EXCEPT ![s] = Promise!InFront(@, CACHE_TAG(a))]
  <2>1. way[s][1] = w
    BY <1>1, <1>2, <1>7 DEF Promising, CacheState
  <2>2. Place(way[s], w) = 1 /\ ToHead(way[s], 1) = way[s]
    BY <1>4, <2>1, PlaceOf
  <2>4. RestOf(Promise!Without(OrderIn(way[s], blk[s]), CACHE_TAG(a)), way[s], blk[s], w)
    BY <1>3, <1>4, WithoutIsRest
  <2>5. Enters(OrderIn(way[s], blk[s]), way[s], blk[s], w, blk[s])
    BY <1>3, <1>4, <2>4 DEF Enters, OnceEach
  <2>6. OrderIn(way[s], blk[s]) = Promise!InFront(OrderIn(way[s], blk[s]), CACHE_TAG(a))
    BY <1>3, <1>4, <2>2, <2>5, HeadInFront
  <2> QED
    BY <2>6, OrderIs DEF Kept
<1>8. Promise!Use(s, CACHE_TAG(a))
  BY <1>3, <1>5, <1>7 DEF Promise!Use
<1> QED
  BY <1>5, <1>6, <1>8, OrderIs DEF Promise!Next, geometry

\* The promise counts as the library does.
LEMMA SameCount == \A S : Promise!Cardinality(S) = Cardinality(S)
BY DEF Promise!Cardinality, Cardinality

\* A miss fills as the promise says.
LEMMA MissFills ==
  ASSUME Promising, UNCHANGED geometry, NEW cmd, NEW a \in 0 .. ADDRS - 1, NEW pf, NEW x \in Ways,
         Miss(cmd, a, pf, x), hit' = hit
  PROVE  Promise!Next /\ ValidFirst'
<1>0. PICK s, t : s = CACHE_SET(a) /\ t = CACHE_TAG(a)
  OBVIOUS
<1>1. s \in Sets /\ t \in 0 .. ADDRS - 1
  <2>1. cp \in Configs /\ a \in Nat
    BY CacheAssumption DEF Promising, CacheState, TypeOK
  <2>2. s \in Sets /\ t \in Nat
    BY <1>0, <2>1, BlockAddress
  <2>3. a \div (bsize * nsets) <= a
    <3>1. bsize * nsets \in Nat \ {0}
      BY <2>1, GeometryType
    <3> QED
      BY <2>1, <3>1
  <2> QED
    BY <1>0, <2>1, <2>2, <2>3, CacheAssumption DEF CACHE_TAG
<1>2. /\ assoc \in Nat \ {0} /\ Ordered(way[s]) /\ OnceEach(blk[s]) /\ blk[s] \in [Ways -> Block]
  BY <1>1, SetFacts DEF Promising
<1>3. /\ blk'[s][x].valid /\ blk'[s][x].tag = t
      /\ \A v \in Ways \ {x} : blk'[s][v] = blk[s][v]
      /\ \A r \in Sets : r # s => blk'[r] = blk[r]
  BY <1>0, <1>1 DEF Miss, Promising, CacheState, TypeOK
<1>4. \A v \in Ways : blk[s][v].valid => blk[s][v].tag # t
  BY <1>0, CacheAssumption, SearchIsComplete DEF Miss, cache_probe, Promising, CacheInv
<1>5. x \in Victims(s) /\ way' = IF policy = "Random" THEN way ELSE [way EXCEPT ![s] = ToHead(@, assoc)]
  BY <1>0 DEF Miss
<1>6. \A r \in Sets : r # s => way'[r] = way[r]
  BY <1>5 DEF Promising, CacheState, TypeOK
<1>7. order' = [order EXCEPT ![s] = OrderIn(way'[s], blk'[s])]
  BY <1>1, <1>3, <1>6, OneSetChanges
<1>8. order[s] = OrderIn(way[s], blk[s]) /\ s \in Promise!Sets
      /\ Promise!Held(s) = HeldIn(blk[s])
  BY <1>1, <1>2, OrderIs, HeldIs DEF Kept
<1>9. t \in (0 .. ADDRS - 1) \ Promise!Held(s)
  BY <1>1, <1>4, <1>8 DEF HeldIn
<1>10. CASE policy # "Random"
  <2>1. x = way[s][assoc] /\ Place(way[s], x) = assoc
    <3>1. x = way[s][assoc]
      BY <1>5, <1>10 DEF Victims
    <3> QED
      BY <1>2, <3>1, PlaceOf
  <2>2. way'[s] = ToHead(way[s], Place(way[s], x))
    BY <1>1, <1>5, <1>10, <2>1 DEF Promising, CacheState, TypeOK
  <2>3. ValidAhead(way[s], blk[s])
    BY <1>1, <1>10 DEF Promising, ValidFirst
  <2> DEFINE kept == IF blk[s][x].valid THEN Promise!Without(order[s], blk[s][x].tag) ELSE order[s]
  <2>4. RestOf(kept, way[s], blk[s], x)
    BY <1>2, <1>8, WithoutIsRest
  <2>5. Promise!Without(kept, t) = kept
    <3>1. ASSUME NEW q \in kept PROVE q[1] # t /\ q[2] # t
      <4>1. PICK v \in Ways, w \in Ways : blk[s][v].valid /\ blk[s][w].valid /\ q = <<blk[s][v].tag, blk[s][w].tag>>
        BY <2>4 DEF RestOf
      <4> QED
        BY <1>4, <4>1
    <3> HIDE DEF kept
    <3> QED
      BY <3>1, WithoutAgain
  <2>6. Enters(kept, way[s], blk[s], x, blk'[s])
    <3> HIDE DEF kept
    <3> QED
      BY <1>3, <1>4, <2>4, <2>5 DEF Enters
  <2>7. OrderIn(way'[s], blk'[s]) = Promise!InFront(kept, t)
    <3> HIDE DEF kept
    <3> QED
      BY <1>2, <1>3, <2>2, <2>6, HeadInFront
  <2>8. kept \in IF Cardinality(Promise!Held(s)) < assoc THEN {order[s]}
                 ELSE {Promise!Without(order[s], u) : u \in Promise!Oldest(s)}
    <3>1. Cardinality(Promise!Held(s)) < assoc <=> ~ blk[s][x].valid
      BY <1>2, <1>8, <2>1, <2>3, HeldCounted, FullIfTailValid
    <3>2. CASE ~ blk[s][x].valid
      BY <3>1, <3>2
    <3>3. CASE blk[s][x].valid
      <4>1. blk[s][x].tag \in Promise!Oldest(s)
        <5>1. /\ blk[s][x].tag \in HeldIn(blk[s])
              /\ \A u \in HeldIn(blk[s]) : <<u, blk[s][x].tag>> \in OrderIn(way[s], blk[s])
          BY <1>2, <2>1, <3>3, TailIsOldest
        <5> QED
          BY <1>8, <5>1 DEF Promise!Oldest
      <4> QED
        BY <3>1, <3>3, <4>1
    <3> QED
      BY <3>2, <3>3
  <2>9. Promise!Fill(s, t)
    <3> HIDE DEF kept
    <3>1. order' = [order EXCEPT ![s] = Promise!InFront(kept, t)]
      BY <1>7, <2>7
    <3>2. \E k \in IF Cardinality(Promise!Held(s)) < assoc THEN {order[s]}
                 ELSE {Promise!Without(order[s], u) : u \in Promise!Oldest(s)} :
            order' = [order EXCEPT ![s] = Promise!InFront(k, t)]
      BY <2>8, <3>1, Zenon
    <3> QED
      BY <1>10, <3>2, SameCount DEF Promise!Fill
  <2>10. Promise!Next
    BY <1>8, <1>9, <2>9 DEF Promise!Next, geometry
  <2>11. ValidFirst'
    <3>1. ASSUME NEW r \in Sets PROVE ValidAhead(way'[r], blk'[r])
      <4>1. ValidAhead(way[r], blk[r])
        BY <1>10 DEF Promising, ValidFirst
      <4>2. CASE r = s
        BY <1>2, <1>3, <2>2, <4>1, <4>2, AheadStays
      <4>3. CASE r # s
        BY <1>3, <1>6, <4>1, <4>3
      <4> QED
        BY <4>2, <4>3
    <3> QED
      BY <3>1, OrderNext DEF ValidFirst, ValidAhead, Outlives, Place
  <2> QED
    BY <2>10, <2>11
<1>11. CASE policy = "Random"
  <2>1. way' = way /\ ValidFirst'
    BY <1>5, <1>11, OrderNext DEF ValidFirst
  <2>2. Promise!Held(s)' = HeldIn(blk'[s])
    <3>1. Promise!Held(s)' = {p[1] : p \in OrderIn(way'[s], blk'[s])}
      BY <1>1, OrderNext DEF Promise!Held
    <3>2. {p[1] : p \in OrderIn(way[s], blk'[s])} = HeldIn(blk'[s])
      BY <1>2, HeldIs
    <3> QED
      BY <2>1, <3>1, <3>2
  <2>3. Cardinality(HeldIn(blk'[s])) <= assoc
    <3>1. OnceEach(blk'[s])
      BY <1>2, <1>3, <1>4 DEF OnceEach
    <3> QED
      BY <1>2, <3>1, HeldCounted
  <2> DEFINE victims == IF blk[s][x].valid THEN {blk[s][x].tag} ELSE {}
  <2>4. victims \in SUBSET Promise!Held(s) /\ \A u, v \in victims : u = v
    BY <1>8 DEF HeldIn
  <2>5. HeldIn(blk'[s]) = (HeldIn(blk[s]) \ victims) \cup {t}
    <3>1. ASSUME NEW u PROVE u \in HeldIn(blk'[s]) <=> u \in (HeldIn(blk[s]) \ victims) \cup {t}
      BY <1>2, <1>3 DEF HeldIn, OnceEach
    <3> QED
      BY <3>1
  <2>6. Promise!Sets' = Promise!Sets /\ \A r \in Promise!Sets \ {s} : order'[r] = order[r]
    BY <1>7, OrderIs, OrderNext
  <2>7. Promise!FillAny(s, t)
    <3> HIDE DEF victims
    <3>1. Cardinality(Promise!Held(s)') <= assoc
      BY <2>2, <2>3
    <3>2. Promise!Held(s)' = (Promise!Held(s) \ victims) \cup {t}
      BY <1>8, <2>2, <2>5
    <3> QED
      BY <1>11, <2>4, <2>6, <3>1, <3>2, SameCount DEF Promise!FillAny
  <2> QED
    BY <1>8, <1>9, <2>1, <2>7 DEF Promise!Next, geometry
<1> QED
  BY <1>10, <1>11

\* A call of cache_access: a hit, fast or not, uses; a miss fills; and a crash changes nothing.
LEMMA CallPromised ==
  ASSUME Promising, UNCHANGED geometry, NEW cmd, NEW a \in 0 .. ADDRS - 1, NEW pf, NEW targets,
         cache_access(cmd, a, pf, targets)
  PROVE  (Promise!Next \/ UNCHANGED promised) /\ ValidFirst'
<1>1. Access(cmd, a, pf) /\ serving' = [addr |-> a, blk |-> last_blk']
  BY DEF cache_access
<1>2. hit = <<>>
  BY DEF cache_access, Promising, CacheState, hit
<1>3. last_blk' = NULL => hit' = hit
  BY <1>1, <1>2, HitNext
<1>4. last_blk' # NULL => hit' = <<CACHE_SET(a), CACHE_TAG(a)>>
  BY <1>1, HitNext
<1>5. CASE FastHit(cmd, a)
  <2>1. last_blk' # NULL
    BY <1>5 DEF FastHit
  <2> QED
    BY <1>2, <1>4, <1>5, <2>1, FastHitUses
<1>6. CASE NullHit(a)
  <2>1. /\ last_blk' = NULL /\ way' = way /\ blk' = blk
    BY <1>6 DEF NullHit
  <2>2. order' = order /\ ValidFirst'
    BY <2>1, OrderStays DEF Promising
  <2> QED
    BY <1>3, <2>1, <2>2, OrderNext DEF promised
<1>7. ASSUME NEW w \in Ways, Hit(cmd, a, w)
      PROVE  Promise!Next /\ ValidFirst'
  <2>1. last_blk' = <<CACHE_SET(a), w>> /\ w \in Nat
    <3>1. assoc \in Nat
      BY GeometryType DEF Promising, CacheState, TypeOK
    <3> QED
      BY <1>7, <3>1 DEF Hit, Ways
  <2>2. last_blk' # NULL
    BY <2>1 DEF NULL
  <2> QED
    BY <1>2, <1>4, <1>7, <2>2, HitUses
<1>8. ASSUME NEW w \in Ways, Miss(cmd, a, pf, w)
      PROVE  Promise!Next /\ ValidFirst'
  <2>1. last_blk' = NULL
    BY <1>8 DEF Miss, ForgetLast
  <2> QED
    BY <1>3, <1>8, <2>1, MissFills
<1> QED
  BY <1>1, <1>5, <1>6, <1>7, <1>8 DEF Access

\* A prefetch fills if the block is not there, and else does nothing.
LEMMA PrefetchPromised ==
  ASSUME Promising, UNCHANGED geometry, Prefetch
  PROVE  (Promise!Next \/ UNCHANGED promised) /\ ValidFirst'
<1> DEFINE t == CACHE_BADDR(Head(pending))
<1>1. t \in 0 .. ADDRS - 1 /\ hit' = hit
  BY PrefetchTarget, HitNext DEF Prefetch, Promising
<1>2. ASSUME way' = way, blk' = blk
      PROVE  UNCHANGED promised /\ ValidFirst'
  BY <1>1, <1>2, OrderStays, OrderNext DEF promised, Promising
<1>3. CASE cache_probe(t)
  BY <1>2, <1>3 DEF Prefetch
<1>4. CASE ~ cache_probe(t)
  <2>1. Access("Read", t, TRUE)
    BY <1>4 DEF Prefetch
  <2> HIDE DEF t
  <2>2. ~ FastHit("Read", t)
    <3>1. ASSUME FastHit("Read", t) PROVE FALSE
      <4>1. last_blk # NULL /\ CACHE_BADDR(t) = last_tagset
        BY <3>1 DEF FastHit, SameBlock
      <4>2. t \in Nat /\ cp \in Configs
        BY <1>1, CacheAssumption DEF Promising, CacheState, TypeOK
      <4>3. CACHE_SET(CACHE_BADDR(t)) = CACHE_SET(t) /\ CACHE_TAG(CACHE_BADDR(t)) = CACHE_TAG(t)
        BY <4>2, BlockAddress
      <4>4. Holds(last_blk, last_tagset) /\ last_blk[2] \in Ways
        BY <4>1 DEF Promising, CacheInv, LastBlockHolds, BlocksTyped
      <4>5. last_blk[2] \in Found(t)
        BY <4>1, <4>2, <4>3, <4>4, SearchIsComplete DEF Holds, Promising, CacheInv
      <4> QED
        BY <1>4, <4>5 DEF cache_probe
    <3> QED
      BY <3>1
  <2>3. CASE NullHit(t)
    BY <1>2, <2>3 DEF NullHit
  <2>4. ASSUME NEW w \in Ways, Hit("Read", t, w) PROVE FALSE
    BY <1>4, <2>4 DEF Hit, cache_probe
  <2>5. ASSUME NEW w \in Ways, Miss("Read", t, TRUE, w) PROVE Promise!Next /\ ValidFirst'
    BY <1>1, <2>5, MissFills
  <2> QED
    BY <2>1, <2>2, <2>3, <2>4, <2>5 DEF Access
<1> QED
  BY <1>3, <1>4

\* cache_flush drops all.
LEMMA FlushPromised ==
  ASSUME Promising, UNCHANGED geometry, cache_flush
  PROVE  Promise!Next /\ ValidFirst'
<1>1. way' = way /\ hit' = hit
  BY HitNext DEF cache_flush
<1>2. \A s \in Sets, w \in Ways : ~ blk'[s][w].valid
  BY FlushSaves DEF Promising
<1>3. ASSUME NEW s \in Sets PROVE OrderIn(way'[s], blk'[s]) = {}
  <2>1. assoc \in Nat \ {0} /\ Ordered(way[s])
    BY SetFacts DEF Promising
  <2> QED
    BY <1>1, <1>2, <2>1, SameOrder
<1>4. Promise!DropAll
  BY <1>1, <1>3, OrderIs, OrderNext DEF Promise!DropAll
<1>5. ValidFirst'
  BY <1>2, OrderNext DEF ValidFirst, ValidAhead
<1> QED
  BY <1>4, <1>5 DEF Promise!Next, geometry

\* cache_flush_addr drops the address.
LEMMA FlushAddrPromised ==
  ASSUME Promising, UNCHANGED geometry, NEW a \in 0 .. ADDRS - 1, cache_flush_addr(a)
  PROVE  Promise!Next /\ ValidFirst'
<1>0. PICK s, t : s = CACHE_SET(a) /\ t = CACHE_TAG(a)
  OBVIOUS
<1>1. s \in Sets
  BY <1>0, AddressesFit DEF Promising, CacheState, TypeOK
<1>2. PICK x \in Ways : /\ blk[s][x].valid /\ blk[s][x].tag = t
                       /\ blk' = [blk EXCEPT ![s][x].valid = FALSE]
                       /\ way' = [way EXCEPT ![s] = ToTail(@, Place(@, x))]
  <2>1. PICK w \in Found(a) : /\ blk' = [blk EXCEPT ![s][w].valid = FALSE]
                             /\ way' = [way EXCEPT ![s] = ToTail(@, Place(@, w))]
    BY <1>0 DEF cache_flush_addr
  <2>2. w \in Ways
    <3>1. hash \in [Sets -> [Buckets -> SUBSET Ways]] /\ CACHE_TAG(a) \in Nat
      BY AddressesFit DEF Promising, CacheState, TypeOK
    <3>2. hsize # 0 => CACHE_HASH(t) \in Buckets
      BY <1>0, <3>1, GeometryType, BucketExists DEF Promising, CacheState, TypeOK
    <3> QED
      BY <1>0, <1>1, <2>1, <3>1, <3>2 DEF Found, Chain
  <2> QED
    BY <1>0, <2>1, <2>2 DEF Found
<1>3. /\ assoc \in Nat \ {0} /\ Ordered(way[s]) /\ OnceEach(blk[s]) /\ blk[s] \in [Ways -> Block]
  BY <1>1, SetFacts DEF Promising
<1>4. /\ \A r \in Sets : r # s => way'[r] = way[r] /\ blk'[r] = blk[r]
      /\ way'[s] = ToTail(way[s], Place(way[s], x))
      /\ ~ blk'[s][x].valid /\ \A v \in Ways \ {x} : blk'[s][v] = blk[s][v]
  BY <1>1, <1>2 DEF Promising, CacheState, TypeOK, Block
<1>5. OrderIn(way'[s], blk'[s]) = Promise!Without(OrderIn(way[s], blk[s]), t)
  <2>1. Leaves(blk[s], x, blk'[s])
    BY <1>2, <1>4 DEF Leaves
  <2> QED
    BY <1>2, <1>3, <1>4, <2>1, TailDrops
<1>6. hit' = hit
  BY HitNext DEF cache_flush_addr
<1>7. order[s] = OrderIn(way[s], blk[s]) /\ s \in Promise!Sets /\ t \in Promise!Held(s)
  <2>1. t \in HeldIn(blk[s])
    BY <1>2 DEF HeldIn
  <2> QED
    BY <1>1, <1>3, <2>1, OrderIs, HeldIs DEF Kept
<1>8. Promise!Drop(s, t)
  <2>1. order' = [order EXCEPT ![s] = OrderIn(way'[s], blk'[s])]
    BY <1>1, <1>4, OneSetChanges
  <2> QED
    BY <1>5, <1>6, <1>7, <2>1 DEF Promise!Drop
<1>9. ValidFirst'
  <2>1. ASSUME policy # "Random", NEW r \in Sets PROVE ValidAhead(way'[r], blk'[r])
    <3>1. ValidAhead(way[r], blk[r])
      BY <2>1 DEF Promising, ValidFirst
    <3>2. CASE r = s
      BY <1>3, <1>4, <3>1, <3>2, AheadStays
    <3>3. CASE r # s
      BY <1>4, <3>1, <3>3
    <3> QED
      BY <3>2, <3>3
  <2> QED
    BY <2>1, OrderNext DEF ValidFirst, ValidAhead, Outlives, Place
<1> QED
  BY <1>7, <1>8, <1>9 DEF Promise!Next, geometry

\* Every step of the cache is one the promise allows.
LEMMA StepPromised ==
  ASSUME Promising, [Next]_cacheVars
  PROVE  (Promise!Next \/ UNCHANGED promised) /\ ValidFirst'
<1>1. UNCHANGED geometry
  BY DEF Next, cacheVars, cp, geometry
<1>2. ASSUME way' = way, blk' = blk
      PROVE  order' = order /\ policy' = policy /\ assoc' = assoc /\ ValidFirst'
  BY <1>1, <1>2, OrderStays, OrderNext DEF Promising
<1>3. ASSUME NEW cmd \in Cmds, NEW a \in DataAddrs, NEW targets, cache_access(cmd, a, FALSE, targets)
      PROVE  (Promise!Next \/ UNCHANGED promised) /\ ValidFirst'
  <2>1. a \in 0 .. ADDRS - 1
    BY CacheAssumption
  <2> QED
    BY <1>1, <1>3, <2>1, CallPromised
<1>4. CASE Prefetch
  BY <1>1, <1>4, PrefetchPromised
<1>5. CASE Served \/ UNCHANGED cacheVars
  <2>1. way' = way /\ blk' = blk /\ serving' = serving
    BY <1>5 DEF Served, cacheVars
  <2> QED
    BY <1>1, <1>2, <2>1, HitNext DEF promised
<1>6. CASE Return
  <2>1. way' = way /\ blk' = blk /\ serving'.blk = NULL
    BY <1>6 DEF Return
  <2>2. hit' = <<>> /\ order' = order /\ UNCHANGED <<policy, assoc>> /\ ValidFirst'
    BY <1>1, <1>2, <2>1, HitNext
  <2>3. CASE hit = <<>>
    BY <2>2, <2>3 DEF promised
  <2>4. CASE hit # <<>>
    <3>1. Promise!Used
      BY <2>2, <2>4 DEF Promise!Used
    <3> QED
      BY <2>2, <3>1 DEF Promise!Next
  <2> QED
    BY <2>3, <2>4
<1>7. CASE cache_flush
  BY <1>1, <1>7, FlushPromised
<1>8. ASSUME NEW a \in DataAddrs, cache_flush_addr(a)
      PROVE  Promise!Next /\ ValidFirst'
  <2>1. a \in 0 .. ADDRS - 1
    BY CacheAssumption
  <2> QED
    BY <1>1, <1>8, <2>1, FlushAddrPromised
<1> QED
  BY <1>3, <1>4, <1>5, <1>6, <1>7, <1>8 DEF Next

\* A cache just created holds nothing, as the promise begins.
LEMMA InitPromised == Init => Promise!Init /\ ValidFirst
<1> SUFFICES ASSUME Init PROVE Promise!Init /\ ValidFirst
  OBVIOUS
<1>1. CacheInv /\ CacheState
  BY CacheInit, StateInit
<1>2. \A s \in Sets, w \in Ways : ~ blk[s][w].valid
  BY DEF Init
<1>3. ASSUME NEW s \in Sets PROVE order[s] = {}
  <2>1. assoc \in Nat \ {0} /\ Ordered(way[s])
    BY <1>1, SetFacts
  <2>2. OrderIn(way[s], blk[s]) = {}
    BY <1>2, <2>1, SameOrder
  <2> QED
    BY <2>2, OrderIs DEF Kept
<1>4. policy \in {"LRU", "FIFO", "Random"}
  <2>1. cp \in Configs /\ cp.policy = policy
    BY <1>1 DEF CacheState, TypeOK, cp
  <2> QED
    BY <2>1, CacheAssumption
<1>5. hit = <<>>
  BY DEF Init, hit
<1>6. ValidFirst
  BY <1>2 DEF ValidFirst, ValidAhead
<1> QED
  BY <1>3, <1>4, <1>5, <1>6, OrderIs DEF Promise!Init

\* "Perfect LRU", "the oldest", "a random block": the cache implements the replacement order
\* that its comments promise, whatever the geometry, the hash table and the prefetches.
THEOREM CacheReplacesAsPromised == Spec => ReplacesAsPromised
<1>1. Init => Promise!Init /\ Promising
  BY CacheInit, StateInit, InitPromised DEF Promising
<1>2. Promising /\ [Next]_cacheVars => Promising'
  BY NextIsAnyStep, CacheStep, StateStep, StepPromised DEF Promising
<1>3. Promising /\ [Next]_cacheVars => [Promise!Next]_promised
  BY StepPromised
<1> QED
  BY <1>1, <1>2, <1>3, PTL DEF Spec, ReplacesAsPromised, Promise!Spec, promised
=============================================================================
