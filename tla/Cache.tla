------------------------------- MODULE Cache -------------------------------
(***************************************************************************)
(* The cache of lab4/simplesim-3.0d-assig4/cache.c.  A call of             *)
(* cache_access does its own work in one step; what it calls follows in    *)
(* steps of its own: the accesses to the next level (calls), then the      *)
(* accesses generate_prefetch makes to this very cache (pending), and only *)
(* then does it return.  Data are not stored (balloc is FALSE in every     *)
(* simulator), and latencies are left out: sim-cache ignores them.         *)
(***************************************************************************)
EXTENDS Integers, Sequences

CONSTANTS ADDRS,      \* addresses are 0 .. ADDRS - 1
          Configs,    \* the parameters to create it with
          Cmds,       \* what the program does: "Read", "Write"
          DataAddrs,  \* the addresses it uses
          PrefetchTargets(_)  \* what generate_prefetch may look for after an address

PowersOfTwo == {2 ^ k : k \in 0 .. 30}

\* The code derives hsize from assoc: a quarter of it from 8 on, and 0 below.
\* Here any size goes with any associativity, to keep the sets small.
ASSUME CacheAssumption ==
  /\ Configs \subseteq [policy : {"LRU", "Random", "FIFO"}, hsize : {0} \cup PowersOfTwo,
                        nsets : PowersOfTwo, bsize : PowersOfTwo, assoc : PowersOfTwo,
                        prefetch : BOOLEAN]
  /\ Cmds \subseteq {"Read", "Write"}
  /\ ADDRS \in Nat \ {0} /\ \A c \in Configs : ADDRS % (c.bsize * c.nsets) = 0
  /\ DataAddrs \subseteq 0 .. ADDRS - 1
  /\ \A a \in 0 .. ADDRS - 1 : PrefetchTargets(a) \subseteq Seq(0 .. ADDRS - 1)

VARIABLES policy, nsets, bsize, assoc,
          prefetch,     \* whether it has a prefetcher
          hsize,        \* buckets of a set's hash table, 0 if it has none
          blk,          \* the blocks of each set
          way,          \* the order of a set's blocks, head first
          hash,         \* the blocks in each bucket of a set
          last_tagset, last_blk,   \* the last block to hit
          calls,        \* accesses to the next level still to be made
          pending,      \* addresses generate_prefetch still has to look for
          serving,      \* the access that is under way, and its blk
          status
cp == [policy |-> policy, hsize |-> hsize, nsets |-> nsets, bsize |-> bsize, assoc |-> assoc,
       prefetch |-> prefetch]
cacheVars == <<cp, blk, way, hash, last_tagset, last_blk, calls, pending, serving, status>>

Sets == 0 .. nsets - 1
Ways == 0 .. assoc - 1
Tags == 0 .. (ADDRS \div (bsize * nsets)) - 1
NULL == <<-1, -1>>

CACHE_BADDR(a) == a - (a % bsize)
CACHE_SET(a)   == (a \div bsize) % nsets
\* A mistake: the set bits left in the tag.
TagWithSetBits(a) == a \div bsize
CACHE_TAG(a)   == a \div (bsize * nsets)
CACHE_MK_BADDR(tag, set) == (tag * nsets + set) * bsize
\* The bytes of a tag xored, and as many bits of that as the table needs.  A
\* bucket is named by the bits that are set in its index.
Bit(tag, i)     == (tag \div 2 ^ i) % 2
HashBits        == {i \in 0 .. hsize - 1 : 2 ^ i < hsize}
CACHE_HASH(tag) == {i \in HashBits :
  (Bit(tag, i + 24) + Bit(tag, i + 16) + Bit(tag, i + 8) + Bit(tag, i)) % 2 = 1}
Buckets         == IF hsize = 0 THEN {} ELSE SUBSET HashBits

Call(cmd, a, pf) == [cmd |-> cmd, addr |-> a, prefetch |-> pf]

Init ==
  /\ \E c \in Configs : /\ policy = c.policy /\ hsize = c.hsize /\ prefetch = c.prefetch
                          /\ nsets = c.nsets /\ bsize = c.bsize /\ assoc = c.assoc
  /\ blk  = [s \in Sets |-> [w \in Ways |-> [tag |-> 0, valid |-> FALSE, dirty |-> FALSE]]]
  /\ way  = [s \in Sets |-> [i \in 1 .. assoc |-> assoc - i]]
  /\ hash = [s \in Sets |-> [h \in Buckets |-> IF h = CACHE_HASH(0) THEN Ways ELSE {}]]
  /\ last_tagset = 0 /\ last_blk = NULL
  /\ calls = <<>> /\ pending = <<>>
  /\ serving = [addr |-> 0, blk |-> NULL]
  /\ status = "idle"

-----------------------------------------------------------------------------
(* update_way_list: the block at place p of a way list moves to an end. *)
Place(list, w) == CHOOSE i \in 1 .. assoc : list[i] = w
\* A mistake: the head changes places with the block.
SwappedWithHead(list, p) ==
  [i \in 1 .. assoc |-> IF i = 1 THEN list[p] ELSE IF i = p THEN list[1] ELSE list[i]]
ToHead(list, p) ==
  [i \in 1 .. assoc |-> IF i = 1 THEN list[p] ELSE IF i <= p THEN list[i - 1] ELSE list[i]]
ToTail(list, p) ==
  [i \in 1 .. assoc |-> IF i = assoc THEN list[p] ELSE IF i < p THEN list[i] ELSE list[i + 1]]

\* The blocks a search for a tag looks at, and those it takes for a hit.
Chain(s, tag) == IF hsize = 0 THEN Ways ELSE hash[s][CACHE_HASH(tag)]
\* A mistake: the search ends before the last block.
TailNotSearched(a) == {w \in Chain(CACHE_SET(a), CACHE_TAG(a)) \ {way[CACHE_SET(a)][assoc]} :
               /\ blk[CACHE_SET(a)][w].valid
               /\ blk[CACHE_SET(a)][w].tag = CACHE_TAG(a)}
Found(a) == {w \in Chain(CACHE_SET(a), CACHE_TAG(a)) :
               /\ blk[CACHE_SET(a)][w].valid
               /\ blk[CACHE_SET(a)][w].tag = CACHE_TAG(a)}
cache_probe(a) == Found(a) # {}

MarkDirty(cmd, s, w) ==
  blk' = [blk EXCEPT ![s][w].dirty = @ \/ cmd = "Write"]

\* A mistake: the last block survives its replacement.
NothingForgotten == UNCHANGED <<last_tagset, last_blk>>
ForgetLast == last_tagset' = 0 /\ last_blk' = NULL

SameBlock(a) == CACHE_BADDR(a) = last_tagset

\* A mistake: the dirty bit forgotten on the fast path.
FastHitStaysClean(cmd, a) ==
  /\ SameBlock(a) /\ last_blk # NULL
  /\ status' = "busy"
  /\ UNCHANGED <<blk, way, hash, last_tagset, last_blk, calls>>

\* The fast hit takes last_blk without a look at the set.
FastHit(cmd, a) ==
  /\ SameBlock(a) /\ last_blk # NULL
  /\ MarkDirty(cmd, last_blk[1], last_blk[2])
  /\ status' = "busy"
  /\ UNCHANGED <<way, hash, last_tagset, last_blk, calls>>

\* last_tagset is 0 when there is no last block: block 0 then is "the same".
NullHit(a) ==
  /\ SameBlock(a) /\ last_blk = NULL
  /\ status' = "crashed"
  /\ UNCHANGED <<blk, way, hash, last_tagset, last_blk, calls>>

\* A mistake: a hit leaves the order alone.
NotReordered(list, w) == list

\* Under LRU a block that is hit becomes the first of its set.
Reordered(list, w) == IF policy = "LRU" THEN ToHead(list, Place(list, w)) ELSE list

Hit(cmd, a, w) ==
  LET s == CACHE_SET(a) IN
  /\ ~SameBlock(a)
  /\ w \in Found(a)
  /\ MarkDirty(cmd, s, w)
  /\ way' = [way EXCEPT ![s] = Reordered(@, w)]
  /\ last_tagset' = CACHE_BADDR(a) /\ last_blk' = <<s, w>>
  /\ status' = "busy"
  /\ UNCHANGED <<hash, calls>>

\* The block a miss replaces: the tail of the way list, or any.
Victims(s) == IF policy = "Random" THEN Ways ELSE {way[s][assoc]}

WriteBack(s, w) ==
  IF blk[s][w].valid /\ blk[s][w].dirty
  THEN <<Call("Write", CACHE_MK_BADDR(blk[s][w].tag, s), FALSE)>> ELSE <<>>

\* A mistake: the block enters the bucket of its old tag.
NewTagMissed(buckets, old, new, w) ==
  [h \in Buckets |->
     IF h = CACHE_HASH(old) THEN buckets[h] \cup {w} ELSE buckets[h] \ {w}]
Relink(buckets, old, new, w) ==
  [h \in Buckets |->
     IF h = CACHE_HASH(new) THEN buckets[h] \cup {w}
     ELSE IF h = CACHE_HASH(old) THEN buckets[h] \ {w} ELSE buckets[h]]

Miss(cmd, a, isPrefetch, w) ==
  LET s == CACHE_SET(a) IN
  /\ ~SameBlock(a) /\ ~cache_probe(a)
  /\ w \in Victims(s)
  /\ way' = IF policy = "Random" THEN way ELSE [way EXCEPT ![s] = ToHead(@, assoc)]
  /\ hash' = [hash EXCEPT ![s] = Relink(@, blk[s][w].tag, CACHE_TAG(a), w)]
  /\ ForgetLast
  /\ blk' = [blk EXCEPT ![s][w] = [tag |-> CACHE_TAG(a), valid |-> TRUE, dirty |-> cmd = "Write"]]
  /\ calls' = WriteBack(s, w) \o <<Call("Read", CACHE_BADDR(a), isPrefetch)>>
  /\ status' = "busy"

Access(cmd, a, isPrefetch) ==
  \/ FastHit(cmd, a)
  \/ NullHit(a)
  \/ \E w \in Ways : Hit(cmd, a, w) \/ Miss(cmd, a, isPrefetch, w)

-----------------------------------------------------------------------------
\* cache_access, called from outside; targets is what its prefetcher will
\* look for, nothing if the access is itself a prefetch of the level above.
cache_access(cmd, a, isPrefetch, targets) ==
  /\ status = "idle"
  /\ Access(cmd, a, isPrefetch)
  /\ pending' = targets
  /\ serving' = [addr |-> a, blk |-> last_blk']

\* The next prefetch of generate_prefetch, unless the block is there.
Prefetch ==
  /\ status = "busy" /\ calls = <<>> /\ pending # <<>>
  /\ LET t == CACHE_BADDR(Head(pending)) IN
       IF cache_probe(t)
       THEN UNCHANGED <<blk, way, hash, last_tagset, last_blk, calls, status>>
       ELSE Access("Read", t, TRUE)
  /\ pending' = Tail(pending)
  /\ UNCHANGED serving

\* The next level has served the first of the calls.
Served ==
  /\ status = "busy" /\ calls # <<>>
  /\ calls' = Tail(calls)
  /\ UNCHANGED <<blk, way, hash, last_tagset, last_blk, pending, serving, status>>

Return ==
  /\ status = "busy" /\ calls = <<>> /\ pending = <<>>
  /\ status' = "idle"
  /\ serving' = [addr |-> 0, blk |-> NULL]
  /\ UNCHANGED <<blk, way, hash, last_tagset, last_blk, calls, pending>>

\* The blocks keep their dirty bit, their place and their tag.
cache_flush ==
  /\ status = "idle"
  /\ blk' = [s \in Sets |-> [w \in Ways |-> [blk[s][w] EXCEPT !.valid = FALSE]]]
  /\ ForgetLast
  /\ calls' = LET inOrder[n \in 0 .. nsets * assoc] ==
                    IF n = 0 THEN <<>>
                    ELSE LET s == (n - 1) \div assoc
                             i == ((n - 1) % assoc) + 1
                         IN inOrder[n - 1] \o WriteBack(s, way[s][i])
              IN inOrder[nsets * assoc]
  /\ status' = "busy"
  /\ UNCHANGED <<way, hash, pending, serving>>

cache_flush_addr(a) ==
  LET s == CACHE_SET(a) IN
  /\ status = "idle"
  /\ \E w \in Found(a) :
       /\ blk' = [blk EXCEPT ![s][w].valid = FALSE]
       /\ ForgetLast
       /\ calls' = WriteBack(s, w)
       /\ way' = [way EXCEPT ![s] = ToTail(@, Place(@, w))]
  /\ status' = "busy"
  /\ UNCHANGED <<hash, pending, serving>>

Next ==
  /\ \/ \E cmd \in Cmds, a \in DataAddrs : \E targets \in IF prefetch THEN PrefetchTargets(a) ELSE {<<>>} :
          cache_access(cmd, a, FALSE, targets)
     \/ Prefetch \/ Served \/ Return
     \/ cache_flush
     \/ \E a \in DataAddrs : cache_flush_addr(a)
  /\ UNCHANGED <<policy, nsets, bsize, assoc, prefetch, hsize>>

Spec == Init /\ [][Next]_cacheVars
-----------------------------------------------------------------------------
Block == [tag : Tags, valid : BOOLEAN, dirty : BOOLEAN]
Calls == [cmd : {"Read", "Write"}, addr : 0 .. ADDRS - 1, prefetch : BOOLEAN]
BlockRefs == (Sets \X Ways) \cup {NULL}

TypeOK ==
  /\ cp \in Configs
  /\ blk \in [Sets -> [Ways -> Block]]
  /\ way \in [Sets -> [1 .. assoc -> Ways]]
  /\ hash \in [Sets -> [Buckets -> SUBSET Ways]]
  /\ last_tagset \in 0 .. ADDRS - 1 /\ last_blk \in BlockRefs
  /\ calls \in Seq(Calls) /\ pending \in Seq(0 .. ADDRS - 1)
  /\ serving \in [addr : 0 .. ADDRS - 1, blk : BlockRefs]
  /\ status \in {"idle", "busy", "crashed"}

Holds(ref, a) == /\ ref[1] = CACHE_SET(a)
                 /\ blk[ref[1]][ref[2]].valid
                 /\ blk[ref[1]][ref[2]].tag = CACHE_TAG(a)

\* A fast hit is a hit: the block remembered as the last to hit still holds
\* the address it was remembered for, whatever was replaced or flushed since.
LastBlockHolds == last_blk # NULL => Holds(last_blk, last_tagset)

\* The search through one bucket of the hash table misses no block: every
\* block is in the bucket of its tag, and there only.
BucketsComplete ==
  hsize > 0 => \A s \in Sets, w \in Ways, h \in Buckets :
                 w \in hash[s][h] <=> h = CACHE_HASH(blk[s][w].tag)

\* No address is in two blocks of its set, where one would go stale.
OneCopy ==
  \A s \in Sets : \A v, w \in Ways :
    blk[s][v].valid /\ blk[s][w].valid /\ blk[s][v].tag = blk[s][w].tag => v = w

\* "Return first cycle data is available to access": under LRU, with more
\* blocks than prefetches, a hit that has made its prefetches still reads the
\* ready time of the block it hit.  (A direct-mapped cache reads another's.)
LruKeepsTheHit ==
  /\ policy = "LRU" /\ assoc > 1
  /\ status = "busy" /\ calls = <<>> /\ pending = <<>> /\ serving.blk # NULL
  => Holds(serving.blk, serving.addr)

\* "A fast hit: access to same block": there is a last block to access.
FastHitHasBlock == status # "crashed"
=============================================================================
