----------------------------- MODULE SimMemory ------------------------------
(***************************************************************************)
(* Memory in sim-outorder.c: the page table of memory.c, whose buckets are *)
(* lists of pages, and the table of wrong-path stores that                 *)
(* spec_mem_access lays over it.  Both move the entry they find to the     *)
(* front of its bucket.  Accesses are of single words.                     *)
(***************************************************************************)
EXTENDS Naturals, Sequences, SequencesExt

CONSTANTS
  MD_PAGE_SIZE,      \* words in a page
  MEM_PTAB_SIZE,     \* buckets of the page table
  STORE_HASH_SIZE,   \* buckets of the table of wrong-path stores
  ValidAddrs         \* where the program may access memory: MD_VALID_ADDR

ASSUME MemoryAssumption ==
  /\ MD_PAGE_SIZE \in Nat \ {0} /\ MEM_PTAB_SIZE \in Nat \ {0}
  /\ STORE_HASH_SIZE \in {2 ^ k : k \in 0 .. 30}
  /\ ValidAddrs \subseteq Nat

\* Where the entry with a key is in a bucket, 0 if nowhere; and the bucket with it in front.
Find(bucket, key)    == SelectInSeq(bucket, LAMBDA e : e.key = key)
\* A mistake: the bucket is cut off behind the entry that is moved.
Dropped(bucket, key) == LET k == Find(bucket, key)
                        IN  IF k = 0 THEN bucket ELSE <<bucket[k]>> \o SubSeq(bucket, 1, k - 1)
ToFront(bucket, key) == LET k == Find(bucket, key)
                        IN  IF k = 0 THEN bucket ELSE <<bucket[k]>> \o RemoveAt(bucket, k)

MEM_PTAB_SET(addr) == (addr \div MD_PAGE_SIZE) % MEM_PTAB_SIZE
MEM_PTAB_TAG(addr) == addr \div (MD_PAGE_SIZE * MEM_PTAB_SIZE)
MEM_OFFSET(addr)   == addr % MD_PAGE_SIZE

ptab_init == [set \in 0 .. MEM_PTAB_SIZE - 1 |-> <<>>]

\* The page table after a look-up.
mem_translate(ptab, addr) == [ptab EXCEPT ![MEM_PTAB_SET(addr)] = ToFront(@, MEM_PTAB_TAG(addr))]

\* A page that was never written reads as zero.
MEM_READ(ptab, addr) ==
  LET bucket == ptab[MEM_PTAB_SET(addr)]
      k == Find(bucket, MEM_PTAB_TAG(addr))
  IN  IF k = 0 THEN 0 ELSE bucket[k].page[MEM_OFFSET(addr)]

mem_newpage(ptab, addr) ==
  LET new == [key |-> MEM_PTAB_TAG(addr), page |-> [o \in 0 .. MD_PAGE_SIZE - 1 |-> 0]]
  IN  [ptab EXCEPT ![MEM_PTAB_SET(addr)] = <<new>> \o @]

MEM_TICKLE(ptab, addr) ==
  IF Find(ptab[MEM_PTAB_SET(addr)], MEM_PTAB_TAG(addr)) = 0
  THEN mem_newpage(ptab, addr) ELSE mem_translate(ptab, addr)

MEM_WRITE(ptab, addr, val) ==
  [MEM_TICKLE(ptab, addr) EXCEPT ![MEM_PTAB_SET(addr)][1].page[MEM_OFFSET(addr)] = val]
-----------------------------------------------------------------------------
\* The bytes of an address xored, and as many bits of that as the table needs.
\* A bucket is named by the bits that are set in its index.
Bit(addr, i)    == (addr \div 2 ^ i) % 2
HashBits        == {i \in 0 .. STORE_HASH_SIZE - 1 : 2 ^ i < STORE_HASH_SIZE}
HASH_ADDR(addr) == {i \in HashBits :
  (Bit(addr, i + 24) + Bit(addr, i + 16) + Bit(addr, i + 8) + Bit(addr, i)) % 2 = 1}
Buckets         == SUBSET HashBits

htable_init == [b \in Buckets |-> <<>>]

Copied(htable, addr) == Find(htable[HASH_ADDR(addr)], addr) # 0
Reordered(htable, addr) == [htable EXCEPT ![HASH_ADDR(addr)] = ToFront(@, addr)]

\* spec_mem_access: what a read of the wrong path finds.  The bytes are swapped
\* on the way only where host and target differ in their order, which is left out.
SpecRead(ptab, htable, addr) ==
  IF addr \notin ValidAddrs THEN 0
  ELSE IF Copied(htable, addr)
  THEN LET bucket == htable[HASH_ADDR(addr)] IN bucket[Find(bucket, addr)].data
  ELSE MEM_READ(ptab, addr)

\* spec_mem_access: the table of stores after a write of the wrong path.  In
\* bugcompat_mode a new entry is filled and not linked.
SpecWrite(htable, addr, val, bugcompat) ==
  IF addr \notin ValidAddrs THEN htable
  ELSE IF Copied(htable, addr)
  THEN [Reordered(htable, addr) EXCEPT ![HASH_ADDR(addr)][1].data = val]
  ELSE IF bugcompat THEN htable
  ELSE [htable EXCEPT ![HASH_ADDR(addr)] = <<[key |-> addr, data |-> val]>> \o @]
-----------------------------------------------------------------------------
\* What the tables hold.
PageEntries  == [key : Nat, page : [0 .. MD_PAGE_SIZE - 1 -> Nat]]
StoreEntries == [key : Nat, data : Nat]
PageTables   == [0 .. MEM_PTAB_SIZE - 1 -> Seq(PageEntries)]
StoreTables  == [Buckets -> Seq(StoreEntries)]
=============================================================================
