------------------------ MODULE TraceGeneratorProofs -------------------------
(***************************************************************************)
(* Proofs about TraceGenerator: its types, that it executes the program    *)
(* (ImplementsMachine) and that the return-address stack follows the       *)
(* correct path (StackFollowsPath).  First what a search in a bucket       *)
(* finds, and with it the memory and the stores of a wrong path as         *)
(* functions of addresses; then the actions as the later proofs use them;  *)
(* then the two invariants of TraceGeneratorInvariant, each with its       *)
(* theorem.                                                                *)
(***************************************************************************)
EXTENDS TraceGeneratorInvariant, FiniteSetTheorems, WellFoundedInduction, TLAPS

\* A set of natural numbers that is not empty has a least element: of the
\* intervals from 0 to its elements one is minimal for strict inclusion.
LEMMA LeastExists ==
  ASSUME NEW S \in SUBSET Nat, S # {}
  PROVE  \E m \in S : \A n \in S : m <= n
<1> DEFINE T == {0 .. n : n \in S}
<1>1. T \subseteq FiniteSubsetsOf(Nat) /\ T # {}
  <2>1. ASSUME NEW n \in S PROVE 0 .. n \in SUBSET Nat /\ IsFiniteSet(0 .. n)
    BY FS_Interval
  <2> QED BY <2>1 DEF FiniteSubsetsOf
<1>2. PICK x \in T : \A y \in T : ~ (<<y, x>> \in StrictSubsetOrdering(Nat))
  <2> HIDE DEF T
  <2> QED BY <1>1, FS_StrictSubsetOrderingWellFounded, WFMin
<1>3. PICK m \in S : x = 0 .. m
  BY DEF T
<1>4. ASSUME NEW n \in S PROVE m <= n
  <2>1. SUFFICES ASSUME n < m PROVE FALSE
    OBVIOUS
  <2>2. 0 .. n \in T /\ 0 .. n \subseteq 0 .. m /\ 0 .. n # 0 .. m
    <3>1. m \in 0 .. m /\ m \notin 0 .. n
      BY <2>1
    <3> QED BY <2>1, <3>1 DEF T
  <2>3. 0 .. n \in SUBSET Nat /\ 0 .. m \in SUBSET Nat
    BY <2>1
  <2>4. <<0 .. n, 0 .. m>> \in StrictSubsetOrdering(Nat)
    <3> HIDE DEF T
    <3>1. <<0 .. n, 0 .. m>> \in (SUBSET Nat) \X (SUBSET Nat)
      BY <2>3
    <3> QED BY <2>2, <3>1 DEF StrictSubsetOrdering
  <2> QED
    <3> HIDE DEF T
    <3> QED BY <1>2, <1>3, <2>2, <2>4
<1> QED
  BY <1>4

\* Entry k is the first of a bucket with a key; there is none if k is 0.
First(bucket, key, k) ==
  \/ /\ k \in 1 .. Len(bucket) /\ bucket[k].key = key
     /\ \A j \in 1 .. Len(bucket) : j < k => bucket[j].key # key
  \/ k = 0 /\ \A j \in 1 .. Len(bucket) : bucket[j].key # key

\* The search of a bucket finds the first.
LEMMA FindFirst ==
  ASSUME NEW E, NEW bucket \in Seq(E), NEW key
  PROVE  First(bucket, key, Find(bucket, key))
<1> DEFINE I == {i \in 1 .. Len(bucket) : bucket[i].key = key}
<1>1. Find(bucket, key) = IF I # {} THEN Min(I) ELSE 0
  BY DEF Find, SelectInSeq
<1>2. CASE I = {}
  BY <1>1, <1>2 DEF First
<1>3. CASE I # {}
  <2>1. I \in SUBSET Nat /\ \E m \in I : \A n \in I : m <= n
    <3>1. I \in SUBSET Nat
      OBVIOUS
    <3> HIDE DEF I
    <3> QED
      BY <1>3, <3>1, LeastExists
  <2>2. Min(I) \in I /\ \A n \in I : Min(I) <= n
    BY <2>1 DEF Min
  <2>3. Find(bucket, key) \in I /\ \A n \in I : Find(bucket, key) <= n
    BY <1>1, <1>3, <2>2
  <2> HIDE DEF I
  <2>4. ASSUME NEW j \in 1 .. Len(bucket), j < Find(bucket, key) PROVE bucket[j].key # key
    <3>1. j \notin I
      BY <2>3, <2>4 DEF I
    <3> QED
      BY <3>1 DEF I
  <2> QED
    BY <2>3, <2>4 DEF First, I
<1> QED
  BY <1>2, <1>3

\* There is one first.
LEMMA FirstFound ==
  ASSUME NEW E, NEW bucket \in Seq(E), NEW key, NEW k, First(bucket, key, k)
  PROVE  Find(bucket, key) = k
BY FindFirst DEF First

\* What a search finds: nothing, or an entry.
Entry(bucket, key) == IF Find(bucket, key) = 0 THEN <<>> ELSE <<bucket[Find(bucket, key)]>>

\* What a search finds is what First says.
LEMMA EntryIs ==
  ASSUME NEW E, NEW bucket \in Seq(E), NEW key
  PROVE  /\ \A k \in 1 .. Len(bucket) : First(bucket, key, k) => Entry(bucket, key) = <<bucket[k]>>
         /\ First(bucket, key, 0) => Entry(bucket, key) = <<>>
         /\ Entry(bucket, key) = <<>> \/ \E e \in E : e.key = key /\ Entry(bucket, key) = <<e>>
         /\ Entry(bucket, key) = <<>> <=> Find(bucket, key) = 0
<1>1. ASSUME NEW k \in 1 .. Len(bucket), First(bucket, key, k) PROVE Entry(bucket, key) = <<bucket[k]>>
  BY <1>1, FirstFound DEF Entry
<1>2. ASSUME First(bucket, key, 0) PROVE Entry(bucket, key) = <<>>
  BY <1>2, FirstFound DEF Entry
<1>3. First(bucket, key, Find(bucket, key))
  BY FindFirst
<1>4. CASE Find(bucket, key) = 0
  BY <1>1, <1>2, <1>4 DEF Entry
<1>5. CASE Find(bucket, key) # 0
  <2>1. /\ Find(bucket, key) \in 1 .. Len(bucket)
        /\ bucket[Find(bucket, key)].key = key /\ bucket[Find(bucket, key)] \in E
    BY <1>3, <1>5 DEF First
  <2> QED
    BY <1>1, <1>2, <1>5, <2>1 DEF Entry
<1> QED
  BY <1>4, <1>5

\* An entry in front of a bucket.
LEMMA PushedEntry ==
  ASSUME NEW E, NEW bucket \in Seq(E), NEW e \in E, NEW key
  PROVE  /\ <<e>> \o bucket \in Seq(E) /\ Len(<<e>> \o bucket) = Len(bucket) + 1
         /\ (<<e>> \o bucket)[1] = e
         /\ Entry(<<e>> \o bucket, key) = IF key = e.key THEN <<e>> ELSE Entry(bucket, key)
<1> DEFINE nb == <<e>> \o bucket
<1>1. /\ nb \in Seq(E) /\ Len(nb) = Len(bucket) + 1 /\ nb[1] = e
      /\ \A i \in 1 .. Len(bucket) : nb[i + 1] = bucket[i]
  OBVIOUS
<1> HIDE DEF nb
<1>2. CASE key = e.key
  <2>1. First(nb, key, 1) /\ 1 \in 1 .. Len(nb)
    BY <1>1, <1>2 DEF First
  <2>2. Entry(nb, key) = <<nb[1]>>
    BY <1>1, <2>1, EntryIs
  <2> QED
    BY <1>1, <1>2, <2>2 DEF nb
<1>3. CASE key # e.key
  <2> DEFINE k == Find(bucket, key)
  <2>1. First(bucket, key, k)
    BY FindFirst
  <2>2. CASE k = 0
    <3>1. \A j \in 1 .. Len(nb) : nb[j].key # key
      <4> TAKE j \in 1 .. Len(nb)
      <4>1. j = 1 \/ (j - 1 \in 1 .. Len(bucket) /\ nb[(j - 1) + 1] = bucket[j - 1])
        BY <1>1
      <4> QED
        BY <1>1, <1>3, <2>1, <2>2, <4>1 DEF First
    <3>2. First(nb, key, 0)
      BY <3>1 DEF First
    <3> QED
      BY <1>1, <1>3, <2>1, <2>2, <3>2, EntryIs DEF nb
  <2>3. CASE k # 0
    <3> HIDE DEF k
    <3>1. k \in 1 .. Len(bucket) /\ nb[k + 1] = bucket[k] /\ bucket[k].key = key
      BY <1>1, <2>1, <2>3 DEF First
    <3>2. ASSUME NEW j \in 1 .. Len(nb), j < k + 1 PROVE nb[j].key # key
      <4>1. j = 1 \/ (j - 1 \in 1 .. Len(bucket) /\ j - 1 < k /\ nb[(j - 1) + 1] = bucket[j - 1])
        BY <1>1, <3>1, <3>2
      <4> QED
        BY <1>1, <1>3, <2>1, <3>1, <4>1 DEF First
    <3>3. First(nb, key, k + 1) /\ k + 1 \in 1 .. Len(nb)
      BY <1>1, <3>1, <3>2 DEF First
    <3>4. Entry(nb, key) = <<nb[k + 1]>>
      BY <1>1, <3>3, EntryIs
    <3>5. Entry(bucket, key) = <<bucket[k]>>
      BY <2>1, <3>1, EntryIs
    <3> QED
      BY <1>1, <1>3, <3>1, <3>4, <3>5 DEF nb
  <2> QED
    BY <2>2, <2>3
<1> QED
  BY <1>2, <1>3

\* The bucket without the entry at k, which is the first with its key.
LEMMA RemovedEntry ==
  ASSUME NEW E, NEW bucket \in Seq(E), NEW k \in 1 .. Len(bucket), NEW key, key # bucket[k].key
  PROVE  /\ RemoveAt(bucket, k) \in Seq(E)
         /\ Entry(RemoveAt(bucket, k), key) = Entry(bucket, key)
<1> DEFINE nb == RemoveAt(bucket, k)
           At(i) == IF i < k THEN i ELSE i + 1
<1>1. /\ nb \in Seq(E) /\ Len(nb) = Len(bucket) - 1
      /\ \A i \in 1 .. Len(nb) : nb[i] = bucket[At(i)]
  <2> DEFINE s1 == SubSeq(bucket, 1, k - 1)
             s2 == SubSeq(bucket, k + 1, Len(bucket))
  <2>1. /\ s1 \in Seq(E) /\ Len(s1) = k - 1
        /\ \A i \in 1 .. k - 1 : s1[i] = bucket[i]
    OBVIOUS
  <2>2. /\ s2 \in Seq(E) /\ Len(s2) = Len(bucket) - k
        /\ \A i \in 1 .. Len(bucket) - k : s2[i] = bucket[i + k]
    OBVIOUS
  <2>3. nb = s1 \o s2
    BY DEF RemoveAt
  <2> HIDE DEF nb, s1, s2
  <2>4. nb \in Seq(E) /\ Len(nb) = Len(bucket) - 1
    <3>1. nb \in Seq(E) /\ Len(nb) = Len(s1) + Len(s2)
      <4>1. \A x, y \in Seq(E) : x \o y \in Seq(E) /\ Len(x \o y) = Len(x) + Len(y)
        OBVIOUS
      <4> QED
        BY <2>1, <2>2, <2>3, <4>1
    <3>2. Len(bucket) \in Nat
      OBVIOUS
    <3> QED
      BY <2>1, <2>2, <3>1, <3>2
  <2>5. ASSUME NEW i \in 1 .. Len(nb) PROVE nb[i] = bucket[At(i)]
    <3>1. CASE i < k
      BY <2>1, <2>2, <2>3, <2>4, <3>1
    <3>2. CASE ~ (i < k)
      <4>1. nb[i] = s2[i - (k - 1)] /\ i - (k - 1) \in 1 .. Len(bucket) - k
        BY <2>1, <2>2, <2>3, <2>4, <3>2
      <4> QED
        BY <2>2, <3>2, <4>1
    <3> QED
      BY <3>1, <3>2
  <2> QED
    BY <2>4, <2>5
<1>2. \A i \in 1 .. Len(nb) : At(i) \in 1 .. Len(bucket) /\ At(i) # k
  BY <1>1
<1>3. \A i, j \in 1 .. Len(nb) : i < j => At(i) < At(j)
  BY <1>1
<1>4. ASSUME NEW j \in 1 .. Len(bucket), j # k PROVE \E i \in 1 .. Len(nb) : At(i) = j
  <2>1. CASE j < k
    BY <1>1, <2>1
  <2>2. CASE j > k
    <3>1. j - 1 \in 1 .. Len(nb) /\ At(j - 1) = j
      BY <1>1, <1>4, <2>2
    <3> QED
      BY <3>1
  <2> QED
    BY <1>4, <2>1, <2>2
<1> HIDE DEF nb, At
<1> DEFINE f == Find(nb, key)
<1>5. First(nb, key, f)
  BY <1>1, FindFirst
<1> HIDE DEF f
<1>6. CASE f = 0
  <2>1. ASSUME NEW j \in 1 .. Len(bucket) PROVE bucket[j].key # key
    <3>1. CASE j = k
      BY <3>1
    <3>2. CASE j # k
      <4>1. PICK i \in 1 .. Len(nb) : At(i) = j
        BY <1>4, <3>2
      <4>2. nb[i].key # key
        BY <1>5, <1>6 DEF First
      <4> QED
        BY <1>1, <4>1, <4>2
    <3> QED
      BY <3>1, <3>2
  <2>2. First(bucket, key, 0)
    BY <2>1 DEF First
  <2>3. Entry(bucket, key) = <<>>
    BY <2>2, EntryIs
  <2>4. Entry(nb, key) = <<>>
    BY <1>1, <1>5, <1>6, EntryIs
  <2> QED
    BY <1>1, <2>3, <2>4 DEF nb
<1>7. CASE f # 0
  <2>1. f \in 1 .. Len(nb) /\ nb[f].key = key
    BY <1>5, <1>7 DEF First
  <2>2. At(f) \in 1 .. Len(bucket) /\ bucket[At(f)].key = key
    BY <1>1, <1>2, <2>1
  <2>3. ASSUME NEW j \in 1 .. Len(bucket), j < At(f) PROVE bucket[j].key # key
    <3>1. CASE j = k
      BY <3>1
    <3>2. CASE j # k
      <4>1. PICK i \in 1 .. Len(nb) : At(i) = j
        BY <1>4, <3>2
      <4>2. i < f
        <5>1. i # f
          BY <2>3, <4>1, <2>2
        <5>2. ~ (f < i)
          BY <1>3, <2>1, <2>2, <2>3, <4>1
        <5> QED
          BY <2>1, <5>1, <5>2
      <4>3. nb[i].key # key
        BY <1>5, <1>7, <4>2 DEF First
      <4> QED
        BY <1>1, <4>1, <4>3
    <3> QED
      BY <3>1, <3>2
  <2>4. First(bucket, key, At(f))
    BY <2>2, <2>3 DEF First
  <2>5. Entry(bucket, key) = <<bucket[At(f)]>>
    BY <2>2, <2>4, EntryIs
  <2>6. Entry(nb, key) = <<nb[f]>>
    BY <1>1, <1>5, <2>1, EntryIs
  <2> QED
    BY <1>1, <2>1, <2>5, <2>6 DEF nb
<1> QED
  BY <1>6, <1>7

\* A move to the front changes no look-up, and brings the entry looked for to the front.
LEMMA FrontKeeps ==
  ASSUME NEW E, NEW bucket \in Seq(E), NEW key
  PROVE  /\ ToFront(bucket, key) \in Seq(E)
         /\ \A other : Entry(ToFront(bucket, key), other) = Entry(bucket, other)
         /\ Find(bucket, key) # 0 =>
              /\ Len(ToFront(bucket, key)) > 0
              /\ ToFront(bucket, key)[1].key = key
<1> DEFINE k == Find(bucket, key)
<1>1. First(bucket, key, k)
  BY FindFirst
<1>2. CASE k = 0
  BY <1>2 DEF ToFront
<1>3. CASE k # 0
  <2> HIDE DEF k
  <2> DEFINE rest == RemoveAt(bucket, k)
             nb == <<bucket[k]>> \o rest
  <2>1. k \in 1 .. Len(bucket) /\ bucket[k].key = key /\ bucket[k] \in E
    BY <1>1, <1>3 DEF First
  <2>2. ToFront(bucket, key) = nb
    BY <1>3 DEF ToFront, k
  <2>3. rest \in Seq(E)
    BY <2>1 DEF RemoveAt
  <2> HIDE DEF rest
  <2>4. nb \in Seq(E) /\ Len(nb) > 0 /\ nb[1] = bucket[k]
    BY <2>1, <2>3
  <2>5. ASSUME NEW other PROVE Entry(nb, other) = Entry(bucket, other)
    <3>1. Entry(nb, other) = IF other = key THEN <<bucket[k]>> ELSE Entry(rest, other)
      BY <2>1, <2>3, PushedEntry
    <3>2. CASE other = key
      BY <1>1, <2>1, <3>1, <3>2, EntryIs
    <3>3. CASE other # key
      <4>1. Entry(rest, other) = Entry(bucket, other)
        BY <2>1, <3>3, RemovedEntry DEF rest
      <4> QED
        BY <3>1, <3>3, <4>1
    <3> QED
      BY <3>2, <3>3
  <2> HIDE DEF nb
  <2> QED
    BY <2>1, <2>2, <2>4, <2>5
<1> QED
  BY <1>2, <1>3

\* The entry in front replaced by another with its key.
LEMMA FrontReplaced ==
  ASSUME NEW E, NEW bucket \in Seq(E), Len(bucket) > 0, NEW e \in E, e.key = bucket[1].key, NEW other
  PROVE  /\ [bucket EXCEPT ![1] = e] \in Seq(E)
         /\ Entry([bucket EXCEPT ![1] = e], other) =
              IF other = e.key THEN <<e>> ELSE Entry(bucket, other)
<1> DEFINE nb == [bucket EXCEPT ![1] = e]
<1>1. /\ nb \in Seq(E) /\ Len(nb) = Len(bucket) /\ nb[1] = e
      /\ \A i \in 1 .. Len(bucket) : i # 1 => nb[i] = bucket[i]
  OBVIOUS
<1> HIDE DEF nb
<1>2. CASE other = e.key
  <2>1. First(nb, other, 1) /\ 1 \in 1 .. Len(nb)
    BY <1>1, <1>2 DEF First
  <2>2. Entry(nb, other) = <<e>>
    BY <1>1, <2>1, EntryIs
  <2> QED
    BY <1>1, <1>2, <2>2 DEF nb
<1>3. CASE other # e.key
  <2> DEFINE k == Find(bucket, other)
  <2>1. First(bucket, other, k)
    BY FindFirst
  <2> HIDE DEF k
  <2>2. First(nb, other, k)
    BY <1>1, <1>3, <2>1 DEF First
  <2>3. CASE k = 0
    BY <1>1, <1>3, <2>1, <2>2, <2>3, EntryIs DEF nb
  <2>4. CASE k # 0
    <3>1. k \in 1 .. Len(bucket) /\ k # 1
      BY <1>3, <2>1, <2>4 DEF First
    <3>2. Entry(bucket, other) = <<bucket[k]>>
      BY <2>1, <3>1, EntryIs
    <3>3. Entry(nb, other) = <<nb[k]>>
      BY <1>1, <2>2, <3>1, EntryIs
    <3> QED
      BY <1>1, <1>3, <3>1, <3>2, <3>3 DEF nb
  <2> QED
    BY <2>3, <2>4
<1> QED
  BY <1>2, <1>3

-----------------------------------------------------------------------------

\* Division with remainder.
LEMMA DivMod ==
  ASSUME NEW n \in Nat \ {0}, NEW x \in Int
  PROVE  \E d \in Int, r \in 0 .. n - 1 : d = x \div n /\ r = x % n /\ x = n * d + r
<1>1. x % n \in 0 .. n - 1 /\ x \div n \in Int
  BY SMT
<1>2. x = n * (x \div n) + (x % n)
  BY SMT
<1> QED
  BY <1>1, <1>2, Zenon

\* The place of an address in the page table; two addresses have different ones.
LEMMA AddressPlace ==
  ASSUME NEW a \in Nat
  PROVE  /\ MEM_PTAB_SET(a) \in 0 .. MEM_PTAB_SIZE - 1 /\ MEM_PTAB_TAG(a) \in Nat
         /\ MEM_OFFSET(a) \in 0 .. MD_PAGE_SIZE - 1 /\ HASH_ADDR(a) \in Buckets
<1>1. MD_PAGE_SIZE \in Nat \ {0} /\ MEM_PTAB_SIZE \in Nat \ {0}
  BY MemoryAssumption
<1>2. MD_PAGE_SIZE * MEM_PTAB_SIZE \in Nat \ {0} /\ a \div MD_PAGE_SIZE \in Nat
  BY <1>1
<1>3. MEM_PTAB_TAG(a) \in Nat
  BY <1>2 DEF MEM_PTAB_TAG
<1> QED
  BY <1>1, <1>2, <1>3 DEF MEM_PTAB_SET, MEM_OFFSET, HASH_ADDR, Buckets

\* Addresses with the same set, tag and offset are the same.
LEMMA PlaceUnique ==
  ASSUME NEW a \in Nat, NEW b \in Nat, MEM_PTAB_SET(a) = MEM_PTAB_SET(b),
         MEM_PTAB_TAG(a) = MEM_PTAB_TAG(b), MEM_OFFSET(a) = MEM_OFFSET(b)
  PROVE  a = b
<1>1. MD_PAGE_SIZE \in Nat \ {0} /\ MEM_PTAB_SIZE \in Nat \ {0}
  BY MemoryAssumption
<1>2. \A x \in Nat : x \div (MD_PAGE_SIZE * MEM_PTAB_SIZE) = (x \div MD_PAGE_SIZE) \div MEM_PTAB_SIZE
  BY <1>1
<1>3. PICK p \in Nat, q \in Nat : p = a \div MD_PAGE_SIZE /\ q = b \div MD_PAGE_SIZE
  BY <1>1
<1>4. p \div MEM_PTAB_SIZE = q \div MEM_PTAB_SIZE /\ p % MEM_PTAB_SIZE = q % MEM_PTAB_SIZE
  <2>1. /\ a \div (MD_PAGE_SIZE * MEM_PTAB_SIZE) = p \div MEM_PTAB_SIZE
        /\ b \div (MD_PAGE_SIZE * MEM_PTAB_SIZE) = q \div MEM_PTAB_SIZE
    BY <1>2, <1>3
  <2> QED
    BY <1>3, <2>1 DEF MEM_PTAB_SET, MEM_PTAB_TAG
<1>5. p = q
  <2>1. PICK d \in Int, r \in Int : d = p \div MEM_PTAB_SIZE /\ r = p % MEM_PTAB_SIZE /\ p = MEM_PTAB_SIZE * d + r
    BY <1>1, DivMod
  <2>2. PICK d1 \in Int, r1 \in Int : d1 = q \div MEM_PTAB_SIZE /\ r1 = q % MEM_PTAB_SIZE /\ q = MEM_PTAB_SIZE * d1 + r1
    BY <1>1, DivMod
  <2> QED
    BY <1>4, <2>1, <2>2, Zenon
<1>6. PICK r \in Int : r = a % MD_PAGE_SIZE /\ a = MD_PAGE_SIZE * p + r
  <2>1. \E d \in Int, r \in 0 .. MD_PAGE_SIZE - 1 :
          d = a \div MD_PAGE_SIZE /\ r = a % MD_PAGE_SIZE /\ a = MD_PAGE_SIZE * d + r
    BY <1>1, DivMod
  <2> QED
    BY <1>3, <2>1
<1>7. PICK r1 \in Int : r1 = b % MD_PAGE_SIZE /\ b = MD_PAGE_SIZE * q + r1
  <2>1. \E d \in Int, r1 \in 0 .. MD_PAGE_SIZE - 1 :
          d = b \div MD_PAGE_SIZE /\ r1 = b % MD_PAGE_SIZE /\ b = MD_PAGE_SIZE * d + r1
    BY <1>1, DivMod
  <2> QED
    BY <1>3, <2>1
<1> QED
  BY <1>5, <1>6, <1>7, Zenon DEF MEM_OFFSET

\* What a bucket of pages has for a key, and what is read there.
PageRead(bucket, a) == LET e == Entry(bucket, MEM_PTAB_TAG(a))
                       IN  IF e = <<>> THEN 0 ELSE e[1].page[MEM_OFFSET(a)]

\* MEM_READ reads in the bucket of its address only.
LEMMA ReadIs ==
  ASSUME NEW pt \in PageTables, NEW a \in Nat
  PROVE  /\ pt[MEM_PTAB_SET(a)] \in Seq(PageEntries)
         /\ MEM_READ(pt, a) = PageRead(pt[MEM_PTAB_SET(a)], a)
         /\ MEM_READ(pt, a) \in Nat
<1> DEFINE bucket == pt[MEM_PTAB_SET(a)]
           tag == MEM_PTAB_TAG(a)
<1>1. bucket \in Seq(PageEntries) /\ MEM_OFFSET(a) \in 0 .. MD_PAGE_SIZE - 1
  BY AddressPlace DEF PageTables
<1>2. MEM_READ(pt, a) = IF Find(bucket, tag) = 0 THEN 0 ELSE bucket[Find(bucket, tag)].page[MEM_OFFSET(a)]
  BY DEF MEM_READ
<1>3. PageRead(bucket, a) = IF Entry(bucket, tag) = <<>> THEN 0 ELSE Entry(bucket, tag)[1].page[MEM_OFFSET(a)]
  BY DEF PageRead
<1> HIDE DEF bucket, tag
<1>4. CASE Find(bucket, tag) = 0
  BY <1>1, <1>2, <1>3, <1>4, EntryIs DEF bucket
<1>5. CASE Find(bucket, tag) # 0
  <2>1. Entry(bucket, tag) = <<bucket[Find(bucket, tag)]>>
    BY <1>5 DEF Entry
  <2>2. PICK e \in PageEntries : Entry(bucket, tag) = <<e>>
    BY <1>1, <1>5, EntryIs
  <2>3. bucket[Find(bucket, tag)] = e
    BY <2>1, <2>2
  <2>4. e.page[MEM_OFFSET(a)] \in Nat
    BY <1>1 DEF PageEntries
  <2> QED
    BY <1>1, <1>2, <1>3, <1>5, <2>1, <2>2, <2>3, <2>4 DEF bucket
<1> QED
  BY <1>4, <1>5

\* A change of one bucket that keeps what is found under each key.
SameMemory(pt, qt) == \A a \in Nat : MEM_READ(qt, a) = MEM_READ(pt, a)

\* mem_translate moves a page to the front, and nothing reads differently.
LEMMA TranslateKeeps ==
  ASSUME NEW pt \in PageTables, NEW a \in Nat
  PROVE  mem_translate(pt, a) \in PageTables /\ SameMemory(pt, mem_translate(pt, a))
<1> DEFINE s == MEM_PTAB_SET(a)
           nb == ToFront(pt[s], MEM_PTAB_TAG(a))
           qt == mem_translate(pt, a)
<1>1. s \in 0 .. MEM_PTAB_SIZE - 1 /\ pt[s] \in Seq(PageEntries)
  BY AddressPlace DEF PageTables
<1>2. nb \in Seq(PageEntries) /\ \A key : Entry(nb, key) = Entry(pt[s], key)
  BY <1>1, FrontKeeps
<1>3. qt = [pt EXCEPT ![s] = nb]
  BY DEF mem_translate
<1> HIDE DEF s, nb, qt
<1>4. qt \in PageTables
  BY <1>1, <1>2, <1>3 DEF PageTables
<1>5. ASSUME NEW b \in Nat PROVE MEM_READ(qt, b) = MEM_READ(pt, b)
  <2>1. MEM_PTAB_SET(b) \in 0 .. MEM_PTAB_SIZE - 1
    BY AddressPlace
  <2>2. PageRead(qt[MEM_PTAB_SET(b)], b) = PageRead(pt[MEM_PTAB_SET(b)], b)
    BY <1>1, <1>2, <1>3, <2>1 DEF PageRead, PageTables
  <2> QED
    BY <1>4, <2>2, ReadIs
<1> QED
  BY <1>4, <1>5 DEF SameMemory, qt

\* After MEM_TICKLE the page is there, in front.
LEMMA TickleKeeps ==
  ASSUME NEW pt \in PageTables, NEW a \in Nat
  PROVE  /\ MEM_TICKLE(pt, a) \in PageTables /\ SameMemory(pt, MEM_TICKLE(pt, a))
         /\ Len(MEM_TICKLE(pt, a)[MEM_PTAB_SET(a)]) > 0
         /\ MEM_TICKLE(pt, a)[MEM_PTAB_SET(a)][1].key = MEM_PTAB_TAG(a)
<1> DEFINE s == MEM_PTAB_SET(a)
           tag == MEM_PTAB_TAG(a)
           new == [key |-> tag, page |-> [o \in 0 .. MD_PAGE_SIZE - 1 |-> 0]]
           qt == [pt EXCEPT ![s] = <<new>> \o pt[s]]
<1>1. s \in 0 .. MEM_PTAB_SIZE - 1 /\ pt[s] \in Seq(PageEntries) /\ new \in PageEntries
  BY AddressPlace DEF PageTables, PageEntries
<1>2. CASE Find(pt[s], tag) # 0
  <2>1. MEM_TICKLE(pt, a) = mem_translate(pt, a)
    BY <1>2 DEF MEM_TICKLE
  <2>2. mem_translate(pt, a)[s] = ToFront(pt[s], tag)
    BY <1>1 DEF mem_translate, PageTables
  <2>3. Len(ToFront(pt[s], tag)) > 0 /\ ToFront(pt[s], tag)[1].key = tag
    BY <1>1, <1>2, FrontKeeps
  <2> QED
    BY <2>1, <2>2, <2>3, TranslateKeeps
<1>3. CASE Find(pt[s], tag) = 0
  <2>1. MEM_TICKLE(pt, a) = qt
    BY <1>3 DEF MEM_TICKLE, mem_newpage
  <2>0. \A o \in 0 .. MD_PAGE_SIZE - 1 : new.page[o] = 0
    OBVIOUS
  <2>10. new.key = tag
    OBVIOUS
  <2> HIDE DEF new
  <2>2. /\ <<new>> \o pt[s] \in Seq(PageEntries) /\ Len(<<new>> \o pt[s]) > 0
        /\ (<<new>> \o pt[s])[1] = new
    BY <1>1
  <2>3. qt \in PageTables /\ qt[s] = <<new>> \o pt[s]
    BY <1>1, <2>2 DEF PageTables
  <2>4. ASSUME NEW b \in Nat PROVE MEM_READ(qt, b) = MEM_READ(pt, b)
    <3>1. MEM_PTAB_SET(b) \in 0 .. MEM_PTAB_SIZE - 1 /\ MEM_OFFSET(b) \in 0 .. MD_PAGE_SIZE - 1
      BY AddressPlace
    <3>2. CASE MEM_PTAB_SET(b) # s
      <4>1. qt[MEM_PTAB_SET(b)] = pt[MEM_PTAB_SET(b)]
        BY <3>1, <3>2 DEF PageTables
      <4> QED
        BY <2>3, <4>1, ReadIs
    <3>3. CASE MEM_PTAB_SET(b) = s
      <4>1. Entry(qt[s], MEM_PTAB_TAG(b)) = IF MEM_PTAB_TAG(b) = tag THEN <<new>> ELSE Entry(pt[s], MEM_PTAB_TAG(b))
        BY <1>1, <2>3, <2>10, PushedEntry
      <4>2. CASE MEM_PTAB_TAG(b) = tag
        <5>1. PageRead(pt[s], b) = 0
          BY <1>1, <1>3, <4>2, EntryIs DEF PageRead
        <5>2. PageRead(qt[s], b) = 0
          <6>1. Entry(qt[s], MEM_PTAB_TAG(b)) = <<new>>
            BY <4>1, <4>2
          <6> QED
            BY <2>0, <3>1, <6>1 DEF PageRead
        <5> QED
          BY <2>3, <3>3, <5>1, <5>2, ReadIs
      <4>3. CASE MEM_PTAB_TAG(b) # tag
        <5>1. PageRead(qt[s], b) = PageRead(pt[s], b)
          BY <4>1, <4>3 DEF PageRead
        <5> QED
          BY <2>3, <3>3, <5>1, ReadIs
      <4> QED
        BY <4>2, <4>3
    <3> QED
      BY <3>2, <3>3
  <2> QED
    BY <2>1, <2>2, <2>3, <2>4, <2>10 DEF SameMemory
<1> QED
  BY <1>2, <1>3

\* A write changes one address.
LEMMA WriteWrites ==
  ASSUME NEW pt \in PageTables, NEW a \in Nat, NEW v \in Nat
  PROVE  /\ MEM_WRITE(pt, a, v) \in PageTables
         /\ \A b \in Nat : MEM_READ(MEM_WRITE(pt, a, v), b) = IF b = a THEN v ELSE MEM_READ(pt, b)
<1> DEFINE s == MEM_PTAB_SET(a)
           tag == MEM_PTAB_TAG(a)
           o == MEM_OFFSET(a)
           qt == MEM_TICKLE(pt, a)
           bucket == qt[s]
           e == [bucket[1] EXCEPT !.page[o] = v]
           wt == MEM_WRITE(pt, a, v)
<1>1. /\ qt \in PageTables /\ SameMemory(pt, qt)
      /\ Len(bucket) > 0 /\ bucket[1].key = tag
  BY TickleKeeps
<1>2. /\ s \in 0 .. MEM_PTAB_SIZE - 1 /\ o \in 0 .. MD_PAGE_SIZE - 1 /\ bucket \in Seq(PageEntries)
  BY <1>1, AddressPlace DEF PageTables
<1>3. wt = [qt EXCEPT ![s] = [bucket EXCEPT ![1] = e]]
  BY DEF MEM_WRITE
<1> HIDE DEF qt, wt, s, tag, o
<1>4. bucket[1] \in PageEntries
  BY <1>1, <1>2
<1>5. /\ e \in PageEntries /\ e.key = tag
      /\ \A i \in 0 .. MD_PAGE_SIZE - 1 : e.page[i] = IF i = o THEN v ELSE bucket[1].page[i]
  BY <1>1, <1>2, <1>4 DEF PageEntries
<1> HIDE DEF e
<1>6. /\ [bucket EXCEPT ![1] = e] \in Seq(PageEntries)
      /\ \A key : Entry([bucket EXCEPT ![1] = e], key) = IF key = tag THEN <<e>> ELSE Entry(bucket, key)
  BY <1>1, <1>2, <1>5, FrontReplaced
<1>7. Entry(bucket, tag) = <<bucket[1]>>
  <2>1. First(bucket, tag, 1) /\ 1 \in 1 .. Len(bucket)
    BY <1>1, <1>2 DEF First
  <2> QED
    BY <1>2, <2>1, EntryIs
<1> DEFINE nb == [bucket EXCEPT ![1] = e]
<1> HIDE DEF nb
<1>8. wt \in PageTables /\ wt[s] = nb
  BY <1>1, <1>2, <1>3, <1>6 DEF PageTables, nb
<1>9. ASSUME NEW b \in Nat PROVE MEM_READ(wt, b) = IF b = a THEN v ELSE MEM_READ(qt, b)
  <2>1. MEM_PTAB_SET(b) \in 0 .. MEM_PTAB_SIZE - 1 /\ MEM_OFFSET(b) \in 0 .. MD_PAGE_SIZE - 1
    BY AddressPlace
  <2>2. CASE MEM_PTAB_SET(b) # s
    <3>1. wt[MEM_PTAB_SET(b)] = qt[MEM_PTAB_SET(b)]
      BY <1>1, <1>3, <2>1, <2>2 DEF PageTables
    <3>2. b # a
      BY <2>2 DEF s
    <3> QED
      BY <1>1, <1>8, <3>1, <3>2, ReadIs
  <2>3. CASE MEM_PTAB_SET(b) = s
    <3>1. CASE MEM_PTAB_TAG(b) # tag
      <4>1. b # a
        BY <3>1 DEF tag
      <4>2. PageRead(nb, b) = PageRead(bucket, b)
        BY <1>6, <3>1 DEF PageRead, nb
      <4> QED
        BY <1>1, <1>8, <2>3, <4>1, <4>2, ReadIs
    <3>2. CASE MEM_PTAB_TAG(b) = tag
      <4>1. PageRead(nb, b) = e.page[MEM_OFFSET(b)]
        <5>1. Entry(nb, MEM_PTAB_TAG(b)) = <<e>>
          BY <1>6, <3>2 DEF nb
        <5> QED
          BY <5>1 DEF PageRead
      <4>2. PageRead(bucket, b) = bucket[1].page[MEM_OFFSET(b)]
        <5>1. Entry(bucket, MEM_PTAB_TAG(b)) = <<bucket[1]>>
          BY <1>7, <3>2
        <5> QED
          BY <5>1 DEF PageRead
      <4>3. MEM_OFFSET(b) = o <=> b = a
        BY <2>3, <3>2, PlaceUnique DEF s, tag, o
      <4>4. MEM_READ(wt, b) = PageRead(nb, b)
        BY <1>8, <2>3, ReadIs
      <4>5. MEM_READ(qt, b) = PageRead(bucket, b)
        BY <1>1, <2>3, ReadIs
      <4> QED
        BY <1>5, <2>1, <4>1, <4>2, <4>3, <4>4, <4>5
    <3> QED
      BY <3>1, <3>2
  <2> QED
    BY <2>2, <2>3
<1> QED
  BY <1>1, <1>8, <1>9 DEF SameMemory, wt

\* The table of an empty memory.
LEMMA EmptyMemory ==
  /\ ptab_init \in PageTables /\ htable_init \in StoreTables
  /\ \A a \in Nat : MEM_READ(ptab_init, a) = 0 /\ ~ Copied(htable_init, a)
<1>1. ptab_init \in PageTables /\ htable_init \in StoreTables
  BY DEF ptab_init, htable_init, PageTables, StoreTables
<1>2. \A key : First(<<>>, key, 0)
  BY DEF First
<1>3. \A key : Find(<<>>, key) = 0
  <2>1. <<>> \in Seq(Nat)
    OBVIOUS
  <2> QED
    BY <1>2, <2>1, FirstFound
<1>4. ASSUME NEW a \in Nat PROVE MEM_READ(ptab_init, a) = 0 /\ ~ Copied(htable_init, a)
  <2>1. ptab_init[MEM_PTAB_SET(a)] = <<>> /\ htable_init[HASH_ADDR(a)] = <<>>
    BY AddressPlace DEF ptab_init, htable_init
  <2> QED
    BY <1>3, <2>1 DEF MEM_READ, Copied
<1> QED
  BY <1>1, <1>4

\* The bucket of an address in the table of wrong-path stores, and what it has for it.
Store(h, a) == Entry(h[HASH_ADDR(a)], a)

\* What a wrong path reads at an address it may access.
Seen(pt, h, a) == IF Copied(h, a) THEN SpecRead(pt, h, a) ELSE MEM_READ(pt, a)

\* Only stores to valid addresses are kept.
ValidStores(h) == \A a \in Nat : Copied(h, a) => a \in ValidAddrs

\* What the table of stores has for an address.
LEMMA StoreIs ==
  ASSUME NEW h \in StoreTables, NEW a \in Nat, NEW pt
  PROVE  /\ HASH_ADDR(a) \in Buckets /\ h[HASH_ADDR(a)] \in Seq(StoreEntries)
         /\ Copied(h, a) <=> Store(h, a) # <<>>
         /\ Copied(h, a) => Store(h, a)[1].data \in Nat
         /\ Copied(h, a) /\ a \in ValidAddrs => SpecRead(pt, h, a) = Store(h, a)[1].data
<1>1. HASH_ADDR(a) \in Buckets
  BY AddressPlace
<1>2. h[HASH_ADDR(a)] \in Seq(StoreEntries)
  BY <1>1 DEF StoreTables
<1>3. Copied(h, a) <=> Find(h[HASH_ADDR(a)], a) # 0
  BY DEF Copied
<1>4. Copied(h, a) <=> Store(h, a) # <<>>
  BY <1>2, <1>3, EntryIs DEF Store
<1>5. ASSUME Copied(h, a)
      PROVE  /\ Store(h, a)[1].data \in Nat
             /\ a \in ValidAddrs => SpecRead(pt, h, a) = Store(h, a)[1].data
  <2>1. Store(h, a) = <<h[HASH_ADDR(a)][Find(h[HASH_ADDR(a)], a)]>>
    BY <1>3, <1>5 DEF Store, Entry
  <2>2. PICK e \in StoreEntries : Store(h, a) = <<e>>
    BY <1>2, <1>4, <1>5, EntryIs DEF Store
  <2>3. h[HASH_ADDR(a)][Find(h[HASH_ADDR(a)], a)] = e
    BY <2>1, <2>2
  <2>4. e.data \in Nat
    BY DEF StoreEntries
  <2>5. a \in ValidAddrs => SpecRead(pt, h, a) = h[HASH_ADDR(a)][Find(h[HASH_ADDR(a)], a)].data
    BY <1>5 DEF SpecRead
  <2> QED
    BY <2>2, <2>3, <2>4, <2>5
<1> QED
  BY <1>1, <1>2, <1>4, <1>5

\* What is seen depends on what the tables have for each key only.
LEMMA SeenSame ==
  ASSUME NEW h \in StoreTables, NEW g \in StoreTables, ValidStores(h), NEW pt \in PageTables, NEW qt \in PageTables,
         SameMemory(pt, qt), \A a \in Nat : Store(g, a) = Store(h, a)
  PROVE  ValidStores(g) /\ \A a \in Nat : Copied(g, a) = Copied(h, a) /\ Seen(qt, g, a) = Seen(pt, h, a)
<1>1. ASSUME NEW a \in Nat PROVE Copied(g, a) = Copied(h, a)
  BY <1>1, StoreIs DEF Copied
<1>2. ValidStores(g)
  BY <1>1 DEF ValidStores
<1>3. ASSUME NEW a \in Nat PROVE Seen(qt, g, a) = Seen(pt, h, a)
  <2>1. CASE Copied(h, a)
    <3>1. a \in ValidAddrs /\ Copied(g, a)
      BY <1>1, <2>1 DEF ValidStores
    <3>2. SpecRead(qt, g, a) = Store(g, a)[1].data /\ SpecRead(pt, h, a) = Store(h, a)[1].data
      BY <2>1, <3>1, StoreIs
    <3>3. Store(g, a) = Store(h, a)
      OBVIOUS
    <3> QED
      BY <2>1, <3>1, <3>2, <3>3 DEF Seen
  <2>2. CASE ~ Copied(h, a)
    BY <1>1, <2>2 DEF Seen, SameMemory
  <2> QED
    BY <2>1, <2>2
<1> QED
  BY <1>1, <1>2, <1>3

\* What a wrong path sees is a word, and what it reads where it may.
LEMMA SeenType ==
  ASSUME NEW h \in StoreTables, ValidStores(h), NEW pt \in PageTables, NEW a \in Nat
  PROVE  /\ Seen(pt, h, a) \in Nat
         /\ SpecRead(pt, h, a) = IF a \in ValidAddrs THEN Seen(pt, h, a) ELSE 0
<1>1. CASE Copied(h, a)
  <2>1. a \in ValidAddrs
    BY <1>1 DEF ValidStores
  <2> QED
    BY <1>1, <2>1, StoreIs DEF Seen
<1>2. CASE ~ Copied(h, a)
  <2>1. MEM_READ(pt, a) \in Nat
    BY ReadIs
  <2>2. SpecRead(pt, h, a) = IF a \in ValidAddrs THEN MEM_READ(pt, a) ELSE 0
    BY <1>2 DEF SpecRead
  <2> QED
    BY <1>2, <2>1, <2>2 DEF Seen
<1> QED
  BY <1>1, <1>2

\* The move to the front.
LEMMA ReorderedKeeps ==
  ASSUME NEW h \in StoreTables, NEW a \in Nat
  PROVE  /\ Reordered(h, a) \in StoreTables
         /\ \A b \in Nat : Store(Reordered(h, a), b) = Store(h, b)
<1> DEFINE s == HASH_ADDR(a)
           nb == ToFront(h[s], a)
           g == Reordered(h, a)
<1>1. s \in Buckets /\ h[s] \in Seq(StoreEntries)
  BY StoreIs
<1>2. nb \in Seq(StoreEntries) /\ \A key : Entry(nb, key) = Entry(h[s], key)
  BY <1>1, FrontKeeps
<1>3. g = [h EXCEPT ![s] = nb]
  BY DEF Reordered
<1> HIDE DEF s, nb, g
<1>4. g \in StoreTables
  BY <1>1, <1>2, <1>3 DEF StoreTables
<1>5. ASSUME NEW b \in Nat PROVE Store(g, b) = Store(h, b)
  <2>1. HASH_ADDR(b) \in Buckets
    BY AddressPlace
  <2> QED
    BY <1>1, <1>2, <1>3, <2>1 DEF Store, StoreTables
<1> QED
  BY <1>4, <1>5 DEF g

\* A table in which one address has got a new value, and the others what they had.
LEMMA StoreWritten ==
  ASSUME NEW h \in StoreTables, NEW g \in StoreTables, ValidStores(h), NEW pt \in PageTables,
         NEW a \in Nat, a \in ValidAddrs, NEW v \in Nat,
         Store(g, a) = <<[key |-> a, data |-> v]>>,
         \A b \in Nat : b # a => Store(g, b) = Store(h, b)
  PROVE  ValidStores(g) /\ \A b \in Nat : Seen(pt, g, b) = IF b = a THEN v ELSE Seen(pt, h, b)
<1>1. Copied(g, a) /\ SpecRead(pt, g, a) = v
  <2>1. Store(g, a) # <<>> /\ Store(g, a)[1].data = v
    OBVIOUS
  <2> QED
    BY <2>1, StoreIs
<1>2. ASSUME NEW b \in Nat, b # a PROVE Copied(g, b) = Copied(h, b)
  BY <1>2, StoreIs DEF Copied
<1>3. ValidStores(g)
  BY <1>2 DEF ValidStores
<1>4. ASSUME NEW b \in Nat, b # a PROVE Seen(pt, g, b) = Seen(pt, h, b)
  <2>1. CASE Copied(h, b)
    <3>1. b \in ValidAddrs /\ Copied(g, b)
      BY <1>2, <1>4, <2>1 DEF ValidStores
    <3>2. SpecRead(pt, g, b) = Store(g, b)[1].data /\ SpecRead(pt, h, b) = Store(h, b)[1].data
      BY <2>1, <3>1, StoreIs
    <3>3. Store(g, b) = Store(h, b)
      BY <1>4
    <3> QED
      BY <2>1, <3>1, <3>2, <3>3 DEF Seen
  <2>2. CASE ~ Copied(h, b)
    BY <1>2, <1>4, <2>2 DEF Seen
  <2> QED
    BY <2>1, <2>2
<1>5. Seen(pt, g, a) = v
  BY <1>1 DEF Seen
<1> QED
  BY <1>3, <1>4, <1>5

\* A store of a wrong path is seen by it, and by it alone; in bugcompat_mode it is lost.
LEMMA SpecWriteWrites ==
  ASSUME NEW h \in StoreTables, ValidStores(h), NEW pt \in PageTables,
         NEW a \in Nat, NEW v \in Nat, NEW bugcompat \in BOOLEAN,
         bugcompat => \A b \in Nat : ~ Copied(h, b)
  PROVE  /\ SpecWrite(h, a, v, bugcompat) \in StoreTables
         /\ ValidStores(SpecWrite(h, a, v, bugcompat))
         /\ bugcompat => SpecWrite(h, a, v, bugcompat) = h
         /\ \A b \in Nat : Seen(pt, SpecWrite(h, a, v, bugcompat), b) =
              IF b = a /\ a \in ValidAddrs /\ ~ bugcompat THEN v ELSE Seen(pt, h, b)
<1> DEFINE g == SpecWrite(h, a, v, bugcompat)
           s == HASH_ADDR(a)
           new == [key |-> a, data |-> v]
<1>1. CASE a \notin ValidAddrs \/ bugcompat
  <2>1. g = h
    BY <1>1 DEF SpecWrite
  <2> QED
    BY <1>1, <2>1
<1>2. CASE a \in ValidAddrs /\ ~ bugcompat
  <2>0. s \in Buckets /\ h[s] \in Seq(StoreEntries) /\ new \in StoreEntries /\ new.key = a
    BY StoreIs DEF StoreEntries
  <2>1. CASE Copied(h, a)
    <3> DEFINE r == Reordered(h, a)
               bucket == r[s]
               nb == [bucket EXCEPT ![1] = new]
    <3>1. r \in StoreTables /\ \A b \in Nat : Store(r, b) = Store(h, b)
      BY ReorderedKeeps
    <3>2. /\ bucket \in Seq(StoreEntries) /\ Len(bucket) > 0 /\ bucket[1].key = a
      <4>1. bucket = ToFront(h[s], a)
        BY <2>0 DEF Reordered, StoreTables
      <4>2. Find(h[s], a) # 0
        BY <2>1 DEF Copied
      <4> QED
        BY <2>0, <4>1, <4>2, FrontKeeps
    <3>4. g = [r EXCEPT ![s] = [bucket EXCEPT ![1].data = v]]
      BY <1>2, <2>1 DEF SpecWrite
    <3> HIDE DEF r, g, new, bucket
    <3>3. [bucket EXCEPT ![1].data = v] = nb
      <4>1. bucket[1] \in StoreEntries
        BY <3>2
      <4>2. [bucket[1] EXCEPT !.data = v] = new
        BY <3>2, <4>1 DEF StoreEntries, new
      <4> QED
        BY <3>2, <4>2
    <3>5. /\ nb \in Seq(StoreEntries)
          /\ \A key : Entry(nb, key) = IF key = a THEN <<new>> ELSE Entry(bucket, key)
      BY <2>0, <3>2, FrontReplaced
    <3> HIDE DEF nb, s
    <3>6. g \in StoreTables
      BY <2>0, <3>1, <3>3, <3>4, <3>5 DEF StoreTables, bucket
    <3>7. ASSUME NEW b \in Nat PROVE Store(g, b) = IF b = a THEN <<new>> ELSE Store(r, b)
      <4>1. HASH_ADDR(b) \in Buckets
        BY AddressPlace
      <4>2. CASE HASH_ADDR(b) # s
        BY <2>0, <3>1, <3>4, <4>1, <4>2 DEF Store, StoreTables, s, bucket
      <4>3. CASE HASH_ADDR(b) = s
        <5>1. g[s] = nb
          BY <2>0, <3>1, <3>3, <3>4 DEF StoreTables
        <5>2. h[s] \in Seq(StoreEntries) /\ bucket = r[s]
          BY <2>0 DEF bucket
        <5> QED
          BY <3>5, <4>3, <5>1, <5>2 DEF Store
      <4> QED
        BY <4>2, <4>3
    <3>8. Store(g, a) = <<[key |-> a, data |-> v]>> /\ \A b \in Nat : b # a => Store(g, b) = Store(h, b)
      BY <3>1, <3>7 DEF new
    <3>9. ValidStores(g) /\ \A b \in Nat : Seen(pt, g, b) = IF b = a THEN v ELSE Seen(pt, h, b)
      BY <1>2, <3>6, <3>8, StoreWritten
    <3> QED
      BY <1>2, <3>6, <3>9 DEF g
  <2>2. CASE ~ Copied(h, a)
    <3> DEFINE nb == <<new>> \o h[s]
    <3>1. g = [h EXCEPT ![s] = nb]
      BY <1>2, <2>2 DEF SpecWrite
    <3> HIDE DEF g, new
    <3>2. /\ nb \in Seq(StoreEntries)
          /\ \A key : Entry(nb, key) = IF key = a THEN <<new>> ELSE Entry(h[s], key)
      BY <2>0, PushedEntry
    <3> HIDE DEF nb, s
    <3>3. g \in StoreTables /\ g[s] = nb
      BY <2>0, <3>1, <3>2 DEF StoreTables
    <3>4. ASSUME NEW b \in Nat PROVE Store(g, b) = IF b = a THEN <<new>> ELSE Store(h, b)
      <4>1. HASH_ADDR(b) \in Buckets
        BY AddressPlace
      <4>2. CASE HASH_ADDR(b) # s
        BY <2>0, <3>1, <4>1, <4>2 DEF Store, StoreTables, s
      <4>3. CASE HASH_ADDR(b) = s
        BY <3>2, <3>3, <4>3 DEF Store
      <4> QED
        BY <4>2, <4>3
    <3>5. Store(g, a) = <<[key |-> a, data |-> v]>> /\ \A b \in Nat : b # a => Store(g, b) = Store(h, b)
      BY <3>4 DEF new
    <3>6. ValidStores(g) /\ \A b \in Nat : Seen(pt, g, b) = IF b = a THEN v ELSE Seen(pt, h, b)
      BY <1>2, <3>3, <3>5, StoreWritten
    <3> QED
      BY <1>2, <3>3, <3>6 DEF g
  <2> QED
    BY <2>1, <2>2
<1> QED
  BY <1>1, <1>2

-----------------------------------------------------------------------------
\* The classes of predictors.
Classes == {"taken", "nottaken", "2bit", "2lev", "comb"}

\* Sizes and widths.
LEMMA TableSizes ==
  /\ bimod_size \in Nat \ {0} /\ l1size \in Nat \ {0} /\ l2size \in Nat \ {0} /\ meta_size \in Nat \ {0}
  /\ btb_sets \in Nat \ {0} /\ btb_assoc \in Nat \ {0} /\ retstack_size \in Nat \ {0}
  /\ 2 ^ shift_width \in Nat \ {0}
<1>1. {2 ^ w : w \in 1 .. 30} \subseteq Nat \ {0}
  OBVIOUS
<1>2. 2 ^ shift_width \in {2 ^ w : w \in 1 .. 30}
  BY TablesAssumption
<1> QED
  BY <1>1, <1>2, TablesAssumption

\* Remainders are below their divisor.
LEMMA Remainder == ASSUME NEW n \in Nat \ {0}, NEW x \in Int PROVE x % n \in 0 .. n - 1
BY SMT

\* What is below the divisor is its own remainder.
LEMMA SmallRemainder == ASSUME NEW n \in Nat \ {0}, NEW x \in 0 .. n - 1 PROVE x % n = x
BY SMT

\* A counter is one of the table's.
LEMMA LookupPointer ==
  ASSUME PredTypeOK, NEW baddr \in Nat
  PROVE  /\ bpred_dir_lookup("bimod", baddr) \in Pointers
         /\ bpred_dir_lookup("meta", baddr) \in Pointers
         /\ bpred_dir_lookup("twolev", baddr) \in Pointers
<1>1. bpred_dir_lookup("bimod", baddr) = <<"bimod", baddr % bimod_size>>
      /\ bpred_dir_lookup("meta", baddr) = <<"meta", baddr % meta_size>>
  BY DEF bpred_dir_lookup
<1>2. baddr % bimod_size \in 0 .. bimod_size - 1 /\ baddr % meta_size \in 0 .. meta_size - 1
  BY TableSizes, Remainder
<1> DEFINE history == shiftregs[baddr % l1size]
           width == 2 ^ shift_width
           low == IF xor THEN Hash(history, baddr % width) ELSE history
<1>3. bpred_dir_lookup("twolev", baddr) = <<"twolev", (low + baddr * width) % l2size>>
  BY DEF bpred_dir_lookup
<1>4. history \in 0 .. width - 1
  <2>1. baddr % l1size \in 0 .. l1size - 1
    BY TableSizes, Remainder
  <2> HIDE DEF width
  <2>2. shiftregs \in [0 .. l1size - 1 -> 0 .. width - 1]
    BY DEF PredTypeOK, width
  <2> QED
    BY <2>1, <2>2
<1>5. low \in 0 .. width - 1
  <2>0. width \in Nat \ {0}
    BY TableSizes
  <2> HIDE DEF history, width
  <2>1. baddr % width \in 0 .. width - 1
    BY <2>0, Remainder
  <2>2. Hash(history, baddr % width) \in 0 .. width - 1
    BY <1>4, <2>1, TablesAssumption DEF width
  <2> QED
    BY <1>4, <2>2
<1>6. low + baddr * width \in Nat
  <2>1. width \in Nat
    BY TableSizes
  <2> HIDE DEF low, width
  <2> QED
    BY <1>5, <2>1
<1> HIDE DEF low
<1> DEFINE key == low + baddr * width
<1> HIDE DEF key
<1>7. key % l2size \in 0 .. l2size - 1
  <2>1. key \in Int /\ l2size \in Nat \ {0}
    BY <1>6, TableSizes DEF key
  <2> QED
    BY <2>1, Remainder
<1> QED
  BY <1>1, <1>2, <1>3, <1>7 DEF Pointers, key

\* What a look-up leaves for the update names counters of the tables.
LEMMA UpdateType ==
  ASSUME PredTypeOK, NEW baddr \in Nat, NEW class, Stateful(class)
  PROVE  DirUpdate(class, baddr) \in Updates /\ NoUpdate \in Updates
<1>1. NoUpdate \in Updates
  BY DEF NoUpdate, Updates
<1> DEFINE bimod == bpred_dir_lookup("bimod", baddr)
           twolev == bpred_dir_lookup("twolev", baddr)
           meta == bpred_dir_lookup("meta", baddr)
<1>2. bimod \in Pointers /\ twolev \in Pointers /\ meta \in Pointers
  BY LookupPointer
<1>3. CASE class = "2bit"
  <2>1. DirUpdate(class, baddr) = [NoUpdate EXCEPT !.pdir1 = bimod]
    BY <1>3 DEF DirUpdate
  <2> QED
    BY <1>1, <1>2, <2>1 DEF Updates
<1>4. CASE class = "2lev"
  <2>1. DirUpdate(class, baddr) = [NoUpdate EXCEPT !.pdir1 = twolev]
    BY <1>4 DEF DirUpdate
  <2> QED
    BY <1>1, <1>2, <2>1 DEF Updates
<1>5. CASE class = "comb"
  <2>1. DirUpdate(class, baddr) =
          [ras |-> FALSE, pmeta |-> meta, pdir1 |-> IF Taken(meta) THEN twolev ELSE bimod,
           pdir2 |-> IF Taken(meta) THEN bimod ELSE twolev, bimod |-> Taken(bimod), twolev |-> Taken(twolev)]
    BY <1>5 DEF DirUpdate
  <2>2. \A p \in Pointers : Taken(p) \in BOOLEAN
    BY DEF Taken
  <2> HIDE DEF bimod, twolev, meta
  <2> QED
    BY <1>1, <1>2, <2>1, <2>2 DEF Updates
<1> QED
  BY <1>1, <1>3, <1>4, <1>5 DEF Stateful

\* The entry of the BTB for an address.
LEMMA BtbWayIs ==
  ASSUME PredTypeOK, NEW baddr \in Nat
  PROVE  /\ BtbSet(baddr) \in BtbSets
         /\ BtbWay(baddr) \in 0 .. btb_assoc
         /\ BtbWay(baddr) # 0 => BtbSet(baddr)[BtbWay(baddr)].addr = baddr
<1> DEFINE set == BtbSet(baddr)
           I == {w \in 1 .. Len(set) : set[w].addr = baddr}
<1>1. set \in BtbSets
  <2>1. baddr % btb_sets \in 0 .. btb_sets - 1
    BY TableSizes, Remainder
  <2> QED
    BY <2>1 DEF PredTypeOK, BtbSet
<1>2. Len(set) = btb_assoc
  <2> HIDE DEF set
  <2> QED
    BY <1>1, TableSizes DEF BtbSets
<1>3. BtbWay(baddr) = IF I # {} THEN Min(I) ELSE 0
  BY DEF BtbWay, SelectInSeq
<1>4. CASE I = {}
  BY <1>1, <1>3, <1>4, TableSizes
<1>5. CASE I # {}
  <2>1. I \in SUBSET Nat
    OBVIOUS
  <2>2. Min(I) \in I
    <3> HIDE DEF I
    <3>1. \E m \in I : \A n \in I : m <= n
      BY <1>5, <2>1, LeastExists
    <3> QED
      BY <3>1 DEF Min
  <2> QED
    BY <1>1, <1>2, <1>3, <1>5, <2>2
<1> QED
  BY <1>4, <1>5

\* A target of the BTB is an address.
LEMMA BtbTargetType == ASSUME PredTypeOK, NEW baddr \in Nat PROVE BtbTarget(baddr) \in Nat
<1>1. CASE BtbWay(baddr) = 0
  BY <1>1 DEF BtbTarget
<1>2. CASE BtbWay(baddr) # 0
  <2>1. BtbWay(baddr) \in 1 .. btb_assoc /\ BtbSet(baddr) \in BtbSets
    BY <1>2, BtbWayIs, TableSizes
  <2>2. BtbSet(baddr)[BtbWay(baddr)] \in [addr : Nat, target : Nat]
    BY <2>1 DEF BtbSets
  <2>3. BtbSet(baddr)[BtbWay(baddr)].target \in Nat
    BY <2>2
  <2> QED
    BY <1>2, <2>3 DEF BtbTarget
<1> QED
  BY <1>1, <1>2

\* Behind an address is an address.
LEMMA BehindType == ASSUME NEW text, NEW pc \in Nat PROVE Behind(text, pc) \in Nat
BY DEF Behind

\* What a look-up does to the stack.
Moves(class, i) == IF ~ Stateful(class) THEN 0 ELSE IF IsReturn(i) THEN -1 ELSE IF IsCall(i) THEN 1 ELSE 0

\* What bpred_lookup returns, and which targets it has for a direct branch.
LEMMA LookupIs ==
  ASSUME PredTypeOK, NEW baddr \in Nat, NEW class \in Classes, NEW i \in Instructions, NEW text
  PROVE  LET look == bpred_lookup(class, text, baddr, i)
         IN  /\ look.target \in Nat /\ look.upd \in Updates /\ look.idx = tos
             /\ look.retstack \in [0 .. retstack_size - 1 -> Nat]
             /\ look.tos \in 0 .. retstack_size - 1
             /\ look.tos = (tos + Moves(class, i)) % retstack_size
             /\ IsDirect(i) => look.target \in {0, Behind(text, baddr), BtbTarget(baddr)}
<1> DEFINE look == bpred_lookup(class, text, baddr, i)
           upd == IF IsUncond(i) THEN NoUpdate ELSE DirUpdate(class, baddr)
           same == [target |-> 0, retstack |-> retstack, tos |-> tos, idx |-> tos, upd |-> NoUpdate]
           pushed == (tos + 1) % retstack_size
           jump == [same EXCEPT !.upd = upd, !.target = IF IsUncond(i) \/ Taken(upd.pdir1)
                                                        THEN BtbTarget(baddr) ELSE 0]
           fine(r) == /\ r.target \in Nat /\ r.upd \in Updates /\ r.idx = tos
                      /\ r.retstack \in [0 .. retstack_size - 1 -> Nat]
                      /\ r.tos \in 0 .. retstack_size - 1
                      /\ r.tos = (tos + Moves(class, i)) % retstack_size
                      /\ IsDirect(i) => r.target \in {0, Behind(text, baddr), BtbTarget(baddr)}
<1>1. /\ retstack \in [0 .. retstack_size - 1 -> Nat] /\ tos \in 0 .. retstack_size - 1
      /\ NoUpdate \in Updates /\ Behind(text, baddr) \in Nat /\ BtbTarget(baddr) \in Nat
      /\ retstack_size \in Nat \ {0}
  BY TableSizes, BehindType, BtbTargetType DEF PredTypeOK, NoUpdate, Updates
<1>2. tos % retstack_size = tos
  BY <1>1
<1>3. pushed \in 0 .. retstack_size - 1 /\ (tos - 1) % retstack_size \in 0 .. retstack_size - 1
  BY <1>1, Remainder
<1>4. Stateful(class) => upd \in Updates
  BY <1>1, UpdateType
<1> HIDE DEF upd, pushed
<1>5. CASE class = "taken"
  <2>1. look = same
    BY <1>5 DEF bpred_lookup, Stateful
  <2>2. Moves(class, i) = 0
    BY <1>5 DEF Moves, Stateful
  <2>3. fine(look)
    BY <1>1, <1>2, <2>1, <2>2
  <2> QED
    BY <2>3
<1>6. CASE class = "nottaken"
  <2>1. look = IF IsUncond(i) THEN same ELSE [same EXCEPT !.target = Behind(text, baddr)]
    BY <1>6 DEF bpred_lookup, Stateful
  <2>2. Moves(class, i) = 0
    BY <1>6 DEF Moves, Stateful
  <2>3. fine(look)
    BY <1>1, <1>2, <2>1, <2>2
  <2> QED
    BY <2>3
<1>7. CASE Stateful(class) /\ IsReturn(i)
  <2>1. look = [same EXCEPT !.target = retstack[tos], !.tos = (tos - 1) % retstack_size,
                            !.upd = [upd EXCEPT !.ras = TRUE]]
    BY <1>7 DEF bpred_lookup, upd, pushed, Stateful, IsReturn, IsCall
  <2>2. Moves(class, i) = -1 /\ ~ IsDirect(i)
    BY <1>7 DEF Moves, IsReturn, IsDirect
  <2>3. [upd EXCEPT !.ras = TRUE] \in Updates
    BY <1>4, <1>7 DEF Updates
  <2>4. fine(look)
    <3>1. tos + Moves(class, i) = tos - 1
      BY <1>1, <2>2
    <3> QED
      BY <1>1, <1>3, <2>1, <2>2, <2>3, <3>1
  <2> QED
    BY <2>4
<1>8. CASE Stateful(class) /\ ~ IsReturn(i) /\ IsCall(i)
  <2>1. look = [jump EXCEPT !.tos = pushed, !.retstack = [retstack EXCEPT ![pushed] = Behind(text, baddr)]]
    BY <1>8 DEF bpred_lookup, upd, pushed, Stateful
  <2>2. Moves(class, i) = 1
    BY <1>8 DEF Moves
  <2>3. fine(look)
    BY <1>1, <1>3, <1>4, <1>8, <2>1, <2>2 DEF pushed
  <2> QED
    BY <2>3
<1>9. CASE Stateful(class) /\ ~ IsReturn(i) /\ ~ IsCall(i)
  <2>1. look = jump
    BY <1>9 DEF bpred_lookup, upd, pushed, Stateful
  <2>2. Moves(class, i) = 0
    BY <1>9 DEF Moves
  <2>3. fine(look)
    BY <1>1, <1>2, <1>4, <1>9, <2>1, <2>2
  <2> QED
    BY <2>3
<1> QED
  BY <1>5, <1>6, <1>7, <1>8, <1>9 DEF Classes, Stateful

\* A set of the BTB with one entry replaced and moved to the front.
LEMMA EnteredSet ==
  ASSUME NEW B, NEW n \in Nat \ {0}, NEW set \in [1 .. n -> B], NEW way \in 1 .. n, NEW e \in B
  PROVE  <<e>> \o RemoveAt(set, way) \in [1 .. n -> B]
<1>1. set \in Seq(B) /\ Len(set) = n
  OBVIOUS
<1> DEFINE x == SubSeq(set, 1, way - 1)
           y == SubSeq(set, way + 1, Len(set))
           z == RemoveAt(set, way)
<1>2. x \in Seq(B) /\ Len(x) = way - 1
  BY <1>1
<1>3. y \in Seq(B) /\ Len(y) = n - way
  BY <1>1
<1>4. z = x \o y
  BY DEF RemoveAt
<1> HIDE DEF x, y, z
<1>5. z \in Seq(B) /\ Len(z) = Len(x) + Len(y)
  <2>1. x \in Seq(B) /\ y \in Seq(B)
    BY <1>2, <1>3
  <2>2. x \o y \in Seq(B) /\ Len(x \o y) = Len(x) + Len(y)
    BY ONLY <2>1
  <2> QED
    BY <1>4, <2>2
<1>6. Len(z) = n - 1
  BY <1>2, <1>3, <1>5
<1>7. <<e>> \o z \in Seq(B) /\ Len(<<e>> \o z) = n
  BY <1>5, <1>6
<1> DEFINE s == <<e>> \o z
<1> HIDE DEF s
<1>8. s \in Seq(B) /\ Len(s) = n
  BY <1>7 DEF s
<1>9. s \in [1 .. n -> B]
  BY <1>8
<1> QED
  BY <1>9 DEF s, z

\* What bpred_update leaves in the tables.
LEMMA UpdateKeepsType ==
  ASSUME PredTypeOK, retstack' \in [0 .. retstack_size - 1 -> Nat], tos' \in 0 .. retstack_size - 1,
         NEW baddr \in Nat, NEW class, NEW i, NEW text, NEW btarget \in Nat, NEW correct, NEW upd,
         bpred_update(class, text, baddr, i, btarget, correct, upd)
  PROVE  PredTypeOK'
<1> DEFINE taken == btarget # Behind(text, baddr)
           set == BtbSet(baddr)
           way == IF BtbWay(baddr) # 0 THEN BtbWay(baddr) ELSE btb_assoc
           e == Entered(set, way, baddr, btarget, correct)
<1>1. CASE UNCHANGED dirVars
  BY <1>1 DEF PredTypeOK, dirVars
<1>2. CASE ~ UNCHANGED dirVars
  <2>1. /\ shiftregs' = IF IsUncond(i) \/ class = "2bit" THEN shiftregs
                        ELSE [shiftregs EXCEPT ![baddr % l1size] =
                                (2 * shiftregs[baddr % l1size] + IF taken THEN 1 ELSE 0) % 2 ^ shift_width]
        /\ counters' = [p \in Pointers |->
             IF p \in {upd.pdir1, upd.pdir2} THEN Trained(p, taken)
             ELSE IF p = upd.pmeta /\ upd.bimod # upd.twolev THEN Trained(p, upd.twolev = taken)
             ELSE counters[p]]
        /\ btb' = IF taken THEN [btb EXCEPT ![baddr % btb_sets] = <<e>> \o RemoveAt(set, way)] ELSE btb
    BY <1>2 DEF bpred_update
  <2>2. \A p \in Pointers : \A up : Trained(p, up) \in 0 .. 3
    BY DEF PredTypeOK, Trained
  <2>3. counters' \in [Pointers -> 0 .. 3]
    BY <2>1, <2>2 DEF PredTypeOK
  <2>4. shiftregs' \in [0 .. l1size - 1 -> 0 .. 2 ^ shift_width - 1]
    <3>0. baddr % l1size \in 0 .. l1size - 1
      <4>1. l1size \in Nat \ {0} /\ baddr \in Int
        BY TableSizes
      <4> HIDE DEF taken, set, way, e
      <4> QED
        BY ONLY <4>1, Remainder
    <3> DEFINE n == 2 ^ shift_width
               h == 2 * shiftregs[baddr % l1size] + IF taken THEN 1 ELSE 0
    <3>1. baddr % l1size \in 0 .. l1size - 1 /\ n \in Nat \ {0}
      BY <3>0, TableSizes
    <3>2. shiftregs \in [0 .. l1size - 1 -> 0 .. n - 1]
      BY DEF PredTypeOK
    <3>3. shiftregs' = shiftregs \/ shiftregs' = [shiftregs EXCEPT ![baddr % l1size] = h % n]
      BY <2>1
    <3> HIDE DEF n
    <3>4. h \in Int
      BY <3>1, <3>2
    <3> HIDE DEF h
    <3>5. h % n \in 0 .. n - 1
      BY <3>1, <3>4, Remainder
    <3>6. shiftregs' \in [0 .. l1size - 1 -> 0 .. n - 1]
      BY <3>1, <3>2, <3>3, <3>5
    <3> QED
      BY <3>6 DEF n
  <2>5. btb' \in [0 .. btb_sets - 1 -> BtbSets]
    <3>1. set \in BtbSets /\ way \in 1 .. btb_assoc /\ btb \in [0 .. btb_sets - 1 -> BtbSets]
      <4>1. set \in BtbSets /\ BtbWay(baddr) \in 0 .. btb_assoc
        BY BtbWayIs
      <4>2. way \in 1 .. btb_assoc
        BY <4>1, TableSizes
      <4> QED
        BY <4>1, <4>2 DEF PredTypeOK
    <3>2. e \in [addr : Nat, target : Nat]
      <4> HIDE DEF set, way
      <4> QED
        BY <3>1 DEF Entered, BtbSets
    <3>3. <<e>> \o RemoveAt(set, way) \in BtbSets
      <4> HIDE DEF set, way, e
      <4>1. btb_assoc \in Nat \ {0} /\ set \in [1 .. btb_assoc -> [addr : Nat, target : Nat]]
        BY <3>1, TableSizes DEF BtbSets
      <4> QED
        BY <3>1, <3>2, <4>1, EnteredSet DEF BtbSets
    <3> HIDE DEF set, way, e
    <3> QED
      BY <2>1, <3>1, <3>3
  <2> QED
    BY <2>3, <2>4, <2>5 DEF PredTypeOK
<1> QED
  BY <1>1, <1>2

-----------------------------------------------------------------------------
\* Registers and instructions.
LEMMA RegisterTypes ==
  /\ 0 \in Regs /\ RA \in Regs /\ NOP \in Instructions /\ WORD \in Nat \ {0}
  /\ \A i \in Instructions : i.rs \in Regs /\ i.rt \in Regs /\ Dest(i) \in Regs /\ i.imm \in Nat
<1>1. 0 \in Regs /\ RA \in Regs /\ WORD \in Nat \ {0}
  BY WordAssumption DEF Regs, RA
<1> QED
  BY <1>1 DEF NOP, Instructions, Ops, Dest

\* What is at an address is an instruction, and behind a branch there is an address.
LEMMA InstType ==
  ASSUME NEW text \in Seq(Instructions), NEW pc \in Nat
  PROVE  /\ InstOf(text, pc) \in Instructions
         /\ IsCtrl(InstOf(text, pc)) => Behind(text, pc) = pc + 1 /\ pc >= 2
<1>1. NOP \in Instructions /\ ~ IsCtrl(NOP)
  BY RegisterTypes DEF NOP, IsCtrl
<1>2. CASE InText(text, pc)
  <2>1. pc - 1 \in 1 .. Len(text)
    BY <1>2 DEF InText
  <2> QED
    BY <1>2, <2>1 DEF InstOf, Behind
<1>3. CASE ~ InText(text, pc)
  BY <1>1, <1>3 DEF InstOf
<1> QED
  BY <1>2, <1>3

\* What an instruction accesses, computes and goes on at.
LEMMA ExecutionTypes ==
  ASSUME NEW i \in Instructions, NEW pc \in Nat, NEW R \in [Regs -> Nat], NEW text
  PROVE  /\ EffAddr(i, R) \in 0 .. WORD - 1 /\ EffAddr(i, R) \in Nat
         /\ \A loaded \in Nat : Result(i, pc, R, loaded) \in Nat
         /\ NextPC(text, i, pc, R) \in Nat
         /\ ~ IsCtrl(i) => NextPC(text, i, pc, R) = Behind(text, pc)
         /\ IsDirect(i) => NextPC(text, i, pc, R) \in {i.imm, Behind(text, pc)}
<1>1. /\ i.rs \in Regs /\ i.rt \in Regs /\ i.imm \in Nat /\ R[i.rs] \in Nat /\ WORD \in Nat \ {0}
      /\ Behind(text, pc) \in Nat
  BY RegisterTypes, BehindType
<1> DEFINE sum == R[i.rs] + i.imm
<1>2. sum \in Int /\ pc + 1 \in Int
  BY <1>1
<1>3. sum % WORD \in 0 .. WORD - 1 /\ (pc + 1) % WORD \in 0 .. WORD - 1
  <2> HIDE DEF sum
  <2>1. sum % WORD \in 0 .. WORD - 1
    BY <1>1, <1>2, Remainder
  <2>2. (pc + 1) % WORD \in 0 .. WORD - 1
    BY <1>1, <1>2, Remainder
  <2> QED
    BY <2>1, <2>2
<1>4. EffAddr(i, R) \in 0 .. WORD - 1 /\ EffAddr(i, R) \in Nat
  BY <1>1, <1>3 DEF EffAddr
<1>5. \A loaded \in Nat : Result(i, pc, R, loaded) \in Nat
  <2> HIDE DEF sum
  <2>1. sum % WORD \in Nat /\ (pc + 1) % WORD \in Nat
    BY <1>1, <1>3
  <2> QED
    BY <2>1 DEF Result, sum
<1>6. NextPC(text, i, pc, R) \in Nat
  BY <1>1 DEF NextPC
<1>7. ~ IsCtrl(i) => NextPC(text, i, pc, R) = Behind(text, pc)
  BY DEF NextPC, IsCtrl
<1>8. IsDirect(i) => NextPC(text, i, pc, R) \in {i.imm, Behind(text, pc)}
  BY DEF NextPC, IsDirect
<1> QED
  BY <1>4, <1>5, <1>6, <1>7, <1>8

\* The registers that an instruction reads.
LEMMA GprType == TypeOK => GPR \in [Regs -> Nat] /\ GPR[0] = 0
BY RegisterTypes DEF TypeOK, GPR

\* What a wrong path reads is a word.
LEMMA SpecReadType ==
  ASSUME NEW pt \in PageTables, NEW h \in StoreTables, NEW a \in Nat
  PROVE  SpecRead(pt, h, a) \in Nat
<1>1. CASE a \notin ValidAddrs
  BY <1>1 DEF SpecRead
<1>2. CASE a \in ValidAddrs /\ Copied(h, a)
  BY <1>2, StoreIs
<1>3. CASE a \in ValidAddrs /\ ~ Copied(h, a)
  BY <1>3, ReadIs DEF SpecRead
<1> QED
  BY <1>1, <1>2, <1>3

\* The parts of Execute that the registers need: what is loaded and what is written.
Address(i) == EffAddr(i, GPR)
Loaded(i)  == IF spec_mode THEN SpecRead(ptab, store_htable, Address(i)) ELSE MEM_READ(ptab, Address(i))
Value(i, pc) == Result(i, pc, GPR, Loaded(i))
After(i, pc, R) == IF WritesReg(i) THEN [R EXCEPT ![0] = 0, ![Dest(i)] = Value(i, pc)] ELSE [R EXCEPT ![0] = 0]

\* Execute, in these parts.
LEMMA ExecuteIs ==
  ASSUME TypeOK, NEW i \in Instructions, NEW pc \in Nat, Execute(i, pc)
  PROVE  /\ Address(i) \in 0 .. WORD - 1 /\ Address(i) \in Nat /\ Loaded(i) \in Nat /\ Value(i, pc) \in Nat
         /\ GPR[i.rt] \in Nat /\ config.bugcompat \in BOOLEAN
         /\ regs' = (IF spec_mode THEN [regs EXCEPT ![0] = 0] ELSE After(i, pc, regs))
         /\ spec_regs' = (IF spec_mode THEN After(i, pc, spec_regs) ELSE [spec_regs EXCEPT ![0] = 0])
         /\ use_spec_R' = (IF spec_mode /\ WritesReg(i) THEN use_spec_R \cup {Dest(i)} ELSE use_spec_R)
         /\ i.op = "sw" /\ ~ spec_mode => ptab' = MEM_WRITE(ptab, Address(i), GPR[i.rt])
         /\ ~ (i.op = "sw" /\ ~ spec_mode) => ptab' \in {ptab, mem_translate(ptab, Address(i))}
         /\ ~ spec_mode => store_htable' = store_htable
         /\ spec_mode /\ i.op = "sw" =>
              store_htable' = SpecWrite(store_htable, Address(i), GPR[i.rt], config.bugcompat)
         /\ spec_mode /\ i.op # "sw" =>
              store_htable' \in {store_htable, Reordered(store_htable, Address(i))}
<1>1. GPR \in [Regs -> Nat] /\ GPR[i.rt] \in Nat
  BY GprType, RegisterTypes
<1>2. Address(i) \in 0 .. WORD - 1 /\ Address(i) \in Nat
  BY <1>1, ExecutionTypes DEF Address
<1>3. ptab \in PageTables /\ store_htable \in StoreTables
  BY DEF TypeOK
<1>4. Loaded(i) \in Nat
  BY <1>2, <1>3, ReadIs, SpecReadType DEF Loaded
<1>5. Value(i, pc) \in Nat
  BY <1>1, <1>4, ExecutionTypes DEF Value
<1>6. config.bugcompat \in BOOLEAN
  BY GeneratorAssumption DEF TypeOK
<1>7. /\ regs' = (IF spec_mode THEN [regs EXCEPT ![0] = 0] ELSE After(i, pc, regs))
      /\ spec_regs' = (IF spec_mode THEN After(i, pc, spec_regs) ELSE [spec_regs EXCEPT ![0] = 0])
      /\ use_spec_R' = (IF spec_mode /\ WritesReg(i) THEN use_spec_R \cup {Dest(i)} ELSE use_spec_R)
  BY DEF Execute, After, Value, Loaded, Address
<1>8. /\ i.op = "sw" /\ ~ spec_mode => ptab' = MEM_WRITE(ptab, Address(i), GPR[i.rt])
      /\ ~ (i.op = "sw" /\ ~ spec_mode) => ptab' \in {ptab, mem_translate(ptab, Address(i))}
  BY DEF Execute, Address
<1>9. /\ ~ spec_mode => store_htable' = store_htable
      /\ spec_mode /\ i.op = "sw" =>
           store_htable' = SpecWrite(store_htable, Address(i), GPR[i.rt], config.bugcompat)
      /\ spec_mode /\ i.op # "sw" =>
           store_htable' \in {store_htable, Reordered(store_htable, Address(i))}
  BY DEF Execute, Address
<1> QED
  BY <1>1, <1>2, <1>4, <1>5, <1>6, <1>7, <1>8, <1>9

\* SpecWrite, without what else is known of the table.
LEMMA SpecWriteType ==
  ASSUME NEW h \in StoreTables, NEW a \in Nat, NEW v \in Nat, NEW bugcompat
  PROVE  SpecWrite(h, a, v, bugcompat) \in StoreTables
<1> DEFINE s == HASH_ADDR(a)
           new == [key |-> a, data |-> v]
<1>1. s \in Buckets /\ h[s] \in Seq(StoreEntries) /\ new \in StoreEntries
  BY StoreIs DEF StoreEntries
<1>2. CASE a \in ValidAddrs /\ Copied(h, a)
  <2> DEFINE r == Reordered(h, a)
             b == r[s]
             nb == [b EXCEPT ![1].data = v]
  <2>1. SpecWrite(h, a, v, bugcompat) = [r EXCEPT ![s] = nb]
    BY <1>2 DEF SpecWrite
  <2>2. r \in StoreTables /\ b \in Seq(StoreEntries)
    BY <1>1, ReorderedKeeps DEF StoreTables
  <2>3. Len(b) > 0
    <3>1. b = ToFront(h[s], a)
      BY <1>1 DEF Reordered, StoreTables
    <3>2. Find(h[s], a) # 0
      BY <1>2 DEF Copied
    <3> QED
      BY <1>1, <3>1, <3>2, FrontKeeps
  <2> HIDE DEF r, b, s, new
  <2>4. nb \in Seq(StoreEntries)
    <3>1. [b[1] EXCEPT !.data = v] \in StoreEntries
      <4>1. b[1] \in StoreEntries
        BY <2>2, <2>3
      <4> QED
        BY <4>1 DEF StoreEntries
    <3> QED
      BY <2>2, <2>3, <3>1
  <2> HIDE DEF nb
  <2> QED
    BY <1>1, <2>1, <2>2, <2>4 DEF StoreTables
<1>3. CASE a \in ValidAddrs /\ ~ Copied(h, a) /\ ~ bugcompat
  <2>1. SpecWrite(h, a, v, bugcompat) = [h EXCEPT ![s] = <<new>> \o h[s]]
    BY <1>3 DEF SpecWrite
  <2> HIDE DEF s, new
  <2> QED
    BY <1>1, <2>1 DEF StoreTables
<1>4. CASE a \notin ValidAddrs \/ (~ Copied(h, a) /\ bugcompat)
  BY <1>4 DEF SpecWrite
<1> QED
  BY <1>2, <1>3, <1>4

\* Execute keeps the types.
LEMMA ExecuteType ==
  ASSUME TypeOK, NEW i \in Instructions, NEW pc \in Nat, Execute(i, pc)
  PROVE  /\ regs' \in [Regs -> Nat] /\ spec_regs' \in [Regs -> Nat] /\ use_spec_R' \subseteq Regs
         /\ ptab' \in PageTables /\ store_htable' \in StoreTables
<1>1. /\ Dest(i) \in Regs /\ 0 \in Regs /\ Value(i, pc) \in Nat /\ Address(i) \in Nat /\ GPR[i.rt] \in Nat
      /\ ptab \in PageTables /\ store_htable \in StoreTables
      /\ regs \in [Regs -> Nat] /\ spec_regs \in [Regs -> Nat] /\ use_spec_R \subseteq Regs
  BY ExecuteIs, RegisterTypes DEF TypeOK
<1>2. \A R \in [Regs -> Nat] : After(i, pc, R) \in [Regs -> Nat] /\ [R EXCEPT ![0] = 0] \in [Regs -> Nat]
  BY <1>1 DEF After
<1>3. regs' \in [Regs -> Nat] /\ spec_regs' \in [Regs -> Nat] /\ use_spec_R' \subseteq Regs
  <2>1. /\ regs' \in {[regs EXCEPT ![0] = 0], After(i, pc, regs)}
        /\ spec_regs' \in {[spec_regs EXCEPT ![0] = 0], After(i, pc, spec_regs)}
        /\ use_spec_R' \in {use_spec_R, use_spec_R \cup {Dest(i)}}
    BY ExecuteIs
  <2> QED
    BY <1>1, <1>2, <2>1
<1>4. ptab' \in PageTables
  <2>1. ptab' \in {MEM_WRITE(ptab, Address(i), GPR[i.rt]), ptab, mem_translate(ptab, Address(i))}
    BY ExecuteIs
  <2>2. MEM_WRITE(ptab, Address(i), GPR[i.rt]) \in PageTables
    BY <1>1, WriteWrites
  <2>3. mem_translate(ptab, Address(i)) \in PageTables
    BY <1>1, TranslateKeeps
  <2> QED
    BY <1>1, <2>1, <2>2, <2>3
<1>5. store_htable' \in StoreTables
  <2>1. store_htable' \in {SpecWrite(store_htable, Address(i), GPR[i.rt], config.bugcompat),
                          store_htable, Reordered(store_htable, Address(i))}
    BY ExecuteIs DEF TypeOK
  <2>2. SpecWrite(store_htable, Address(i), GPR[i.rt], config.bugcompat) \in StoreTables
    BY <1>1, SpecWriteType
  <2>3. Reordered(store_htable, Address(i)) \in StoreTables
    BY <1>1, ReorderedKeeps
  <2> QED
    BY <1>1, <2>1, <2>2, <2>3
<1> QED
  BY <1>3, <1>4, <1>5

-----------------------------------------------------------------------------
\* The first state is typed.
LEMMA InitTyped == Init => TypeOK
<1> SUFFICES ASSUME Init PROVE TypeOK
  OBVIOUS
<1>1. PICK p \in Programs : code = p.text /\ regs = p.regs
  BY DEF Init
<1>2. p.text \in Seq(Instructions) /\ p.regs \in [Regs -> Nat]
  <2>1. p \in [text : Seq(Instructions), regs : [Regs -> 0 .. WORD - 1]]
    BY GeneratorAssumption
  <2>2. p.text \in Seq(Instructions) /\ p.regs \in [Regs -> 0 .. WORD - 1]
    BY <2>1
  <2>3. 0 .. WORD - 1 \subseteq Nat
    BY WordAssumption
  <2> QED
    BY <2>2, <2>3
<1>3. PredTypeOK
  <2>1. counters \in [Pointers -> 0 .. 3] /\ tos \in 0 .. retstack_size - 1
        /\ retstack \in [0 .. retstack_size - 1 -> Nat]
    BY TableSizes DEF Init, bpred_create
  <2>2. shiftregs \in [0 .. l1size - 1 -> 0 .. 2 ^ shift_width - 1]
    <3> DEFINE n == 2 ^ shift_width
    <3>1. n \in Nat \ {0}
      BY TableSizes
    <3> HIDE DEF n
    <3>2. shiftregs \in [0 .. l1size - 1 -> 0 .. n - 1]
      BY <3>1 DEF Init, bpred_create
    <3> QED
      BY <3>2 DEF n
  <2>3. btb \in [0 .. btb_sets - 1 -> BtbSets]
    BY DEF Init, bpred_create, BtbSets
  <2> QED
    BY <2>1, <2>2, <2>3 DEF PredTypeOK
<1>4. spec_regs \in [Regs -> Nat] /\ ptab \in PageTables /\ store_htable \in StoreTables
  BY EmptyMemory DEF Init
<1> QED
  <2>1. depth \in 0 .. retstack_size - 1 /\ fetch_pred_PC \in Nat /\ recover_PC \in Nat
    BY TableSizes DEF Init
  <2>2. fetch_data \in Seq(Fetched) /\ window \in Seq(InFlight)
    BY DEF Init
  <2>3. config \in Configs /\ use_spec_R \subseteq Regs /\ spec_mode \in BOOLEAN
    BY DEF Init
  <2> QED
    BY <1>1, <1>2, <1>3, <1>4, <2>1, <2>2, <2>3 DEF TypeOK

\* What is fetched.
NewFetched == [PC |-> fetch_pred_PC, pred_PC |-> fetch_pred_PC',
               upd |-> fetch_data'[Len(fetch_data) + 1].upd, idx |-> fetch_data'[Len(fetch_data) + 1].idx]

\* Fetch appends NewFetched, and moves the top of the stack by Delta.
LEMMA FetchIs ==
  ASSUME TypeOK, Fetch
  PROVE  LET pc == fetch_pred_PC
             i == InstOf(code, pc)
             look == bpred_lookup(config.class, code, pc, i)
         IN  /\ NewFetched \in Fetched /\ fetch_data' = Append(fetch_data, NewFetched)
             /\ fetch_pred_PC' \in Nat /\ PredTypeOK'
             /\ IsCtrl(i) => NewFetched.idx = tos
             /\ ~ IsCtrl(i) => fetch_pred_PC' = Behind(code, pc)
             /\ tos' = (tos + Delta(pc)) % retstack_size
             /\ IsDirect(i) => fetch_pred_PC' \in {Behind(code, pc), BtbTarget(pc)}
<1> DEFINE pc == fetch_pred_PC
           i == InstOf(code, pc)
           look == bpred_lookup(config.class, code, pc, i)
           target == IF IsCtrl(i) THEN look.target ELSE 0
           pred == IF target = 0 THEN Behind(code, pc) ELSE target
           f == IF IsCtrl(i) THEN [PC |-> pc, pred_PC |-> pred, upd |-> look.upd, idx |-> look.idx]
                ELSE [PC |-> pc, pred_PC |-> pred, upd |-> NoUpdate, idx |-> 0]
<1>1. /\ pc \in Nat /\ config.class \in Classes /\ i \in Instructions /\ PredTypeOK
      /\ retstack_size \in Nat \ {0} /\ Behind(code, pc) \in Nat /\ NoUpdate \in Updates
      /\ tos \in 0 .. retstack_size - 1 /\ retstack \in [0 .. retstack_size - 1 -> Nat]
      /\ fetch_data \in Seq(Fetched)
  <2>1. config.class \in Classes
    BY GeneratorAssumption DEF TypeOK, Classes
  <2>2. NoUpdate \in Updates
    BY DEF NoUpdate, Updates
  <2> QED
    BY <2>1, <2>2, InstType, TableSizes, BehindType DEF TypeOK, PredTypeOK
<1>2. /\ look.target \in Nat /\ look.upd \in Updates /\ look.idx = tos
      /\ look.retstack \in [0 .. retstack_size - 1 -> Nat]
      /\ look.tos \in 0 .. retstack_size - 1
      /\ look.tos = (tos + Moves(config.class, i)) % retstack_size
      /\ IsDirect(i) => look.target \in {0, Behind(code, pc), BtbTarget(pc)}
  BY <1>1, LookupIs
<1>3. /\ fetch_pred_PC' = pred
      /\ IF IsCtrl(i) THEN retstack' = look.retstack /\ tos' = look.tos ELSE UNCHANGED <<retstack, tos>>
      /\ fetch_data' = Append(fetch_data, f)
      /\ UNCHANGED dirVars
  BY DEF Fetch
<1>4. Moves(config.class, i) = Delta(pc) /\ Delta(pc) \in Int
  BY DEF Moves, Delta
<1>5. ~ IsCtrl(i) => Delta(pc) = 0
  BY DEF Delta, IsCtrl, IsReturn, IsCall
<1> HIDE DEF i, look
<1>6. f \in Fetched /\ pred \in Nat
  BY <1>1, <1>2 DEF Fetched
<1>7. fetch_data'[Len(fetch_data) + 1] = f
  <2> HIDE DEF f
  <2> QED
    BY <1>1, <1>3, <1>6
<1>8. NewFetched = f
  BY <1>3, <1>7 DEF NewFetched
<1>9. tos' = (tos + Delta(pc)) % retstack_size
  <2>1. CASE IsCtrl(i)
    BY <1>2, <1>3, <1>4, <2>1
  <2>2. CASE ~ IsCtrl(i)
    <3>1. tos % retstack_size = tos
      BY <1>1, SmallRemainder
    <3>2. tos' = tos /\ tos + Delta(pc) = tos
      BY <1>1, <1>3, <1>5, <2>2
    <3> QED
      BY <3>1, <3>2
  <2> QED
    BY <2>1, <2>2
<1>10. PredTypeOK'
  <2>1. retstack' \in [0 .. retstack_size - 1 -> Nat] /\ tos' \in 0 .. retstack_size - 1
    BY <1>1, <1>2, <1>3
  <2> QED
    BY <1>1, <1>3, <2>1 DEF PredTypeOK, dirVars
<1>11. ~ IsCtrl(i) => fetch_pred_PC' = Behind(code, pc)
  BY <1>3
<1>12. IsDirect(i) => fetch_pred_PC' \in {Behind(code, pc), BtbTarget(pc)}
  <2>1. IsDirect(i) => IsCtrl(i)
    BY DEF IsDirect, IsCtrl
  <2> QED
    BY <1>2, <1>3, <2>1
<1>13. IsCtrl(i) => f.idx = tos
  BY <1>2
<1> HIDE DEF f, pred
<1> QED
  BY <1>3, <1>6, <1>8, <1>9, <1>10, <1>11, <1>12, <1>13 DEF i

\* What is dispatched.
NextOf(f) == NextPC(code, InstOf(code, f.PC), f.PC, GPR)
Mispredicted(f) == ~ spec_mode /\ ~ Misfetched(f, InstOf(code, f.PC)) /\ f.pred_PC # NextOf(f)
Dispatched(f) == [PC |-> f.PC, next_PC |-> NextOf(f), pred_PC |-> f.pred_PC, upd |-> f.upd, idx |-> f.idx,
                  spec_mode |-> spec_mode, completed |-> FALSE, recover |-> Mispredicted(f)]

\* Dispatch takes the oldest instruction from the queue and executes it.
LEMMA DispatchIs ==
  ASSUME TypeOK, Dispatch
  PROVE  LET f == fetch_data[1]
             i == InstOf(code, f.PC)
         IN  /\ Len(fetch_data) > 0 /\ f \in Fetched /\ i \in Instructions /\ f.PC \in Nat
             /\ NextOf(f) \in Nat /\ Dispatched(f) \in InFlight
             /\ Execute(i, f.PC)
             /\ IF Misfetched(f, i)
                THEN fetch_data' = <<>> /\ fetch_pred_PC' = NextOf(f)
                ELSE fetch_data' = Tail(fetch_data) /\ UNCHANGED fetch_pred_PC
             /\ window' = IF IsCtrl(i) THEN Append(window, Dispatched(f)) ELSE window
             /\ spec_mode' = (spec_mode \/ Mispredicted(f))
             /\ recover_PC' = IF Mispredicted(f) THEN NextOf(f) ELSE recover_PC
             /\ depth' = IF spec_mode THEN depth ELSE (depth + Delta(f.PC)) % retstack_size
             /\ \/ bpred_update(config.class, code, f.PC, i, NextOf(f), f.pred_PC = NextOf(f), f.upd)
                   /\ IsCtrl(i)
                \/ UNCHANGED dirVars
             /\ UNCHANGED <<config, code, retstack, tos>>
             /\ IsCtrl(i) => InstOf(code, Dispatched(f).PC) = i
<1> DEFINE f == fetch_data[1]
           i == InstOf(code, f.PC)
<1>1. fetch_data \in Seq(Fetched) /\ fetch_data # <<>> /\ Head(fetch_data) = f
  BY DEF Dispatch, TypeOK
<1>2. Len(fetch_data) > 0 /\ f \in Fetched
  BY <1>1
<1>3. f.PC \in Nat /\ i \in Instructions
  BY <1>2, InstType DEF Fetched, TypeOK
<1>4. NextOf(f) \in Nat
  BY <1>3, GprType, ExecutionTypes DEF NextOf
<1>5. Dispatched(f) \in InFlight
  <2>1. Mispredicted(f) \in BOOLEAN /\ spec_mode \in BOOLEAN
    BY DEF Mispredicted, TypeOK
  <2> HIDE DEF f
  <2> QED
    BY <1>2, <1>4, <2>1 DEF Dispatched, InFlight, Fetched
<1>6. /\ Execute(i, f.PC)
      /\ IF Misfetched(f, i)
         THEN fetch_data' = <<>> /\ fetch_pred_PC' = NextOf(f)
         ELSE fetch_data' = Tail(fetch_data) /\ UNCHANGED fetch_pred_PC
      /\ window' = IF IsCtrl(i) THEN Append(window, Dispatched(f)) ELSE window
      /\ spec_mode' = (spec_mode \/ Mispredicted(f))
      /\ recover_PC' = IF Mispredicted(f) THEN NextOf(f) ELSE recover_PC
      /\ depth' = IF spec_mode THEN depth ELSE (depth + Delta(f.PC)) % retstack_size
      /\ IF IsCtrl(i) /\ ~ spec_mode /\ config.update = "ID" THEN Train(Dispatched(f)) ELSE UNCHANGED dirVars
      /\ UNCHANGED <<config, code, retstack, tos>>
  BY <1>1 DEF Dispatch, Dispatched, Mispredicted, NextOf
<1>7. Train(Dispatched(f)) =>
        bpred_update(config.class, code, f.PC, i, NextOf(f), f.pred_PC = NextOf(f), f.upd)
  BY DEF Train, Dispatched, Inst
<1>8. InstOf(code, Dispatched(f).PC) = i
  BY DEF Dispatched
<1> HIDE DEF f, i
<1> QED
  BY <1>2, <1>3, <1>4, <1>5, <1>6, <1>7, <1>8 DEF i, f

\* One element of a sequence replaced.
LEMMA Replaced ==
  ASSUME NEW S, NEW s \in Seq(S), NEW k \in 1 .. Len(s), NEW x \in S
  PROVE  /\ [s EXCEPT ![k] = x] \in Seq(S) /\ Len([s EXCEPT ![k] = x]) = Len(s)
         /\ \A j \in 1 .. Len(s) : [s EXCEPT ![k] = x][j] = IF j = k THEN x ELSE s[j]
OBVIOUS

\* What is written back.
LEMMA WritebackIs ==
  ASSUME TypeOK, Writeback
  PROVE  \E k \in DOMAIN window :
           LET e == window[k]
           IN  /\ k \in 1 .. Len(window) /\ e \in InFlight /\ ~ e.completed
               /\ e.recover =>
                    /\ Len(window') = k /\ Recover(e)
               /\ ~ e.recover =>
                    /\ Len(window') = Len(window)
                    /\ UNCHANGED <<spec_mode, use_spec_R, store_htable, fetch_data, fetch_pred_PC, tos>>
               /\ \A j \in 1 .. Len(window') :
                    window'[j] = IF j = k THEN [window[j] EXCEPT !.completed = TRUE] ELSE window[j]
               /\ window' \in Seq(InFlight)
               /\ \/ bpred_update(config.class, code, e.PC, Inst(e), e.next_PC, e.pred_PC = e.next_PC, e.upd)
                  \/ UNCHANGED dirVars
               /\ UNCHANGED <<config, code, regs, spec_regs, ptab, recover_PC, depth, retstack>>
<1>1. window \in Seq(InFlight)
  BY DEF TypeOK
<1>2. PICK k \in DOMAIN window :
        LET e == window[k]
            rest == IF e.recover THEN SubSeq(window, 1, k) ELSE window
        IN  /\ ~ e.completed
            /\ window' = [rest EXCEPT ![k].completed = TRUE]
            /\ IF e.recover THEN Recover(e)
               ELSE UNCHANGED <<spec_mode, use_spec_R, store_htable, fetch_data, fetch_pred_PC, tos>>
            /\ IF config.update = "WB" THEN Train(e) ELSE UNCHANGED dirVars
  BY DEF Writeback
<1> DEFINE e == window[k]
           rest == IF e.recover THEN SubSeq(window, 1, k) ELSE window
<1>3. k \in 1 .. Len(window) /\ e \in InFlight
  BY <1>1
<1>4. /\ rest \in Seq(InFlight) /\ Len(rest) = (IF e.recover THEN k ELSE Len(window))
      /\ \A j \in 1 .. Len(rest) : rest[j] = window[j]
  <2>1. CASE e.recover
    <3>1. SubSeq(window, 1, k) \in Seq(InFlight) /\ Len(SubSeq(window, 1, k)) = k
          /\ \A j \in 1 .. k : SubSeq(window, 1, k)[j] = window[j]
      BY <1>1, <1>3
    <3> QED
      BY <2>1, <3>1
  <2>2. CASE ~ e.recover
    BY <1>1, <2>2
  <2> QED
    BY <2>1, <2>2
<1>5. window' = [rest EXCEPT ![k].completed = TRUE] /\ k \in 1 .. Len(rest)
  BY <1>2, <1>3, <1>4
<1> HIDE DEF rest
<1>6. /\ window' \in Seq(InFlight) /\ Len(window') = Len(rest)
      /\ \A j \in 1 .. Len(rest) :
           window'[j] = IF j = k THEN [window[j] EXCEPT !.completed = TRUE] ELSE window[j]
  <2>1. rest[k] \in InFlight
    BY <1>4, <1>5
  <2>2. [rest[k] EXCEPT !.completed = TRUE] \in InFlight
    BY <2>1 DEF InFlight
  <2>3. window' = [rest EXCEPT ![k] = [rest[k] EXCEPT !.completed = TRUE]]
    BY <1>5
  <2> QED
    <3> DEFINE done == [rest[k] EXCEPT !.completed = TRUE]
    <3>1. done \in InFlight /\ done = [window[k] EXCEPT !.completed = TRUE]
      BY <1>4, <1>5, <2>2
    <3>2. window' = [rest EXCEPT ![k] = done]
      BY <2>3
    <3> HIDE DEF done
    <3>3. rest \in Seq(InFlight) /\ k \in 1 .. Len(rest) /\ done \in InFlight
      BY <1>4, <1>5, <3>1
    <3>4. /\ [rest EXCEPT ![k] = done] \in Seq(InFlight) /\ Len([rest EXCEPT ![k] = done]) = Len(rest)
          /\ \A j \in 1 .. Len(rest) : [rest EXCEPT ![k] = done][j] = IF j = k THEN done ELSE rest[j]
      BY ONLY <3>3, Replaced
    <3> QED
      BY <1>4, <3>1, <3>2, <3>4
<1>7. UNCHANGED <<config, code, regs, spec_regs, ptab, recover_PC, depth, retstack>>
  BY DEF Writeback
<1>8. \/ bpred_update(config.class, code, e.PC, Inst(e), e.next_PC, e.pred_PC = e.next_PC, e.upd)
      \/ UNCHANGED dirVars
  BY <1>2 DEF Train
<1> QED
  BY <1>2, <1>3, <1>4, <1>6, <1>7, <1>8

\* What is committed.
LEMMA CommitIs ==
  ASSUME TypeOK, Commit
  PROVE  /\ Len(window) > 0 /\ window[1] \in InFlight /\ window[1].completed
         /\ window' = Tail(window)
         /\ \/ bpred_update(config.class, code, window[1].PC, Inst(window[1]), window[1].next_PC,
                            window[1].pred_PC = window[1].next_PC, window[1].upd)
            \/ UNCHANGED dirVars
         /\ UNCHANGED <<config, code, machVars, fetch_data, fetch_pred_PC, depth, retstack, tos>>
<1>1. window \in Seq(InFlight) /\ window # <<>> /\ Head(window) = window[1]
  BY DEF Commit, TypeOK
<1>2. Len(window) > 0 /\ window[1] \in InFlight
  BY <1>1
<1> QED
  BY <1>1, <1>2 DEF Commit, Train

\* Every step keeps the types.
LEMMA NextTyped == ASSUME TypeOK, [Next]_vars PROVE TypeOK'
<1>1. CASE UNCHANGED vars
  BY <1>1 DEF vars, machVars, predVars, dirVars, TypeOK, PredTypeOK
<1>2. CASE Fetch
  <2>1. /\ NewFetched \in Fetched /\ fetch_data' = Append(fetch_data, NewFetched)
        /\ fetch_pred_PC' \in Nat /\ PredTypeOK'
    BY <1>2, FetchIs
  <2>2. UNCHANGED <<config, code, regs, spec_regs, use_spec_R, ptab, store_htable, spec_mode, recover_PC,
                    window, depth>>
    BY <1>2 DEF Fetch, machVars
  <2>3. fetch_data' \in Seq(Fetched)
    BY <2>1 DEF TypeOK
  <2> QED
    BY <2>1, <2>2, <2>3 DEF TypeOK
<1>3. CASE Dispatch
  <2> DEFINE f == fetch_data[1]
             i == InstOf(code, f.PC)
  <2>1. /\ Len(fetch_data) > 0 /\ f \in Fetched /\ i \in Instructions /\ f.PC \in Nat
        /\ NextOf(f) \in Nat /\ Dispatched(f) \in InFlight
        /\ Execute(i, f.PC)
        /\ IF Misfetched(f, i)
           THEN fetch_data' = <<>> /\ fetch_pred_PC' = NextOf(f)
           ELSE fetch_data' = Tail(fetch_data) /\ UNCHANGED fetch_pred_PC
        /\ window' = IF IsCtrl(i) THEN Append(window, Dispatched(f)) ELSE window
        /\ spec_mode' = (spec_mode \/ Mispredicted(f))
        /\ recover_PC' = IF Mispredicted(f) THEN NextOf(f) ELSE recover_PC
        /\ depth' = IF spec_mode THEN depth ELSE (depth + Delta(f.PC)) % retstack_size
        /\ \/ bpred_update(config.class, code, f.PC, i, NextOf(f), f.pred_PC = NextOf(f), f.upd)
           \/ UNCHANGED dirVars
        /\ UNCHANGED <<config, code, retstack, tos>>
    BY <1>3, DispatchIs
  <2> HIDE DEF f, i
  <2>2. PredTypeOK'
    <3>1. CASE UNCHANGED dirVars
      BY <2>1, <3>1 DEF TypeOK, PredTypeOK, dirVars
    <3>2. CASE bpred_update(config.class, code, f.PC, i, NextOf(f), f.pred_PC = NextOf(f), f.upd)
      <4>1. PredTypeOK /\ retstack' \in [0 .. retstack_size - 1 -> Nat] /\ tos' \in 0 .. retstack_size - 1
        BY <2>1 DEF TypeOK, PredTypeOK
      <4> QED
        BY <2>1, <3>2, <4>1, UpdateKeepsType
    <3> QED
      BY <2>1, <3>1, <3>2
  <2>3. /\ regs' \in [Regs -> Nat] /\ spec_regs' \in [Regs -> Nat] /\ use_spec_R' \subseteq Regs
        /\ ptab' \in PageTables /\ store_htable' \in StoreTables
    BY <2>1, ExecuteType
  <2>4. fetch_data' \in Seq(Fetched) /\ fetch_pred_PC' \in Nat
    <3>1. fetch_data \in Seq(Fetched) /\ fetch_data # <<>> /\ fetch_pred_PC \in Nat
      BY <2>1 DEF TypeOK
    <3>2. Tail(fetch_data) \in Seq(Fetched) /\ <<>> \in Seq(Fetched)
      BY <3>1
    <3> QED
      BY <2>1, <3>1, <3>2
  <2>5. window' \in Seq(InFlight)
    BY <2>1 DEF TypeOK
  <2>6. depth' \in 0 .. retstack_size - 1
    <3>1. depth + Delta(f.PC) \in Int /\ retstack_size \in Nat \ {0}
      BY TableSizes DEF TypeOK, Delta
    <3>2. (depth + Delta(f.PC)) % retstack_size \in 0 .. retstack_size - 1
      BY <3>1, Remainder
    <3> QED
      BY <2>1, <3>2 DEF TypeOK
  <2>7. spec_mode' \in BOOLEAN /\ recover_PC' \in Nat
    BY <2>1 DEF TypeOK, Mispredicted
  <2> QED
    BY <2>1, <2>2, <2>3, <2>4, <2>5, <2>6, <2>7 DEF TypeOK
<1>4. CASE Writeback
  <2>1. PICK k \in DOMAIN window :
           LET e == window[k]
           IN  /\ e \in InFlight
               /\ e.recover => Recover(e)
               /\ ~ e.recover =>
                    UNCHANGED <<spec_mode, use_spec_R, store_htable, fetch_data, fetch_pred_PC, tos>>
               /\ window' \in Seq(InFlight)
               /\ \/ bpred_update(config.class, code, e.PC, Inst(e), e.next_PC, e.pred_PC = e.next_PC, e.upd)
                  \/ UNCHANGED dirVars
               /\ UNCHANGED <<config, code, regs, spec_regs, ptab, recover_PC, depth, retstack>>
    BY <1>4, WritebackIs
  <2> DEFINE e == window[k]
  <2>2. e.PC \in Nat /\ e.next_PC \in Nat /\ e.recover \in BOOLEAN /\ e.idx \in 0 .. retstack_size - 1
    BY <2>1 DEF InFlight
  <2> HIDE DEF e
  <2>3. /\ spec_mode' \in BOOLEAN /\ use_spec_R' \subseteq Regs /\ store_htable' \in StoreTables
        /\ fetch_data' \in Seq(Fetched) /\ fetch_pred_PC' \in Nat /\ tos' \in 0 .. retstack_size - 1
    <3>1. CASE e.recover
      <4>1. <<>> \in Seq(Fetched)
        OBVIOUS
      <4>2. htable_init \in StoreTables
        BY EmptyMemory
      <4> QED
        BY <2>1, <2>2, <3>1, <4>1, <4>2 DEF e, Recover, TypeOK
    <3>2. CASE ~ e.recover
      BY <2>1, <3>2 DEF e, TypeOK, PredTypeOK
    <3> QED
      BY <3>1, <3>2
  <2>4. PredTypeOK'
    <3>1. PredTypeOK /\ retstack' \in [0 .. retstack_size - 1 -> Nat]
      BY <2>1 DEF TypeOK, PredTypeOK
    <3>2. CASE UNCHANGED dirVars
      BY <2>1, <2>3, <3>1, <3>2 DEF PredTypeOK, dirVars
    <3>3. CASE bpred_update(config.class, code, e.PC, Inst(e), e.next_PC, e.pred_PC = e.next_PC, e.upd)
      BY <2>1, <2>2, <2>3, <3>1, <3>3, UpdateKeepsType
    <3> QED
      BY <2>1, <3>2, <3>3 DEF e
  <2> QED
    BY <2>1, <2>3, <2>4 DEF TypeOK
<1>5. CASE Commit
  <2>1. /\ Len(window) > 0 /\ window[1] \in InFlight
        /\ window' = Tail(window)
        /\ \/ bpred_update(config.class, code, window[1].PC, Inst(window[1]), window[1].next_PC,
                           window[1].pred_PC = window[1].next_PC, window[1].upd)
           \/ UNCHANGED dirVars
        /\ UNCHANGED <<config, code, machVars, fetch_data, fetch_pred_PC, depth, retstack, tos>>
    BY <1>5, CommitIs
  <2>2. window[1].PC \in Nat /\ window[1].next_PC \in Nat
    BY <2>1 DEF InFlight
  <2>3. PredTypeOK'
    <3>1. PredTypeOK /\ retstack' \in [0 .. retstack_size - 1 -> Nat] /\ tos' \in 0 .. retstack_size - 1
      BY <2>1 DEF TypeOK, PredTypeOK
    <3>2. CASE UNCHANGED dirVars
      BY <2>1, <3>1, <3>2 DEF PredTypeOK, dirVars
    <3>3. CASE bpred_update(config.class, code, window[1].PC, Inst(window[1]), window[1].next_PC,
                            window[1].pred_PC = window[1].next_PC, window[1].upd)
      BY <2>1, <2>2, <3>1, <3>3, UpdateKeepsType
    <3> QED
      BY <2>1, <3>2, <3>3
  <2>4. window' \in Seq(InFlight)
    <3>1. window \in Seq(InFlight) /\ window # <<>>
      BY <2>1 DEF TypeOK
    <3> QED
      BY <2>1, <3>1
  <2> QED
    BY <2>1, <2>3, <2>4 DEF TypeOK, machVars
<1> QED
  BY <1>1, <1>2, <1>3, <1>4, <1>5 DEF Next

\* Every variable keeps its type, whatever the program and the predictor.
THEOREM TypeCorrect == Spec => []TypeOK
BY InitTyped, NextTyped, PTL DEF Spec

-----------------------------------------------------------------------------
\* A sequence and one more.
LEMMA AppendIs ==
  ASSUME NEW S, NEW s \in Seq(S), NEW x \in S
  PROVE  /\ Append(s, x) \in Seq(S) /\ Len(Append(s, x)) = Len(s) + 1 /\ Append(s, x)[Len(s) + 1] = x
         /\ \A k \in 1 .. Len(s) : Append(s, x)[k] = s[k]
OBVIOUS

\* A sequence and one less.
LEMMA TailIs ==
  ASSUME NEW S, NEW s \in Seq(S), Len(s) > 0
  PROVE  /\ Tail(s) \in Seq(S) /\ Len(Tail(s)) = Len(s) - 1 /\ Len(s) \in Nat
         /\ \A k \in 1 .. Len(s) - 1 : Tail(s)[k] = s[k + 1] /\ k \in 1 .. Len(s) /\ k + 1 \in 1 .. Len(s)
OBVIOUS

\* An instruction that is not a branch is never mispredicted, nor misfetched.
LEMMA OnlyBranches ==
  ASSUME TypeOK, QueueFollows, Dispatch
  PROVE  LET f == fetch_data[1]
             i == InstOf(code, f.PC)
         IN  ~ IsCtrl(i) => /\ ~ Mispredicted(f) /\ ~ Misfetched(f, i) /\ Delta(f.PC) = 0
                            /\ f.pred_PC = NextOf(f)
<1> DEFINE f == fetch_data[1]
           i == InstOf(code, f.PC)
<1>1. Len(fetch_data) > 0 /\ f.PC \in Nat /\ i \in Instructions /\ GPR \in [Regs -> Nat] /\ Len(fetch_data) \in Nat
  BY DispatchIs, GprType DEF TypeOK
<1> SUFFICES ASSUME ~ IsCtrl(i)
             PROVE  ~ Mispredicted(f) /\ ~ Misfetched(f, i) /\ Delta(f.PC) = 0 /\ f.pred_PC = NextOf(f)
  OBVIOUS
<1>2. f.pred_PC = Behind(code, f.PC)
  BY <1>1 DEF QueueFollows, Inst
<1>3. NextOf(f) = Behind(code, f.PC)
  BY <1>1, ExecutionTypes DEF NextOf
<1>4. Delta(f.PC) = 0
  BY DEF Delta, IsCtrl, IsReturn, IsCall
<1> QED
  BY <1>2, <1>3, <1>4 DEF Mispredicted, Misfetched, IsDirect, IsCtrl

-----------------------------------------------------------------------------
\* A wrong path begins with a misprediction of the correct path only, and ends with its recovery.
LEMMA RecoveryStays ==
  ASSUME TypeOK, ProgramInvariant, Next
  PROVE  OneRecovery'
<1>0. OneRecovery /\ Len(window) \in Nat /\ window \in Seq(InFlight) /\ spec_mode \in BOOLEAN
  BY DEF ProgramInvariant, TypeOK
<1>1. CASE Fetch
  BY <1>0, <1>1 DEF Fetch, machVars, OneRecovery, Pending
<1>2. CASE Dispatch
  <2> DEFINE f == fetch_data[1]
             i == InstOf(code, f.PC)
             e == Dispatched(f)
  <2>1. /\ window' = IF IsCtrl(i) THEN Append(window, e) ELSE window
        /\ spec_mode' = (spec_mode \/ Mispredicted(f))
        /\ e \in InFlight
    BY <1>2, DispatchIs
  <2>2. ~ IsCtrl(i) => ~ Mispredicted(f)
    BY <1>2, OnlyBranches DEF ProgramInvariant
  <2>3. e.recover = Mispredicted(f) /\ ~ e.completed /\ e.spec_mode = spec_mode /\ (Mispredicted(f) => ~ spec_mode)
    BY DEF Dispatched, Mispredicted
  <2> HIDE DEF f, e
  <2>4. CASE ~ IsCtrl(i)
    BY <1>0, <2>1, <2>2, <2>4 DEF OneRecovery, Pending
  <2>5. CASE IsCtrl(i)
    <3>0. PICK n \in Nat : n = Len(window) + 1
      BY <1>0
    <3>1. /\ window' \in Seq(InFlight) /\ Len(window') = Len(window) + 1 /\ window'[Len(window) + 1] = e
          /\ \A k \in 1 .. Len(window) : window'[k] = window[k]
      BY <1>0, <2>1, <2>5, AppendIs
    <3>2. \A k \in 1 .. Len(window') : k \in 1 .. Len(window) \/ k = Len(window) + 1
      BY <1>0, <3>1
    <3>3. \A k \in 1 .. Len(window) : Pending(k)' <=> Pending(k)
      BY <3>1 DEF Pending
    <3>4. Pending(n)' <=> Mispredicted(f)
      BY <2>3, <3>0, <3>1 DEF Pending
    <3>5. ASSUME NEW j \in 1 .. Len(window'), NEW k \in 1 .. Len(window'), Pending(k)'
          PROVE  spec_mode' /\ (window'[j].spec_mode <=> j > k)
      <4>1. CASE k = n
        <5>1. Mispredicted(f) /\ ~ spec_mode /\ spec_mode'
          BY <2>1, <2>3, <3>4, <3>5, <4>1
        <5>2. CASE j \in 1 .. Len(window)
          <6>1. ~ window'[j].spec_mode /\ ~ (j > k)
            BY <1>0, <3>0, <3>1, <4>1, <5>1, <5>2 DEF OneRecovery
          <6> QED
            BY <5>1, <6>1
        <5>3. CASE j = n
          <6>1. ~ window'[j].spec_mode /\ ~ (j > k)
            BY <2>3, <3>0, <3>1, <4>1, <5>1, <5>3
          <6> QED
            BY <5>1, <6>1
        <5> QED
          BY <3>0, <3>2, <5>2, <5>3
      <4>2. CASE k \in 1 .. Len(window)
        <5>1. Pending(k) /\ spec_mode
          BY <1>0, <3>3, <3>5, <4>2 DEF OneRecovery
        <5>2. CASE j \in 1 .. Len(window)
          BY <1>0, <2>1, <3>1, <4>2, <5>1, <5>2 DEF OneRecovery
        <5>3. CASE j = n
          <6>1. window'[j] = e /\ j > k
            BY <1>0, <3>0, <3>1, <4>2, <5>3
          <6>2. e.spec_mode /\ spec_mode'
            BY <2>1, <2>3, <5>1
          <6> QED
            BY <6>1, <6>2
        <5> QED
          BY <3>0, <3>2, <5>2, <5>3
      <4> QED
        BY <3>0, <3>2, <4>1, <4>2
    <3>6. ASSUME spec_mode' PROVE \E k \in 1 .. Len(window') : Pending(k)'
      <4>1. CASE spec_mode
        <5>1. PICK k \in 1 .. Len(window) : Pending(k)
          BY <1>0, <4>1 DEF OneRecovery
        <5>2. k \in 1 .. Len(window') /\ Pending(k)'
          BY <1>0, <3>1, <3>3, <5>1
        <5> QED
          BY <5>2
      <4>2. CASE Mispredicted(f)
        <5>1. n \in 1 .. Len(window')
          BY <1>0, <3>0, <3>1
        <5> QED
          BY <3>4, <4>2, <5>1
      <4> QED
        BY <2>1, <3>6, <4>1, <4>2
    <3>7. ASSUME ~ spec_mode', NEW k \in 1 .. Len(window') PROVE ~ window'[k].spec_mode
      BY <1>0, <2>1, <2>3, <3>1, <3>2, <3>7 DEF OneRecovery
    <3> QED
      BY <3>5, <3>6, <3>7 DEF OneRecovery
  <2> QED
    BY <2>4, <2>5
<1>3. CASE Writeback
  <2>1. PICK k \in 1 .. Len(window) :
          LET e == window[k]
          IN  /\ e \in InFlight /\ ~ e.completed
              /\ e.recover => Len(window') = k /\ Recover(e)
              /\ ~ e.recover => Len(window') = Len(window) /\ UNCHANGED spec_mode
              /\ \A j \in 1 .. Len(window') :
                   window'[j] = IF j = k THEN [window[j] EXCEPT !.completed = TRUE] ELSE window[j]
    BY <1>3, WritebackIs
  <2> DEFINE e == window[k]
  <2>2. Len(window') \in Nat /\ Len(window') <= Len(window) /\ k \in 1 .. Len(window')
    BY <1>0, <2>1
  <2>3. \A j \in 1 .. Len(window') : j \in 1 .. Len(window)
    BY <1>0, <2>2
  <2>4. /\ [e EXCEPT !.completed = TRUE].spec_mode = e.spec_mode
        /\ [e EXCEPT !.completed = TRUE].completed
    BY <2>1 DEF InFlight
  <2>5. /\ \A j \in 1 .. Len(window') : window'[j].spec_mode = window[j].spec_mode
        /\ \A j \in 1 .. Len(window') : Pending(j)' <=> Pending(j) /\ j # k
    BY <2>1, <2>4 DEF Pending
  <2>6. CASE e.recover
    <3>1. Pending(k) /\ Len(window') = k /\ ~ spec_mode'
      BY <2>1, <2>6 DEF Pending, Recover
    <3>2. ASSUME NEW j \in 1 .. Len(window') PROVE ~ window[j].spec_mode /\ ~ Pending(j)'
      <4>1. j \in 1 .. Len(window) /\ j <= k
        BY <1>0, <2>1, <2>3, <3>1
      <4>2. ~ window[j].spec_mode
        BY <1>0, <2>1, <3>1, <4>1 DEF OneRecovery
      <4>3. ~ Pending(j)'
        <5>1. CASE j = k
          BY <2>5, <5>1
        <5>2. CASE j < k
          <6>1. ~ Pending(j)
            BY <1>0, <2>1, <3>1, <4>1, <4>2, <5>2 DEF OneRecovery
          <6> QED
            BY <2>5, <6>1
        <5> QED
          BY <1>0, <2>1, <4>1, <5>1, <5>2
      <4> QED
        BY <4>2, <4>3
    <3> QED
      BY <2>5, <3>1, <3>2 DEF OneRecovery
  <2>7. CASE ~ e.recover
    <3>1. ~ Pending(k) /\ Len(window') = Len(window) /\ spec_mode' = spec_mode
      BY <2>1, <2>7 DEF Pending
    <3> QED
      BY <1>0, <2>5, <3>1 DEF OneRecovery
  <2> QED
    BY <2>6, <2>7
<1>4. CASE Commit
  <2>1. Len(window) > 0 /\ window[1].completed /\ window' = Tail(window) /\ spec_mode' = spec_mode
    BY <1>4, CommitIs DEF machVars
  <2>2. /\ Len(window') = Len(window) - 1
        /\ \A k \in 1 .. Len(window) - 1 :
             window'[k] = window[k + 1] /\ k \in 1 .. Len(window) /\ k + 1 \in 1 .. Len(window)
    BY <1>0, <2>1, TailIs
  <2>3. \A k \in 1 .. Len(window') : Pending(k)' <=> Pending(k + 1)
    BY <2>2 DEF Pending
  <2>4. ASSUME NEW j \in 1 .. Len(window'), NEW k \in 1 .. Len(window'), Pending(k)'
        PROVE  spec_mode' /\ (window'[j].spec_mode <=> j > k)
    BY <1>0, <2>1, <2>2, <2>3, <2>4 DEF OneRecovery
  <2>5. ASSUME spec_mode' PROVE \E k \in 1 .. Len(window') : Pending(k)'
    <3>1. PICK k \in 1 .. Len(window) : Pending(k)
      BY <1>0, <2>1, <2>5 DEF OneRecovery
    <3>2. k # 1
      BY <2>1, <3>1 DEF Pending
    <3>3. k - 1 \in 1 .. Len(window') /\ (k - 1) + 1 = k
      BY <1>0, <2>2, <3>1, <3>2
    <3> QED
      BY <2>3, <3>1, <3>3
  <2>6. ASSUME ~ spec_mode', NEW k \in 1 .. Len(window') PROVE ~ window'[k].spec_mode
    BY <1>0, <2>1, <2>2, <2>6 DEF OneRecovery
  <2> QED
    BY <2>4, <2>5, <2>6 DEF OneRecovery
<1> QED
  BY <1>1, <1>2, <1>3, <1>4 DEF Next

-----------------------------------------------------------------------------
\* A wrong path is all that writes its registers and stores.
LEMMA TablesStay ==
  ASSUME TypeOK, ProgramInvariant, Next
  PROVE  WrongTables'
<1>0. WrongTables /\ store_htable \in StoreTables /\ spec_mode \in BOOLEAN /\ OneRecovery
  BY DEF ProgramInvariant, TypeOK
<1>1. CASE UNCHANGED <<spec_mode, use_spec_R, store_htable, config>>
  BY <1>0, <1>1 DEF WrongTables
<1>2. CASE Dispatch
  <2> DEFINE f == fetch_data[1]
             i == InstOf(code, f.PC)
             a == Address(i)
  <2>1. /\ i \in Instructions /\ f.PC \in Nat /\ Execute(i, f.PC)
        /\ spec_mode' = (spec_mode \/ Mispredicted(f)) /\ config' = config
    BY <1>2, DispatchIs
  <2>2. /\ a \in Nat /\ GPR[i.rt] \in Nat /\ config.bugcompat \in BOOLEAN
        /\ use_spec_R' = (IF spec_mode /\ WritesReg(i) THEN use_spec_R \cup {Dest(i)} ELSE use_spec_R)
        /\ ~ spec_mode => store_htable' = store_htable
        /\ spec_mode /\ i.op = "sw" => store_htable' = SpecWrite(store_htable, a, GPR[i.rt], config.bugcompat)
        /\ spec_mode /\ i.op # "sw" => store_htable' \in {store_htable, Reordered(store_htable, a)}
    BY <2>1, ExecuteIs
  <2> HIDE DEF f, i, a
  <2>3. CASE ~ spec_mode
    BY <1>0, <2>1, <2>2, <2>3 DEF WrongTables
  <2>4. CASE spec_mode
    <3>0. ValidStores(store_htable) /\ (config.bugcompat => \A b \in Nat : ~ Copied(store_htable, b))
      BY <1>0 DEF WrongTables, ValidStores
    <3>1. ValidStores(store_htable') /\ (config.bugcompat => \A b \in Nat : ~ Copied(store_htable', b))
      <4>1. CASE i.op = "sw"
        <5> DEFINE g == SpecWrite(store_htable, a, GPR[i.rt], config.bugcompat)
        <5>1. ptab \in PageTables
          BY DEF TypeOK
        <5>2. ValidStores(g) /\ (config.bugcompat => g = store_htable)
          BY <1>0, <2>2, <3>0, <5>1, SpecWriteWrites
        <5>3. store_htable' = g
          BY <2>2, <2>4, <4>1
        <5> QED
          BY <3>0, <5>2, <5>3
      <4>2. CASE store_htable' = store_htable
        BY <3>0, <4>2
      <4>3. CASE store_htable' = Reordered(store_htable, a)
        <5> DEFINE g == Reordered(store_htable, a)
        <5>1. g \in StoreTables /\ \A b \in Nat : Store(g, b) = Store(store_htable, b)
          BY <1>0, <2>2, ReorderedKeeps
        <5> HIDE DEF g
        <5>2. \A b \in Nat : Copied(g, b) = Copied(store_htable, b)
          BY <1>0, <5>1, StoreIs DEF Copied
        <5>3. ValidStores(g) /\ (config.bugcompat => \A b \in Nat : ~ Copied(g, b))
          BY <3>0, <5>2 DEF ValidStores
        <5> QED
          BY <4>3, <5>3 DEF g
      <4> QED
        BY <2>2, <2>4, <4>1, <4>2, <4>3
    <3>2. spec_mode'
      BY <2>1, <2>4
    <3> QED
      BY <2>1, <3>1, <3>2 DEF WrongTables, ValidStores
  <2> QED
    BY <1>0, <2>3, <2>4
<1>3. CASE Writeback
  <2>1. PICK k \in 1 .. Len(window) :
          /\ window[k].recover => Recover(window[k])
          /\ ~ window[k].recover => UNCHANGED <<spec_mode, use_spec_R, store_htable>>
          /\ config' = config /\ window[k] \in InFlight
    BY <1>3, WritebackIs
  <2>2. CASE window[k].recover
    BY <2>1, <2>2, EmptyMemory DEF Recover, WrongTables
  <2>3. CASE ~ window[k].recover
    BY <1>1, <2>1, <2>3
  <2> QED
    BY <2>2, <2>3
<1>4. CASE Fetch
  BY <1>1, <1>4 DEF Fetch, machVars
<1>5. CASE Commit
  BY <1>1, <1>5 DEF Commit, machVars
<1> QED
  BY <1>2, <1>3, <1>4, <1>5 DEF Next

-----------------------------------------------------------------------------
\* What is fetched follows what was predicted before it, and a squash leaves an empty queue.
LEMMA QueueStays ==
  ASSUME TypeOK, ProgramInvariant, Next
  PROVE  QueueFollows'
<1>0. QueueFollows /\ fetch_data \in Seq(Fetched) /\ Len(fetch_data) \in Nat
  BY DEF ProgramInvariant, TypeOK
<1>1. CASE UNCHANGED <<fetch_data, fetch_pred_PC, code>>
  BY <1>0, <1>1 DEF QueueFollows, Inst
<1>2. CASE fetch_data' = <<>>
  BY <1>2 DEF QueueFollows
<1>3. CASE Fetch
  <2>1. /\ NewFetched \in Fetched /\ fetch_data' = Append(fetch_data, NewFetched) /\ code' = code
        /\ ~ IsCtrl(InstOf(code, fetch_pred_PC)) => fetch_pred_PC' = Behind(code, fetch_pred_PC)
    BY <1>3, FetchIs DEF Fetch
  <2>2. /\ Len(fetch_data') = Len(fetch_data) + 1 /\ fetch_data'[Len(fetch_data) + 1] = NewFetched
        /\ \A k \in 1 .. Len(fetch_data) : fetch_data'[k] = fetch_data[k]
    BY <1>0, <2>1, AppendIs
  <2>3. NewFetched.PC = fetch_pred_PC /\ NewFetched.pred_PC = fetch_pred_PC'
    BY DEF NewFetched
  <2>4. \A k \in 1 .. Len(fetch_data') : k \in 1 .. Len(fetch_data) \/ k = Len(fetch_data) + 1
    BY <1>0, <2>2
  <2>5. ASSUME NEW k \in 1 .. Len(fetch_data')
        PROVE  fetch_data'[k].pred_PC = IF k = Len(fetch_data') THEN fetch_pred_PC' ELSE fetch_data'[k + 1].PC
    <3>1. CASE k = Len(fetch_data) + 1
      BY <2>2, <2>3, <3>1
    <3>2. CASE k = Len(fetch_data) /\ k \in 1 .. Len(fetch_data)
      BY <1>0, <2>2, <2>3, <3>2 DEF QueueFollows
    <3>3. CASE k < Len(fetch_data)
      <4>1. k \in 1 .. Len(fetch_data) /\ k + 1 \in 1 .. Len(fetch_data) /\ k # Len(fetch_data')
        BY <1>0, <2>2, <3>3
      <4> QED
        BY <1>0, <2>2, <3>3, <4>1 DEF QueueFollows
    <3> QED
      BY <1>0, <2>4, <3>1, <3>2, <3>3
  <2>6. ASSUME NEW k \in 1 .. Len(fetch_data'), ~ IsCtrl(InstOf(code, fetch_data'[k].PC))
        PROVE  fetch_data'[k].pred_PC = Behind(code, fetch_data'[k].PC)
    <3>1. CASE k = Len(fetch_data) + 1
      BY <2>1, <2>2, <2>3, <2>6, <3>1
    <3>2. CASE k \in 1 .. Len(fetch_data)
      BY <1>0, <2>2, <2>6, <3>2 DEF QueueFollows, Inst
    <3> QED
      BY <2>4, <3>1, <3>2
  <2> QED
    BY <2>1, <2>5, <2>6 DEF QueueFollows, Inst
<1>4. CASE Dispatch
  <2>1. /\ Len(fetch_data) > 0 /\ code' = code
        /\ fetch_data' = <<>> \/ (fetch_data' = Tail(fetch_data) /\ fetch_pred_PC' = fetch_pred_PC)
    BY <1>4, DispatchIs
  <2>2. CASE fetch_data' = Tail(fetch_data) /\ fetch_pred_PC' = fetch_pred_PC
    <3>1. /\ Len(fetch_data') = Len(fetch_data) - 1
          /\ \A k \in 1 .. Len(fetch_data) - 1 : fetch_data'[k] = fetch_data[k + 1] /\ k \in 1 .. Len(fetch_data)
                                              /\ k + 1 \in 1 .. Len(fetch_data)
      BY <1>0, <2>1, <2>2, TailIs
    <3>2. ASSUME NEW k \in 1 .. Len(fetch_data')
          PROVE  fetch_data'[k].pred_PC = IF k = Len(fetch_data') THEN fetch_pred_PC' ELSE fetch_data'[k + 1].PC
      <4>1. k \in 1 .. Len(fetch_data) - 1 /\ k + 1 \in 1 .. Len(fetch_data)
        BY <3>1
      <4>2. CASE k = Len(fetch_data')
        BY <1>0, <2>2, <3>1, <4>1, <4>2 DEF QueueFollows
      <4>3. CASE k < Len(fetch_data')
        <5>1. k + 1 \in 1 .. Len(fetch_data) - 1 /\ k + 1 # Len(fetch_data)
          BY <1>0, <3>1, <4>1, <4>3
        <5> QED
          BY <1>0, <2>2, <3>1, <4>1, <4>3, <5>1 DEF QueueFollows
      <4> QED
        BY <1>0, <3>1, <4>1, <4>2, <4>3
    <3>3. ASSUME NEW k \in 1 .. Len(fetch_data'), ~ IsCtrl(InstOf(code, fetch_data'[k].PC))
          PROVE  fetch_data'[k].pred_PC = Behind(code, fetch_data'[k].PC)
      BY <1>0, <3>1, <3>3 DEF QueueFollows, Inst
    <3> QED
      BY <2>1, <3>2, <3>3 DEF QueueFollows, Inst
  <2> QED
    BY <1>2, <2>1, <2>2
<1>5. CASE Writeback
  <2>1. \/ UNCHANGED <<fetch_data, fetch_pred_PC, code>>
        \/ fetch_data' = <<>>
    BY <1>5, WritebackIs DEF Recover
  <2> QED
    BY <1>1, <1>2, <2>1
<1>6. CASE Commit
  BY <1>1, <1>6 DEF Commit
<1> QED
  BY <1>3, <1>4, <1>5, <1>6 DEF Next

\* The invariant of the program holds at first.
LEMMA ProgramInit == Init => ProgramInvariant
<1> SUFFICES ASSUME Init PROVE ProgramInvariant
  OBVIOUS
<1>1. OneRecovery /\ QueueFollows
  BY DEF Init, OneRecovery, QueueFollows
<1>2. WrongTables
  BY EmptyMemory DEF Init, WrongTables
<1> QED
  BY <1>1, <1>2 DEF ProgramInvariant

\* Every step keeps the invariant of the program.
LEMMA ProgramNext == ASSUME TypeOK, ProgramInvariant, [Next]_vars PROVE ProgramInvariant'
<1>1. CASE UNCHANGED vars
  BY <1>1 DEF vars, machVars, predVars, dirVars, ProgramInvariant, OneRecovery, Pending, WrongTables, QueueFollows, Inst
<1>2. CASE Next
  BY <1>2, RecoveryStays, TablesStay, QueueStays DEF ProgramInvariant
<1> QED
  BY <1>1, <1>2

-----------------------------------------------------------------------------
\* The registers of the program, and the view of a wrong path, as functions of the variables.
Reset(R)       == [R EXCEPT ![0] = 0]
Flat(pt)       == [a \in 0 .. WORD - 1 |-> MEM_READ(pt, a)]
Gpr(R, S, U)   == [r \in Regs |-> IF r = 0 THEN 0 ELSE IF r \in U THEN S[r] ELSE R[r]]
Overlaid(pt, h) == [a \in 0 .. WORD - 1 |-> Seen(pt, h, a)]

\* What the mapping of TraceGeneratorRefinement reads.
LEMMA ViewsAre ==
  /\ FlatMemory = Flat(ptab) /\ FlatMemory' = Flat(ptab')
  /\ GPR = Gpr(regs, spec_regs, use_spec_R) /\ GPR' = Gpr(regs', spec_regs', use_spec_R')
  /\ WrongView = [regs |-> GPR, memory |-> Overlaid(ptab, store_htable)]
  /\ WrongView' = [regs |-> GPR', memory |-> Overlaid(ptab', store_htable')]
BY DEF FlatMemory, Flat, GPR, Gpr, WrongView, Overlaid, Seen

\* Without registers or stores of its own a wrong path sees those of the program.
LEMMA NothingOwn ==
  ASSUME NEW R \in [Regs -> Nat], NEW S, NEW pt, NEW h, \A a \in Nat : ~ Copied(h, a)
  PROVE  Gpr(R, S, {}) = Reset(R) /\ Overlaid(pt, h) = Flat(pt)
<1>1. Gpr(R, S, {}) = Reset(R)
  BY DEF Gpr, Reset
<1>2. \A a \in 0 .. WORD - 1 : Seen(pt, h, a) = MEM_READ(pt, a)
  BY DEF Seen
<1> QED
  BY <1>1, <1>2 DEF Overlaid, Flat

\* A function in which one value may have changed.
LEMMA OneChanged ==
  ASSUME NEW A, NEW F, NEW G, F = [b \in A |-> F[b]], G = [b \in A |-> G[b]], NEW a \in A, NEW v
  PROVE  /\ (\A b \in A : G[b] = IF b = a THEN v ELSE F[b]) => G = [F EXCEPT ![a] = v]
         /\ (\A b \in A : G[b] = F[b]) => G = F
OBVIOUS

\* On the correct path an instruction does to the program what Machine says.
LEMMA ExecuteRight ==
  ASSUME TypeOK, WrongTables, ~ spec_mode, NEW i \in Instructions, NEW pc \in Nat, Execute(i, pc)
  PROVE  Program!Executed(Reset(regs), FlatMemory, i, pc, FALSE) =
           [regs |-> Reset(regs'), memory |-> FlatMemory']
<1> DEFINE R == Reset(regs)
           a == Address(i)
           old(b) == MEM_READ(ptab, b)
<1>1. /\ a \in 0 .. WORD - 1 /\ a \in Nat /\ GPR[i.rt] \in Nat /\ Value(i, pc) \in Nat
      /\ regs' = After(i, pc, regs) /\ regs \in [Regs -> Nat]
      /\ i.op = "sw" => ptab' = MEM_WRITE(ptab, a, GPR[i.rt])
      /\ i.op # "sw" => ptab' \in {ptab, mem_translate(ptab, a)}
      /\ ptab \in PageTables
  BY ExecuteIs DEF TypeOK
<1>2. GPR = R
  <2>1. use_spec_R = {} /\ \A b \in Nat : ~ Copied(store_htable, b)
    BY DEF WrongTables
  <2> QED
    BY <1>1, <2>1, NothingOwn, ViewsAre
<1>3. a = EffAddr(i, R) /\ Value(i, pc) = Result(i, pc, R, FlatMemory[a])
  <2>1. a = EffAddr(i, R)
    BY <1>2 DEF Address
  <2>2. Loaded(i) = FlatMemory[a]
    BY <1>1, ViewsAre DEF Loaded, Flat
  <2> QED
    BY <1>2, <2>1, <2>2 DEF Value
<1>4. 0 \in Regs /\ Dest(i) \in Regs
  BY RegisterTypes
<1>5. Reset(regs') = IF WritesReg(i) /\ Dest(i) # 0 THEN [R EXCEPT ![Dest(i)] = Value(i, pc)] ELSE R
  BY <1>1, <1>4 DEF After, Reset
<1>6. FlatMemory' = IF i.op = "sw" THEN [FlatMemory EXCEPT ![a] = R[i.rt]] ELSE FlatMemory
  <2>1. CASE i.op = "sw"
    <3> DEFINE v == GPR[i.rt]
               wt == MEM_WRITE(ptab, a, v)
    <3>0. a \in Nat /\ v \in Nat /\ ptab \in PageTables
      BY <1>1
    <3> HIDE DEF a, v
    <3>1. \A b \in Nat : MEM_READ(wt, b) = IF b = a THEN v ELSE MEM_READ(ptab, b)
      BY ONLY <3>0, WriteWrites
    <3>2. ptab' = wt
      BY <1>1, <2>1 DEF v
    <3> HIDE DEF wt
    <3>3. Flat(ptab') = [Flat(ptab) EXCEPT ![a] = v]
      <4>1. \A b \in 0 .. WORD - 1 : Flat(ptab')[b] = IF b = a THEN v ELSE Flat(ptab)[b]
        BY <3>1, <3>2, WordAssumption DEF Flat
      <4>2. /\ Flat(ptab) = [b \in 0 .. WORD - 1 |-> Flat(ptab)[b]]
            /\ Flat(ptab') = [b \in 0 .. WORD - 1 |-> Flat(ptab')[b]]
        BY DEF Flat
      <4> DEFINE F == Flat(ptab)
                 G == Flat(ptab')
      <4> HIDE DEF F, G
      <4>3. G = [F EXCEPT ![a] = v]
        BY <1>1, <4>1, <4>2, OneChanged DEF F, G
      <4> QED
        BY <4>3 DEF F, G
    <3> QED
      BY <1>2, <2>1, <3>3, ViewsAre DEF v
  <2>2. CASE i.op # "sw"
    <3>1. SameMemory(ptab, ptab')
      <4>1. CASE ptab' = ptab
        BY <4>1 DEF SameMemory
      <4>2. CASE ptab' = mem_translate(ptab, a)
        BY <1>1, <4>2, TranslateKeeps
      <4> QED
        BY <1>1, <2>2, <4>1, <4>2
    <3>2. Flat(ptab') = Flat(ptab)
      BY <3>1, WordAssumption DEF Flat, SameMemory
    <3> QED
      BY <2>2, <3>2, ViewsAre
  <2> QED
    BY <2>1, <2>2
<1>7. R \in [Regs -> Nat]
  BY <1>1 DEF Reset
<1> HIDE DEF R, a
<1>8. Program!Executed(R, FlatMemory, i, pc, FALSE) =
        [regs |-> IF WritesReg(i) /\ Dest(i) # 0 THEN [R EXCEPT ![Dest(i)] = Value(i, pc)] ELSE R,
         memory |-> IF i.op = "sw" THEN [FlatMemory EXCEPT ![a] = R[i.rt]] ELSE FlatMemory]
  BY <1>3, <1>7 DEF Program!Executed, Program!EffAddr, EffAddr, Program!Result, Result,
       Program!WritesReg, WritesReg, Program!Dest, Dest, Program!RA, RA
<1> QED
  BY <1>5, <1>6, <1>8 DEF R

\* On a wrong path it does so to the copy, and nothing to the program.
LEMMA ExecuteWrong ==
  ASSUME TypeOK, WrongTables, spec_mode, NEW i \in Instructions, NEW pc \in Nat, Execute(i, pc)
  PROVE  /\ Program!Executed(WrongView.regs, WrongView.memory, i, pc, TRUE) = WrongView'
         /\ Reset(regs') = Reset(regs) /\ FlatMemory' = FlatMemory
<1> DEFINE a == Address(i)
           v == GPR[i.rt]
           bugcompat == config.bugcompat
           h == store_htable
           M == Overlaid(ptab, h)
<1>1. /\ a \in 0 .. WORD - 1 /\ a \in Nat /\ v \in Nat /\ Value(i, pc) \in Nat /\ bugcompat \in BOOLEAN
      /\ regs' = Reset(regs) /\ regs \in [Regs -> Nat]
      /\ spec_regs' = After(i, pc, spec_regs) /\ spec_regs \in [Regs -> Nat]
      /\ use_spec_R' = (IF WritesReg(i) THEN use_spec_R \cup {Dest(i)} ELSE use_spec_R)
      /\ ptab' \in {ptab, mem_translate(ptab, a)} /\ ptab \in PageTables
      /\ i.op = "sw" => h' = SpecWrite(h, a, v, bugcompat)
      /\ i.op # "sw" => h' \in {h, Reordered(h, a)}
      /\ h \in StoreTables
  BY ExecuteIs DEF TypeOK, Reset
<1>2. ptab' \in PageTables /\ SameMemory(ptab, ptab')
  <2>1. CASE ptab' = ptab
    BY <1>1, <2>1 DEF SameMemory
  <2>2. CASE ptab' = mem_translate(ptab, a)
    BY <1>1, <2>2, TranslateKeeps
  <2> QED
    BY <1>1, <2>1, <2>2
<1>3. FlatMemory' = FlatMemory
  <2>1. Flat(ptab') = Flat(ptab)
    BY <1>2, WordAssumption DEF Flat, SameMemory
  <2> QED
    BY <2>1, ViewsAre
<1>4. Reset(regs') = Reset(regs)
  BY <1>1 DEF Reset
<1>5. ValidStores(h) /\ (bugcompat => \A b \in Nat : ~ Copied(h, b))
  BY DEF WrongTables, ValidStores
<1>6. GPR \in [Regs -> Nat] /\ GPR[0] = 0 /\ 0 \in Regs /\ Dest(i) \in Regs
  BY GprType, RegisterTypes
<1>7. Loaded(i) = IF a \in ValidAddrs THEN M[a] ELSE 0
  <2>1. Loaded(i) = SpecRead(ptab, h, a)
    BY DEF Loaded
  <2>2. SpecRead(ptab, h, a) = IF a \in ValidAddrs THEN Seen(ptab, h, a) ELSE 0
    BY <1>1, <1>5, SeenType
  <2>3. M[a] = Seen(ptab, h, a)
    BY <1>1 DEF Overlaid
  <2> QED
    BY <2>1, <2>2, <2>3
<1>8. GPR' = IF WritesReg(i) /\ Dest(i) # 0 THEN [GPR EXCEPT ![Dest(i)] = Value(i, pc)] ELSE GPR
  <2>1. Gpr(regs', spec_regs', use_spec_R') =
          IF WritesReg(i) /\ Dest(i) # 0 THEN [Gpr(regs, spec_regs, use_spec_R) EXCEPT ![Dest(i)] = Value(i, pc)]
          ELSE Gpr(regs, spec_regs, use_spec_R)
    <3>1. CASE WritesReg(i)
      BY <1>1, <1>6, <3>1 DEF Gpr, After, Reset
    <3>2. CASE ~ WritesReg(i)
      BY <1>1, <1>6, <3>2 DEF Gpr, After, Reset
    <3> QED
      BY <3>1, <3>2
  <2> QED
    BY <2>1, ViewsAre
<1>9. \A b \in Nat : Seen(ptab', h', b) =
        IF i.op = "sw" /\ b = a /\ a \in ValidAddrs /\ ~ bugcompat THEN v ELSE Seen(ptab, h, b)
  <2>1. CASE i.op = "sw"
    <3> DEFINE g == SpecWrite(h, a, v, bugcompat)
    <3>1. /\ g \in StoreTables /\ ValidStores(g)
          /\ \A b \in Nat : Seen(ptab, g, b) = IF b = a /\ a \in ValidAddrs /\ ~ bugcompat THEN v ELSE Seen(ptab, h, b)
      BY <1>1, <1>5, SpecWriteWrites
    <3> HIDE DEF g
    <3>2. \A b \in Nat : Seen(ptab', g, b) = Seen(ptab, g, b)
      BY <1>1, <1>2, <3>1, SeenSame
    <3>3. h' = g
      BY <1>1, <2>1 DEF g
    <3> QED
      BY <2>1, <3>1, <3>2, <3>3
  <2>2. CASE i.op # "sw"
    <3>1. h' \in StoreTables /\ \A b \in Nat : Store(h', b) = Store(h, b)
      <4>1. CASE h' = h
        BY <1>1, <4>1
      <4>2. CASE h' = Reordered(h, a)
        BY <1>1, <4>2, ReorderedKeeps
      <4> QED
        BY <1>1, <2>2, <4>1, <4>2
    <3>2. \A b \in Nat : Seen(ptab', h', b) = Seen(ptab, h, b)
      BY <1>1, <1>2, <1>5, <3>1, SeenSame
    <3> QED
      BY <2>2, <3>2
  <2> QED
    BY <2>1, <2>2
<1>10. Overlaid(ptab', h') = IF i.op = "sw" /\ a \in ValidAddrs /\ ~ bugcompat THEN [M EXCEPT ![a] = v] ELSE M
  <2> DEFINE N == Overlaid(ptab', h')
             c == i.op = "sw" /\ a \in ValidAddrs /\ ~ bugcompat
  <2>1. \A b \in 0 .. WORD - 1 : M[b] = Seen(ptab, h, b) /\ N[b] = Seen(ptab', h', b) /\ b \in Nat
    BY WordAssumption DEF Overlaid
  <2>2. M = [b \in 0 .. WORD - 1 |-> M[b]] /\ N = [b \in 0 .. WORD - 1 |-> N[b]]
    BY DEF Overlaid
  <2>3. \A b \in 0 .. WORD - 1 : N[b] = IF c /\ b = a THEN v ELSE M[b]
    <3> HIDE DEF M, N, a, v
    <3> QED
      BY <1>9, <2>1
  <2>4. a \in 0 .. WORD - 1
    BY <1>1
  <2>5. CASE c
    <3> HIDE DEF M, N, a, v
    <3>1. N = [M EXCEPT ![a] = v]
      BY <2>2, <2>3, <2>4, <2>5, OneChanged
    <3> QED
      BY <2>5, <3>1 DEF N
  <2>6. CASE ~ c
    <3> HIDE DEF M, N, a, v
    <3>1. N = M
      BY <2>2, <2>3, <2>4, <2>6, OneChanged
    <3> QED
      BY <2>6, <3>1 DEF N
  <2> QED
    BY <2>5, <2>6
<1>11. WrongView.regs = GPR /\ WrongView.memory = M /\ WrongView' = [regs |-> GPR', memory |-> Overlaid(ptab', h')]
  BY ViewsAre
<1>12. a = EffAddr(i, GPR) /\ Value(i, pc) = Result(i, pc, GPR, Loaded(i))
  BY DEF Address, Value
<1> HIDE DEF a, M
<1>13. Program!Executed(GPR, M, i, pc, TRUE) =
         [regs |-> IF WritesReg(i) /\ Dest(i) # 0 THEN [GPR EXCEPT ![Dest(i)] = Value(i, pc)] ELSE GPR,
          memory |-> IF i.op = "sw" /\ a \in ValidAddrs /\ ~ bugcompat THEN [M EXCEPT ![a] = v] ELSE M]
  BY <1>6, <1>7, <1>12 DEF Program!Executed, Program!EffAddr, EffAddr, Program!Result, Result,
       Program!WritesReg, WritesReg, Program!Dest, Dest, Program!RA, RA
<1> QED
  BY <1>3, <1>4, <1>8, <1>10, <1>11, <1>13

-----------------------------------------------------------------------------
\* The variables of the program.
Copy == IF spec_mode THEN WrongView ELSE NoView

\* Machine stutters when none of these changes.
LEMMA ProgramVars ==
  /\ UNCHANGED <<code, config, Reset(regs), FlatMemory, PathPC, Copy>> => UNCHANGED Program!vars
  /\ Program!NoCopy = NoView
BY DEF Program!vars, Program!NoCopy, NoView, Copy, Reset

\* A wrong path always has a view.
LEMMA ViewThere == WrongView # NoView /\ WrongView' # NoView
<1>1. WrongView.regs = GPR /\ WrongView'.regs = GPR' /\ NoView.regs = <<>>
  BY ViewsAre DEF NoView
<1>2. 0 \in DOMAIN GPR /\ 0 \in DOMAIN GPR' /\ 0 \notin DOMAIN <<>>
  BY RegisterTypes DEF GPR
<1> QED
  BY <1>1, <1>2

\* A step that leaves registers, memory and the copy alone, and goes on at the same place.
LEMMA NothingRun ==
  ASSUME UNCHANGED <<code, config, regs, spec_regs, use_spec_R, ptab, store_htable, spec_mode>>,
         PathPC' = PathPC
  PROVE  UNCHANGED Program!vars
<1>1. FlatMemory' = FlatMemory /\ WrongView' = WrongView /\ Reset(regs)' = Reset(regs)
  BY DEF FlatMemory, WrongView, GPR, Reset
<1>2. Copy' = Copy
  BY <1>1 DEF Copy, NoView
<1> QED
  BY <1>1, <1>2, ProgramVars

\* A fetch is no step of the program: the correct path goes on where it did.
LEMMA FetchRuns == ASSUME TypeOK, ProgramInvariant, Fetch PROVE UNCHANGED Program!vars
<1>1. /\ fetch_data' = Append(fetch_data, NewFetched) /\ fetch_data \in Seq(Fetched) /\ NewFetched \in Fetched
      /\ NewFetched.PC = fetch_pred_PC
      /\ UNCHANGED <<code, config, regs, spec_regs, use_spec_R, ptab, store_htable, spec_mode, recover_PC>>
  <2>1. NewFetched.PC = fetch_pred_PC
    BY DEF NewFetched
  <2> QED
    BY <2>1, FetchIs DEF Fetch, machVars, TypeOK
<1>2. /\ Len(fetch_data') = Len(fetch_data) + 1 /\ fetch_data'[Len(fetch_data) + 1] = NewFetched
      /\ \A k \in 1 .. Len(fetch_data) : fetch_data'[k] = fetch_data[k]
      /\ Len(fetch_data) \in Nat /\ fetch_data' \in Seq(Fetched)
  BY <1>1, AppendIs
<1>3. fetch_data' # <<>> /\ Head(fetch_data') = fetch_data'[1]
  BY <1>2
<1>4. PathPC' = PathPC
  <2>1. CASE spec_mode
    BY <1>1, <2>1 DEF PathPC
  <2>2. CASE ~ spec_mode /\ fetch_data = <<>>
    <3>1. Len(fetch_data) = 0
      BY <2>2
    <3> QED
      BY <1>1, <1>2, <1>3, <2>2, <3>1 DEF PathPC
  <2>3. CASE ~ spec_mode /\ fetch_data # <<>>
    <3>1. 1 \in 1 .. Len(fetch_data) /\ Head(fetch_data) = fetch_data[1]
      BY <1>1, <2>3
    <3> QED
      BY <1>1, <1>2, <1>3, <2>3, <3>1 DEF PathPC
  <2> QED
    BY <2>1, <2>2, <2>3
<1> QED
  BY <1>1, <1>4, NothingRun

\* A commit is no step of the program.
LEMMA CommitRuns == ASSUME Commit PROVE UNCHANGED Program!vars
<1>1. UNCHANGED <<code, config, regs, spec_regs, use_spec_R, ptab, store_htable, spec_mode, recover_PC,
                  fetch_data, fetch_pred_PC>>
  BY DEF Commit, machVars
<1> QED
  BY <1>1, NothingRun DEF PathPC

\* A write-back is no step of the program, unless it recovers from a wrong path.
LEMMA WritebackRuns ==
  ASSUME TypeOK, ProgramInvariant, Writeback
  PROVE  Program!Recover \/ UNCHANGED Program!vars
<1>1. PICK k \in 1 .. Len(window) :
        LET e == window[k]
        IN  /\ ~ e.completed
            /\ e.recover => Recover(e)
            /\ ~ e.recover => UNCHANGED <<spec_mode, use_spec_R, store_htable, fetch_data, fetch_pred_PC>>
            /\ UNCHANGED <<config, code, regs, spec_regs, ptab, recover_PC>>
  BY WritebackIs
<1>2. CASE window[k].recover
  <2>1. /\ spec_mode' = FALSE /\ fetch_data' = <<>> /\ fetch_pred_PC' = recover_PC
        /\ UNCHANGED <<config, code, regs, ptab>>
    BY <1>1, <1>2 DEF Recover
  <2>2. spec_mode
    <3>1. Pending(k)
      BY <1>1, <1>2 DEF Pending
    <3> QED
      BY <3>1 DEF ProgramInvariant, OneRecovery
  <2>3. PathPC' = PathPC
    BY <2>1, <2>2 DEF PathPC
  <2>4. FlatMemory' = FlatMemory
    BY <2>1 DEF FlatMemory
  <2> QED
    BY <2>1, <2>2, <2>3, <2>4, ViewThere, ProgramVars DEF Program!Recover, NoView
<1>3. CASE ~ window[k].recover
  <2>1. UNCHANGED <<code, config, regs, spec_regs, use_spec_R, ptab, store_htable, spec_mode, recover_PC,
                    fetch_data, fetch_pred_PC>>
    BY <1>1, <1>3
  <2> QED
    BY <2>1, NothingRun DEF PathPC
<1> QED
  BY <1>2, <1>3

\* A dispatch is a step of the program or of its wrong path.
LEMMA DispatchRuns ==
  ASSUME TypeOK, ProgramInvariant, Dispatch
  PROVE  Program!Step \/ Program!WrongStep \/ UNCHANGED Program!vars
<1> DEFINE f == fetch_data[1]
           i == InstOf(code, f.PC)
<1>1. /\ Len(fetch_data) > 0 /\ f \in Fetched /\ i \in Instructions /\ f.PC \in Nat
      /\ Execute(i, f.PC)
      /\ IF Misfetched(f, i)
         THEN fetch_data' = <<>> /\ fetch_pred_PC' = NextOf(f)
         ELSE fetch_data' = Tail(fetch_data) /\ UNCHANGED fetch_pred_PC
      /\ spec_mode' = (spec_mode \/ Mispredicted(f))
      /\ recover_PC' = IF Mispredicted(f) THEN NextOf(f) ELSE recover_PC
      /\ UNCHANGED <<config, code>>
      /\ fetch_data \in Seq(Fetched)
  BY DispatchIs DEF TypeOK
<1>2. WrongTables /\ QueueFollows
  BY DEF ProgramInvariant
<1>3. Head(fetch_data) = f /\ fetch_data # <<>> /\ Len(fetch_data) \in Nat /\ Len(fetch_data) > 0
  BY <1>1
<1>4. CASE ~ spec_mode
  <2>1. PathPC = f.PC
    BY <1>3, <1>4 DEF PathPC
  <2>2. PathPC' = NextOf(f)
    <3>1. CASE Mispredicted(f)
      BY <1>1, <3>1 DEF PathPC
    <3>2. CASE Misfetched(f, i)
      <4>1. ~ Mispredicted(f)
        BY <3>2 DEF Mispredicted
      <4> QED
        BY <1>1, <1>4, <3>2, <4>1 DEF PathPC
    <3>3. CASE ~ Mispredicted(f) /\ ~ Misfetched(f, i)
      <4>1. f.pred_PC = NextOf(f)
        BY <1>4, <3>3 DEF Mispredicted
      <4>2. /\ Len(fetch_data') = Len(fetch_data) - 1 /\ fetch_data' \in Seq(Fetched)
            /\ \A k \in 1 .. Len(fetch_data) - 1 : fetch_data'[k] = fetch_data[k + 1]
        BY <1>1, <3>3, TailIs
      <4>3. CASE Len(fetch_data) = 1
        <5>1. fetch_data' = <<>> /\ f.pred_PC = fetch_pred_PC
          BY <1>2, <4>2, <4>3 DEF QueueFollows
        <5> QED
          BY <1>1, <1>4, <3>3, <4>1, <5>1 DEF PathPC
      <4>4. CASE Len(fetch_data) > 1
        <5>1. f.pred_PC = fetch_data[2].PC
          BY <1>2, <1>3, <4>4 DEF QueueFollows
        <5>2. fetch_data' # <<>> /\ Head(fetch_data') = fetch_data[2]
          BY <1>3, <4>2, <4>4
        <5> QED
          BY <1>1, <1>4, <3>3, <4>1, <5>1, <5>2 DEF PathPC
      <4>5. Len(fetch_data) = 1 \/ Len(fetch_data) > 1
        <5> DEFINE n == Len(fetch_data)
        <5>1. n \in Nat /\ n > 0
          BY <1>3
        <5> HIDE DEF n
        <5>2. n = 1 \/ n > 1
          BY ONLY <5>1
        <5> QED
          BY <5>2 DEF n
      <4> QED
        BY <4>3, <4>4, <4>5
    <3> QED
      BY <3>1, <3>2, <3>3
  <2>3. Program!Executed(Reset(regs), FlatMemory, i, f.PC, FALSE) =
          [regs |-> Reset(regs'), memory |-> FlatMemory']
    BY <1>1, <1>2, <1>4, ExecuteRight
  <2>4. Program!InstOf(code, f.PC) = i
    BY DEF Program!InstOf, InstOf, Program!InText, InText, Program!NOP, NOP
  <2>5. GPR = Reset(regs) /\ use_spec_R = {} /\ \A a \in Nat : ~ Copied(store_htable, a)
    <3>1. use_spec_R = {} /\ \A a \in Nat : ~ Copied(store_htable, a)
      BY <1>2, <1>4 DEF WrongTables
    <3> QED
      BY <3>1, NothingOwn, ViewsAre DEF TypeOK
  <2>6. Program!NextPC(code, i, f.PC, Reset(regs)) = NextOf(f)
    BY <2>5 DEF NextOf, Program!NextPC, NextPC, Program!Behind, Behind, Program!InText, InText
  <2>7. IF spec_mode' THEN Program!IsCtrl(i) /\ WrongView' = [regs |-> Reset(regs'), memory |-> FlatMemory']
        ELSE TRUE
    <3>1. CASE spec_mode'
      <4>1. Mispredicted(f)
        BY <1>1, <1>4, <3>1
      <4>2. IsCtrl(i)
        BY <1>2, <4>1, OnlyBranches
      <4>3. regs' \in [Regs -> Nat] /\ use_spec_R' = {} /\ store_htable' = store_htable
        BY <1>1, <1>4, <2>5, ExecuteIs, ExecuteType
      <4>4. GPR' = Reset(regs') /\ Overlaid(ptab', store_htable') = Flat(ptab')
        BY <2>5, <4>3, NothingOwn, ViewsAre
      <4> QED
        BY <4>2, <4>4, ViewsAre DEF Program!IsCtrl, IsCtrl
    <3> QED
      BY <3>1
  <2>8. Program!Step
    <3> DEFINE next == Program!Executed(Reset(regs), FlatMemory, i, f.PC, FALSE)
    <3>0. next = [regs |-> Reset(regs'), memory |-> FlatMemory']
      BY <2>3, Zenon
    <3>1. \/ ~ spec_mode'
          \/ spec_mode' /\ Program!IsCtrl(i) /\ WrongView' = next
      BY <2>7, <3>0
    <3> HIDE DEF next
    <3>2. next.regs = Reset(regs') /\ next.memory = FlatMemory'
      BY <3>0
    <3> HIDE DEF i, f
    <3> QED
      BY <1>1, <1>4, <2>1, <2>2, <2>4, <2>6, <3>1, <3>2, ProgramVars DEF Program!Step, Reset, next, NoView
  <2> QED
    BY <2>8
<1>5. CASE spec_mode
  <2>1. /\ Program!Executed(WrongView.regs, WrongView.memory, i, f.PC, TRUE) = WrongView'
        /\ Reset(regs') = Reset(regs) /\ FlatMemory' = FlatMemory
    BY <1>1, <1>2, <1>5, ExecuteWrong
  <2>2. spec_mode' /\ PathPC' = PathPC
    BY <1>1, <1>5 DEF Mispredicted, PathPC
  <2>3. CASE InText(code, f.PC)
    <3>1. f.PC - 1 \in DOMAIN code /\ code[f.PC - 1] = i /\ (f.PC - 1) + 1 = f.PC
      BY <1>1, <2>3 DEF InText, InstOf
    <3>2. \E wpc \in DOMAIN code :
            WrongView' = Program!Executed(WrongView.regs, WrongView.memory, code[wpc], wpc + 1, TRUE)
      BY <2>1, <3>1
    <3>3. Program!WrongStep
      BY <1>1, <1>5, <2>1, <2>2, <3>2, ViewThere, ProgramVars DEF Program!WrongStep, Reset
    <3> QED
      BY <3>3
  <2>4. CASE ~ InText(code, f.PC)
    <3>1. i = NOP
      BY <2>4 DEF InstOf
    <3>2. WrongView' = WrongView
      <4>1. ~ WritesReg(i) /\ i.op # "sw"
        BY <3>1 DEF NOP, WritesReg
      <4> QED
        BY <2>1, <4>1, ViewsAre DEF Program!Executed, Program!WritesReg, WritesReg
    <3>3. Copy' = Copy
      BY <1>5, <2>2, <3>2 DEF Copy
    <3>4. UNCHANGED <<code, config, Reset(regs), FlatMemory, PathPC, Copy>>
      BY <1>1, <2>1, <2>2, <3>3 DEF Reset
    <3> QED
      BY <3>4, ProgramVars
  <2> QED
    BY <2>3, <2>4
<1> QED
  BY <1>4, <1>5

\* The first state is one of the program.
LEMMA InitRuns == Init => Program!Init
<1> SUFFICES ASSUME Init PROVE Program!Init
  OBVIOUS
<1>1. PICK p \in Programs : code = p.text /\ regs = p.regs
  BY DEF Init
<1>2. [regs EXCEPT ![0] = 0] = p.regs
  <2>1. p.regs[0] = 0 /\ p.regs \in [Regs -> 0 .. WORD - 1]
    BY GeneratorAssumption
  <2> QED
    BY <1>1, <2>1, RegisterTypes
<1>3. FlatMemory = [a \in 0 .. WORD - 1 |-> 0]
  <2>1. \A a \in 0 .. WORD - 1 : MEM_READ(ptab, a) = 0
    BY EmptyMemory, WordAssumption DEF Init
  <2> QED
    BY <2>1 DEF FlatMemory
<1>4. PathPC = 2 /\ ~ spec_mode /\ config.bugcompat \in BOOLEAN
  BY GeneratorAssumption DEF Init, PathPC
<1> QED
  BY <1>1, <1>2, <1>3, <1>4, ProgramVars DEF Program!Init, Program!Addrs

\* The trace generator executes the program: every step of it is one of Machine, or none.
THEOREM ExecutesProgram == Spec => ImplementsMachine
<1>1. Init => TypeOK /\ ProgramInvariant /\ Program!Init
  BY InitTyped, ProgramInit, InitRuns
<1>2. TypeOK /\ ProgramInvariant /\ [Next]_vars => [Program!Next]_(Program!vars)
  <2> SUFFICES ASSUME TypeOK, ProgramInvariant, [Next]_vars PROVE [Program!Next]_(Program!vars)
    OBVIOUS
  <2>1. CASE UNCHANGED vars
    <3>1. UNCHANGED <<code, config, regs, spec_regs, use_spec_R, ptab, store_htable, spec_mode, recover_PC,
                      fetch_data, fetch_pred_PC>>
      BY <2>1 DEF vars, machVars
    <3> QED
      BY <3>1, NothingRun DEF PathPC
  <2>2. CASE Next
    BY <2>2, FetchRuns, DispatchRuns, WritebackRuns, CommitRuns DEF Next, Program!Next
  <2> QED
    BY <2>1, <2>2
<1>3. TypeOK /\ ProgramInvariant /\ [Next]_vars => TypeOK' /\ ProgramInvariant'
  BY NextTyped, ProgramNext
<1> QED
  BY <1>1, <1>2, <1>3, PTL DEF Spec, ImplementsMachine, Program!Spec

-----------------------------------------------------------------------------
\* A remainder is known from any division.
LEMMA Multiple == ASSUME NEW n \in Nat \ {0}, NEW z \in Int, z >= 1 PROVE n * z >= n
<1>1. z - 1 \in Nat /\ n * z = n * (z - 1) + n
  OBVIOUS
<1>2. n * (z - 1) >= 0
  BY <1>1
<1> QED
  BY <1>1, <1>2

\* Products of sums.
LEMMA Distributes ==
  ASSUME NEW n \in Int, NEW x \in Int, NEW y \in Int
  PROVE  n * (x + y) = n * x + n * y /\ n * (x - y) = n * x - n * y
BY SMT

\* Any division gives the remainder.
LEMMA RemainderUnique ==
  ASSUME NEW n \in Nat \ {0}, NEW x \in Int, NEW q \in Int, NEW t \in 0 .. n - 1, x = n * q + t
  PROVE  x % n = t
<1>1. PICK d \in Int, r \in 0 .. n - 1 : r = x % n /\ x = n * d + r
  BY DivMod
<1>2. n * (d - q) = t - r /\ n * (q - d) = r - t
  <2> DEFINE nd == n * d
             nq == n * q
  <2>1. n * (d - q) = nd - nq /\ n * (q - d) = nq - nd
    BY Distributes
  <2>2. nd \in Int /\ nq \in Int /\ x = nd + r /\ x = nq + t /\ r \in Int /\ t \in Int
    BY <1>1
  <2> HIDE DEF nd, nq
  <2>3. nd - nq = t - r /\ nq - nd = r - t
    BY ONLY <2>2
  <2> QED
    BY <2>1, <2>3
<1>3. ~ (d - q >= 1)
  <2>1. d - q \in Int /\ t - r < n
    BY <1>1
  <2> QED
    BY <1>2, <2>1, Multiple
<1>4. ~ (q - d >= 1)
  <2>1. q - d \in Int /\ r - t < n
    BY <1>1
  <2> QED
    BY <1>2, <2>1, Multiple
<1>5. d = q
  BY <1>3, <1>4
<1> QED
  BY <1>1, <1>5

\* The places of the stack may be added to.
LEMMA PlaceMoves ==
  ASSUME NEW a \in Int, NEW b \in Int, NEW c \in Int, SamePlace(a, b)
  PROVE  SamePlace(a + c, b + c)
<1> DEFINE n == retstack_size
<1>1. n \in Nat \ {0}
  BY TableSizes
<1> HIDE DEF n
<1>2. PICK d \in Int, r \in 0 .. n - 1 : r = a % n /\ a = n * d + r
  BY <1>1, DivMod
<1>3. PICK e \in Int, s \in 0 .. n - 1 : s = b % n /\ b = n * e + s
  BY <1>1, DivMod
<1>4. r = s
  BY <1>2, <1>3 DEF SamePlace, n
<1>5. PICK q \in Int, t \in 0 .. n - 1 : t = (r + c) % n /\ r + c = n * q + t
  <2> DEFINE x == r + c
  <2>1. x \in Int
    BY <1>2
  <2> HIDE DEF x
  <2>2. \E q \in Int, t \in 0 .. n - 1 : q = x \div n /\ t = x % n /\ x = n * q + t
    BY <1>1, <2>1, DivMod
  <2> QED
    BY <2>2 DEF x
<1>6. a + c = n * (d + q) + t /\ b + c = n * (e + q) + t /\ d + q \in Int /\ e + q \in Int
  <2> DEFINE nd == n * d
             nq == n * q
             ne == n * e
  <2>1. n * (d + q) = nd + nq /\ n * (e + q) = ne + nq
    BY <1>1, <1>2, <1>3, <1>5, Distributes
  <2>2. /\ nd \in Int /\ nq \in Int /\ ne \in Int /\ r \in Int /\ t \in Int
        /\ a = nd + r /\ b = ne + r /\ r + c = nq + t
    <3>1. nd \in Int /\ nq \in Int /\ ne \in Int
      BY <1>1
    <3>2. r \in Int /\ t \in Int
      BY <1>1, <1>2, <1>5
    <3>3. a = nd + r /\ b = ne + r
      BY <1>2, <1>3, <1>4
    <3>4. r + c = nq + t
      BY <1>5
    <3> QED
      BY <3>1, <3>2, <3>3, <3>4
  <2>3. d + q \in Int /\ e + q \in Int
    OBVIOUS
  <2> HIDE DEF nd, nq, ne
  <2>4. a + c = (nd + nq) + t /\ b + c = (ne + nq) + t
    BY ONLY <2>2, c \in Int
  <2> QED
    BY <2>1, <2>3, <2>4
<1>7. a + c \in Int /\ b + c \in Int
  OBVIOUS
<1>8. (a + c) % n = t
  BY <1>1, <1>5, <1>6, <1>7, RemainderUnique
<1>9. (b + c) % n = t
  BY <1>1, <1>5, <1>6, <1>7, RemainderUnique
<1> QED
  BY <1>8, <1>9 DEF SamePlace, n

\* A remainder is the same place of the stack.
LEMMA PlaceIs == ASSUME NEW a \in Int PROVE SamePlace(a % retstack_size, a) /\ a % retstack_size \in Int
<1> DEFINE n == retstack_size
           x == a % n
<1>1. n \in Nat \ {0}
  BY TableSizes
<1> HIDE DEF n
<1>2. x \in 0 .. n - 1
  BY <1>1, Remainder
<1> HIDE DEF x
<1>3. x % n = x /\ x \in Int
  BY <1>1, <1>2, SmallRemainder
<1> QED
  BY <1>3 DEF SamePlace, n, x

-----------------------------------------------------------------------------
\* What the branches of s at the places K do to the top of the stack.
Effect(class, text, s, k) == Moves(class, InstOf(text, s[k].PC))
Total(class, text, s, K) == Cardinality({k \in K : Effect(class, text, s, k) = 1})
                            - Cardinality({k \in K : Effect(class, text, s, k) = -1})

\* A branch moves the top by one at most.
LEMMA EffectIs == ASSUME NEW class, NEW text, NEW s, NEW k PROVE Effect(class, text, s, k) \in {-1, 0, 1}
BY DEF Effect, Moves

\* One more place adds what its branch does.
LEMMA TotalAdds ==
  ASSUME NEW class, NEW text, NEW s, NEW K, IsFiniteSet(K)
  PROVE  /\ Total(class, text, s, K) \in Int
         /\ \A x : x \notin K =>
              Total(class, text, s, K \cup {x}) = Total(class, text, s, K) + Effect(class, text, s, x)
<1> DEFINE Of(J, d) == {k \in J : Effect(class, text, s, k) = d}
<1>1. \A d : IsFiniteSet(Of(K, d)) /\ Cardinality(Of(K, d)) \in Nat
  <2> TAKE d
  <2>1. Of(K, d) \subseteq K
    OBVIOUS
  <2> HIDE DEF Of
  <2> QED
    BY <2>1, FS_Subset, FS_CardinalityType
<1>2. ASSUME NEW x, x \notin K, NEW d
      PROVE  Cardinality(Of(K \cup {x}, d)) = Cardinality(Of(K, d)) + IF Effect(class, text, s, x) = d THEN 1 ELSE 0
  <2>1. CASE Effect(class, text, s, x) = d
    <3>1. Of(K \cup {x}, d) = Of(K, d) \cup {x} /\ x \notin Of(K, d)
      BY <1>2, <2>1
    <3> HIDE DEF Of
    <3>2. Cardinality(Of(K, d) \cup {x}) = Cardinality(Of(K, d)) + 1
      BY <1>1, <3>1, FS_AddElement
    <3> QED
      BY <2>1, <3>1, <3>2
  <2>2. CASE Effect(class, text, s, x) # d
    <3>1. Of(K \cup {x}, d) = Of(K, d)
      BY <2>2
    <3> HIDE DEF Of
    <3>2. Cardinality(Of(K, d)) + 0 = Cardinality(Of(K, d))
      BY <1>1
    <3> QED
      BY <2>2, <3>1, <3>2
  <2> QED
    BY <2>1, <2>2
<1>3. \A J : Total(class, text, s, J) = Cardinality(Of(J, 1)) - Cardinality(Of(J, -1))
  BY DEF Total
<1> HIDE DEF Of
<1>4. Total(class, text, s, K) \in Int
  BY <1>1, <1>3
<1>5. ASSUME NEW x, x \notin K
      PROVE  Total(class, text, s, K \cup {x}) = Total(class, text, s, K) + Effect(class, text, s, x)
  <2> DEFINE p == Cardinality(Of(K, 1))
             m == Cardinality(Of(K, -1))
             p1 == Cardinality(Of(K \cup {x}, 1))
             m1 == Cardinality(Of(K \cup {x}, -1))
             e == Effect(class, text, s, x)
  <2>1. /\ p \in Nat /\ m \in Nat /\ e \in {-1, 0, 1}
        /\ p1 = p + (IF e = 1 THEN 1 ELSE 0) /\ m1 = m + (IF e = -1 THEN 1 ELSE 0)
    BY <1>1, <1>2, <1>5, EffectIs
  <2>2. Total(class, text, s, K \cup {x}) = p1 - m1 /\ Total(class, text, s, K) = p - m
    BY <1>3
  <2> HIDE DEF p, m, p1, m1, e
  <2>3. p1 - m1 = (p - m) + e
    BY <2>1
  <2> QED
    BY <2>2, <2>3 DEF e
<1> QED
  BY <1>4, <1>5

\* Only the addresses of the branches count.
LEMMA TotalSame ==
  ASSUME NEW class, NEW text, NEW s, NEW t, NEW K, \A k \in K : s[k].PC = t[k].PC
  PROVE  Total(class, text, s, K) = Total(class, text, t, K)
<1>1. \A d : {k \in K : Effect(class, text, s, k) = d} = {k \in K : Effect(class, text, t, k) = d}
  BY DEF Effect
<1> QED
  BY <1>1 DEF Total

\* Branches that do nothing add nothing.
LEMMA TotalZero ==
  ASSUME NEW class, NEW text, NEW s, NEW K, \A k \in K : Effect(class, text, s, k) = 0
  PROVE  Total(class, text, s, K) = 0
<1>1. {k \in K : Effect(class, text, s, k) = 1} = {} /\ {k \in K : Effect(class, text, s, k) = -1} = {}
  OBVIOUS
<1> QED
  BY <1>1, FS_EmptySet DEF Total

\* A queue that moved on by one place.
LEMMA TotalShift ==
  ASSUME NEW class, NEW text, NEW s, NEW t, NEW a \in Nat, NEW b \in Nat,
         \A k \in a .. b : t[k].PC = s[k + 1].PC
  PROVE  Total(class, text, t, a .. b) = Total(class, text, s, a + 1 .. b + 1)
<1> DEFINE T(d) == {k \in a .. b : Effect(class, text, t, k) = d}
           S(d) == {k \in a + 1 .. b + 1 : Effect(class, text, s, k) = d}
<1>1. ASSUME NEW d PROVE Cardinality(T(d)) = Cardinality(S(d))
  <2> DEFINE f == [k \in T(d) |-> k + 1]
  <2>1. IsFiniteSet(T(d))
    <3>1. IsFiniteSet(a .. b) /\ T(d) \subseteq a .. b
      BY FS_Interval
    <3> HIDE DEF T
    <3> QED
      BY <3>1, FS_Subset
  <2>2. \A k \in T(d) : k + 1 \in S(d)
    BY DEF Effect
  <2>3. \A k \in S(d) : k - 1 \in T(d) /\ (k - 1) + 1 = k
    <3> SUFFICES ASSUME NEW k \in S(d) PROVE k - 1 \in T(d) /\ (k - 1) + 1 = k
      OBVIOUS
    <3>1. k - 1 \in a .. b /\ (k - 1) + 1 = k
      OBVIOUS
    <3>2. t[k - 1].PC = s[k].PC
      BY <3>1
    <3> QED
      BY <3>1, <3>2 DEF Effect
  <2>4. f \in [T(d) -> S(d)]
    BY <2>2
  <2>5. f \in Bijection(T(d), S(d))
    <3>1. \A k, j \in T(d) : f[k] = f[j] => k = j
      OBVIOUS
    <3>2. \A k \in S(d) : \E j \in T(d) : f[j] = k
      BY <2>3
    <3> HIDE DEF T, S, f
    <3> QED
      BY <2>4, <3>1, <3>2 DEF Bijection, Injection, Surjection, IsInjective
  <2>6. ExistsBijection(T(d), S(d))
    BY <2>5 DEF ExistsBijection
  <2> HIDE DEF T, S, f
  <2> QED
    BY <2>1, <2>6, FS_Bijection
<1>2. Total(class, text, t, a .. b) = Cardinality(T(1)) - Cardinality(T(-1))
  BY DEF Total
<1>3. Total(class, text, s, a + 1 .. b + 1) = Cardinality(S(1)) - Cardinality(S(-1))
  BY DEF Total
<1> HIDE DEF T, S
<1> QED
  BY <1>1, <1>2, <1>3

-----------------------------------------------------------------------------
\* An update of the BTB enters no target of a direct branch but its own.
LEMMA UpdateKnows ==
  ASSUME PredTypeOK, NEW text, \A s \in 0 .. btb_sets - 1, w \in 1 .. btb_assoc : Knows(text, btb[s][w]),
         NEW baddr \in Nat, NEW class, NEW btarget \in Nat, NEW correct, NEW upd,
         IsDirect(InstOf(text, baddr)) => btarget \in {InstOf(text, baddr).imm, Behind(text, baddr)},
         bpred_update(class, text, baddr, InstOf(text, baddr), btarget, correct, upd) \/ UNCHANGED dirVars
  PROVE  \A s \in 0 .. btb_sets - 1, w \in 1 .. btb_assoc : Knows(text, btb'[s][w])
<1> DEFINE set == BtbSet(baddr)
           way == IF BtbWay(baddr) # 0 THEN BtbWay(baddr) ELSE btb_assoc
           e == Entered(set, way, baddr, btarget, correct)
           B == {x \in [addr : Nat, target : Nat] : Knows(text, x)}
           new == <<e>> \o RemoveAt(set, way)
           z == baddr % btb_sets
<1>1. \/ btb' = btb
      \/ btarget # Behind(text, baddr) /\ btb' = [btb EXCEPT ![z] = new]
  BY DEF bpred_update, dirVars
<1>2. z \in 0 .. btb_sets - 1 /\ btb_assoc \in Nat \ {0}
  BY TableSizes, Remainder
<1>3. set = btb[z] /\ set \in BtbSets /\ way \in 1 .. btb_assoc /\ btb \in [0 .. btb_sets - 1 -> BtbSets]
  <2>1. set \in BtbSets /\ BtbWay(baddr) \in 0 .. btb_assoc
    BY BtbWayIs
  <2>2. way \in 1 .. btb_assoc
    BY <1>2, <2>1
  <2> QED
    BY <2>1, <2>2 DEF PredTypeOK, BtbSet
<1> HIDE DEF z, way, set
<1>4. set \in [1 .. btb_assoc -> B]
  BY <1>2, <1>3 DEF BtbSets
<1>5. CASE btarget # Behind(text, baddr) /\ btb' = [btb EXCEPT ![z] = new]
  <2>1. e \in B
    <3>1. set[way] \in B
      BY <1>3, <1>4
    <3>2. [addr |-> baddr, target |-> btarget] \in B
      BY <1>5 DEF Knows
    <3> HIDE DEF B
    <3> QED
      BY <3>1, <3>2 DEF Entered
  <2> HIDE DEF e, B
  <2>2. new \in [1 .. btb_assoc -> B]
    BY <1>2, <1>3, <1>4, <2>1, EnteredSet
  <2> HIDE DEF new
  <2>3. \A w \in 1 .. btb_assoc : Knows(text, new[w])
    BY <2>2 DEF B
  <2>4. \A s \in 0 .. btb_sets - 1 : btb'[s] = IF s = z THEN new ELSE btb[s]
    BY <1>2, <1>3, <1>5
  <2> QED
    BY <2>3, <2>4
<1> QED
  BY <1>1, <1>5

\* What the BTB has for a direct branch.
LEMMA TargetKnown ==
  ASSUME PredTypeOK, DirectTargets, NEW pc \in Nat, IsDirect(InstOf(code, pc))
  PROVE  BtbTarget(pc) \in {1, InstOf(code, pc).imm}
<1>1. CASE BtbWay(pc) = 0
  BY <1>1 DEF BtbTarget
<1>2. CASE BtbWay(pc) # 0
  <2>1. BtbWay(pc) \in 1 .. btb_assoc /\ BtbSet(pc)[BtbWay(pc)].addr = pc
    BY <1>2, BtbWayIs, TableSizes
  <2>2. pc % btb_sets \in 0 .. btb_sets - 1
    BY TableSizes, Remainder
  <2>3. Knows(code, BtbSet(pc)[BtbWay(pc)])
    BY <2>1, <2>2 DEF DirectTargets, BtbSet
  <2> QED
    BY <1>2, <2>1, <2>3 DEF Knows, BtbTarget
<1> QED
  BY <1>1, <1>2

\* The three parts of DirectTargets.
KnownBtb    == \A s \in 0 .. btb_sets - 1, w \in 1 .. btb_assoc : Knows(code, btb[s][w])
KnownNext(e) == IsDirect(InstOf(code, e.PC)) => e.next_PC \in {InstOf(code, e.PC).imm, Behind(code, e.PC)}
KnownPred(f) == IsDirect(InstOf(code, f.PC)) => f.pred_PC \in {InstOf(code, f.PC).imm, Behind(code, f.PC), 1}

\* DirectTargets before and after a step.
LEMMA DirectIs ==
  ASSUME code' = code
  PROVE  /\ DirectTargets <=> /\ KnownBtb
                              /\ \A k \in 1 .. Len(window) : KnownNext(window[k])
                              /\ \A k \in 1 .. Len(fetch_data) : KnownPred(fetch_data[k])
         /\ DirectTargets' <=> /\ KnownBtb'
                               /\ \A k \in 1 .. Len(window') : KnownNext(window'[k])
                               /\ \A k \in 1 .. Len(fetch_data') : KnownPred(fetch_data'[k])
BY DEF DirectTargets, KnownBtb, KnownNext, KnownPred, Inst

\* No step predicts, or enters in the buffer, another target of a direct branch than its own.
LEMMA DirectStays ==
  ASSUME TypeOK, ProgramInvariant, DirectTargets, Next
  PROVE  DirectTargets'
<1>0. /\ fetch_data \in Seq(Fetched) /\ window \in Seq(InFlight) /\ PredTypeOK /\ code \in Seq(Instructions)
      /\ Len(window) \in Nat /\ Len(fetch_data) \in Nat
  BY DEF TypeOK
<1>1. code' = code
  <2>1. Writeback => code' = code
    BY WritebackIs
  <2> QED
    BY <2>1 DEF Next, Fetch, Dispatch, Commit
<1>2. /\ KnownBtb
      /\ \A k \in 1 .. Len(window) : KnownNext(window[k])
      /\ \A k \in 1 .. Len(fetch_data) : KnownPred(fetch_data[k])
  BY <1>1, DirectIs
<1>3. CASE Fetch
  <2>1. /\ NewFetched \in Fetched /\ fetch_data' = Append(fetch_data, NewFetched)
        /\ IsDirect(InstOf(code, fetch_pred_PC)) =>
             fetch_pred_PC' \in {Behind(code, fetch_pred_PC), BtbTarget(fetch_pred_PC)}
        /\ fetch_pred_PC \in Nat /\ UNCHANGED <<btb, window>>
    BY <1>3, FetchIs DEF Fetch, TypeOK, dirVars
  <2>2. KnownPred(NewFetched)
    BY <1>0, <2>1, TargetKnown DEF NewFetched, KnownPred
  <2>3. /\ Len(fetch_data') = Len(fetch_data) + 1 /\ fetch_data'[Len(fetch_data) + 1] = NewFetched
        /\ \A k \in 1 .. Len(fetch_data) : fetch_data'[k] = fetch_data[k]
    BY <1>0, <2>1, AppendIs
  <2>4. \A k \in 1 .. Len(fetch_data') : k \in 1 .. Len(fetch_data) \/ k = Len(fetch_data) + 1
    BY <1>0, <2>3
  <2>5. \A k \in 1 .. Len(fetch_data') : KnownPred(fetch_data'[k])
    BY <1>2, <2>2, <2>3, <2>4
  <2>6. KnownBtb' /\ \A k \in 1 .. Len(window') : KnownNext(window'[k])
    BY <1>1, <1>2, <2>1 DEF KnownBtb
  <2> QED
    BY <1>1, <2>5, <2>6, DirectIs
<1>4. CASE Dispatch
  <2> DEFINE f == fetch_data[1]
             i == InstOf(code, f.PC)
             e == Dispatched(f)
  <2>1. /\ Len(fetch_data) > 0 /\ f \in Fetched /\ f.PC \in Nat /\ i \in Instructions
        /\ NextOf(f) \in Nat /\ e \in InFlight
        /\ fetch_data' \in {<<>>, Tail(fetch_data)}
        /\ window' \in {Append(window, e), window}
        /\ \/ bpred_update(config.class, code, f.PC, i, NextOf(f), f.pred_PC = NextOf(f), f.upd)
           \/ UNCHANGED dirVars
    BY <1>4, DispatchIs
  <2>2. IsDirect(i) => NextOf(f) \in {i.imm, Behind(code, f.PC)}
    BY <2>1, GprType, ExecutionTypes DEF NextOf
  <2>3. KnownNext(e)
    BY <2>2 DEF KnownNext, Dispatched
  <2>4. KnownBtb'
    BY <1>0, <1>1, <1>2, <2>1, <2>2, UpdateKnows DEF KnownBtb
  <2> HIDE DEF f, e
  <2>5. \A k \in 1 .. Len(window') : KnownNext(window'[k])
    <3>1. CASE window' = window
      BY <1>2, <3>1
    <3>2. CASE window' = Append(window, e)
      <4>1. /\ Len(window') = Len(window) + 1 /\ window'[Len(window) + 1] = e
            /\ \A k \in 1 .. Len(window) : window'[k] = window[k]
        BY <1>0, <2>1, <3>2, AppendIs
      <4>2. \A k \in 1 .. Len(window') : k \in 1 .. Len(window) \/ k = Len(window) + 1
        BY <1>0, <4>1
      <4> QED
        BY <1>2, <2>3, <4>1, <4>2
    <3> QED
      BY <2>1, <3>1, <3>2
  <2>6. \A k \in 1 .. Len(fetch_data') : KnownPred(fetch_data'[k])
    <3>1. CASE fetch_data' = <<>>
      BY <3>1
    <3>2. CASE fetch_data' = Tail(fetch_data)
      <4>1. /\ Len(fetch_data') = Len(fetch_data) - 1
            /\ \A k \in 1 .. Len(fetch_data) - 1 : fetch_data'[k] = fetch_data[k + 1]
                                                /\ k + 1 \in 1 .. Len(fetch_data)
        BY <1>0, <2>1, <3>2, TailIs
      <4> QED
        BY <1>2, <4>1
    <3> QED
      BY <2>1, <3>1, <3>2
  <2> QED
    BY <1>1, <2>4, <2>5, <2>6, DirectIs
<1>5. CASE Writeback
  <2>1. PICK k \in 1 .. Len(window) :
          LET e == window[k]
          IN  /\ e \in InFlight
              /\ e.recover => Len(window') = k /\ Recover(e)
              /\ ~ e.recover => Len(window') = Len(window) /\ UNCHANGED fetch_data
              /\ \A j \in 1 .. Len(window') :
                   window'[j] = IF j = k THEN [window[j] EXCEPT !.completed = TRUE] ELSE window[j]
              /\ \/ bpred_update(config.class, code, e.PC, Inst(e), e.next_PC, e.pred_PC = e.next_PC, e.upd)
                 \/ UNCHANGED dirVars
    BY <1>5, WritebackIs
  <2> DEFINE e == window[k]
  <2>2. KnownBtb'
    <3>1. e.PC \in Nat /\ e.next_PC \in Nat /\ KnownNext(e)
      BY <1>2, <2>1 DEF InFlight
    <3> QED
      BY <1>0, <1>1, <1>2, <2>1, <3>1, UpdateKnows DEF KnownBtb, KnownNext, Inst
  <2>3. \A j \in 1 .. Len(window') : j \in 1 .. Len(window)
    BY <1>0, <2>1
  <2>4. \A j \in 1 .. Len(window') : window'[j].PC = window[j].PC /\ window'[j].next_PC = window[j].next_PC
    <3>1. [e EXCEPT !.completed = TRUE].PC = e.PC /\ [e EXCEPT !.completed = TRUE].next_PC = e.next_PC
      BY <2>1 DEF InFlight
    <3> QED
      BY <2>1, <3>1
  <2>5. \A j \in 1 .. Len(window') : KnownNext(window'[j])
    BY <1>2, <2>3, <2>4 DEF KnownNext
  <2>6. \A j \in 1 .. Len(fetch_data') : KnownPred(fetch_data'[j])
    <3>1. fetch_data' = fetch_data \/ fetch_data' = <<>>
      BY <2>1 DEF Recover
    <3>2. CASE fetch_data' = <<>>
      BY <3>2
    <3> QED
      BY <1>2, <3>1, <3>2
  <2> QED
    BY <1>1, <2>2, <2>5, <2>6, DirectIs
<1>6. CASE Commit
  <2>1. /\ Len(window) > 0 /\ window[1] \in InFlight /\ window' = Tail(window) /\ fetch_data' = fetch_data
        /\ \/ bpred_update(config.class, code, window[1].PC, Inst(window[1]), window[1].next_PC,
                           window[1].pred_PC = window[1].next_PC, window[1].upd)
           \/ UNCHANGED dirVars
    BY <1>6, CommitIs
  <2>2. KnownBtb'
    <3>1. window[1].PC \in Nat /\ window[1].next_PC \in Nat /\ KnownNext(window[1])
      BY <1>0, <1>2, <2>1 DEF InFlight
    <3> QED
      BY <1>0, <1>1, <1>2, <2>1, <3>1, UpdateKnows DEF KnownBtb, KnownNext, Inst
  <2>3. /\ Len(window') = Len(window) - 1
        /\ \A k \in 1 .. Len(window) - 1 : window'[k] = window[k + 1] /\ k + 1 \in 1 .. Len(window)
    BY <1>0, <2>1, TailIs
  <2>4. \A k \in 1 .. Len(window') : KnownNext(window'[k])
    BY <1>2, <2>3
  <2> QED
    BY <1>1, <1>2, <2>1, <2>2, <2>4, DirectIs
<1> QED
  BY <1>3, <1>4, <1>5, <1>6 DEF Next

-----------------------------------------------------------------------------
\* There is nothing at the address 1.
LEMMA NothingAtOne == ASSUME TypeOK PROVE InstOf(code, 1) = NOP /\ ~ IsCtrl(NOP) /\ Behind(code, 1) = 1
<1>1. ~ InText(code, 1)
  BY DEF TypeOK, InText
<1> QED
  BY <1>1 DEF InstOf, Behind, NOP, IsCtrl

\* Behind a target that is not known nothing but address 1 is fetched.
LEMMA NowhereStaysSo ==
  ASSUME TypeOK, ProgramInvariant, NowhereStays, Next
  PROVE  NowhereStays'
<1>0. fetch_data \in Seq(Fetched) /\ Len(fetch_data) \in Nat
  BY DEF TypeOK
<1>1. CASE UNCHANGED <<fetch_data, fetch_pred_PC>>
  BY <1>1 DEF NowhereStays
<1>2. CASE fetch_data' = <<>>
  BY <1>2 DEF NowhereStays
<1>3. CASE Fetch
  <2>1. /\ NewFetched \in Fetched /\ fetch_data' = Append(fetch_data, NewFetched)
        /\ ~ IsCtrl(InstOf(code, fetch_pred_PC)) => fetch_pred_PC' = Behind(code, fetch_pred_PC)
    BY <1>3, FetchIs
  <2>2. /\ Len(fetch_data') = Len(fetch_data) + 1 /\ fetch_data'[Len(fetch_data) + 1] = NewFetched
        /\ \A k \in 1 .. Len(fetch_data) : fetch_data'[k] = fetch_data[k]
    BY <1>0, <2>1, AppendIs
  <2>3. NewFetched.PC = fetch_pred_PC /\ NewFetched.pred_PC = fetch_pred_PC'
    BY DEF NewFetched
  <2>4. \A k \in 1 .. Len(fetch_data') : k \in 1 .. Len(fetch_data) \/ k = Len(fetch_data) + 1
    BY <1>0, <2>2
  <2>5. fetch_pred_PC = 1 => fetch_pred_PC' = 1
    BY <2>1, NothingAtOne
  <2>6. ASSUME NEW j \in 1 .. Len(fetch_data'), fetch_data'[j].pred_PC = 1
        PROVE  fetch_pred_PC' = 1 /\ \A k \in j + 1 .. Len(fetch_data') : fetch_data'[k].PC = 1
    <3>1. CASE j \in 1 .. Len(fetch_data)
      <4>1. fetch_pred_PC = 1 /\ \A k \in j + 1 .. Len(fetch_data) : fetch_data[k].PC = 1
        BY <2>2, <2>6, <3>1 DEF NowhereStays
      <4>2. ASSUME NEW k \in j + 1 .. Len(fetch_data') PROVE fetch_data'[k].PC = 1
        <5>1. CASE k \in j + 1 .. Len(fetch_data)
          <6>1. k \in 1 .. Len(fetch_data)
            BY <1>0, <3>1, <5>1
          <6> QED
            BY <2>2, <4>1, <5>1, <6>1
        <5>2. CASE k = Len(fetch_data) + 1
          BY <2>2, <2>3, <4>1, <5>2
        <5> QED
          BY <1>0, <2>2, <3>1, <5>1, <5>2
      <4> QED
        BY <2>5, <4>1, <4>2
    <3>2. CASE j = Len(fetch_data) + 1
      BY <1>0, <2>2, <2>3, <2>6, <3>2
    <3> QED
      BY <2>4, <3>1, <3>2
  <2> QED
    BY <2>6 DEF NowhereStays
<1>4. CASE Dispatch
  <2>1. /\ Len(fetch_data) > 0
        /\ fetch_data' = <<>> \/ (fetch_data' = Tail(fetch_data) /\ fetch_pred_PC' = fetch_pred_PC)
    BY <1>4, DispatchIs
  <2>2. CASE fetch_data' = Tail(fetch_data) /\ fetch_pred_PC' = fetch_pred_PC
    <3>1. /\ Len(fetch_data') = Len(fetch_data) - 1
          /\ \A k \in 1 .. Len(fetch_data) - 1 : fetch_data'[k] = fetch_data[k + 1] /\ k + 1 \in 1 .. Len(fetch_data)
      BY <1>0, <2>1, <2>2, TailIs
    <3>2. ASSUME NEW j \in 1 .. Len(fetch_data'), fetch_data'[j].pred_PC = 1
          PROVE  fetch_pred_PC' = 1 /\ \A k \in j + 1 .. Len(fetch_data') : fetch_data'[k].PC = 1
      <4>1. fetch_data[j + 1].pred_PC = 1 /\ j + 1 \in 1 .. Len(fetch_data)
        BY <3>1, <3>2
      <4>2. fetch_pred_PC = 1 /\ \A k \in (j + 1) + 1 .. Len(fetch_data) : fetch_data[k].PC = 1
        BY <4>1 DEF NowhereStays
      <4>3. ASSUME NEW k \in j + 1 .. Len(fetch_data') PROVE fetch_data'[k].PC = 1
        <5>1. k + 1 \in (j + 1) + 1 .. Len(fetch_data) /\ k \in 1 .. Len(fetch_data) - 1
          BY <1>0, <3>1
        <5> QED
          BY <3>1, <4>2, <5>1
      <4> QED
        BY <2>2, <4>2, <4>3
    <3> QED
      BY <3>2 DEF NowhereStays
  <2> QED
    BY <1>2, <2>1, <2>2
<1>5. CASE Writeback
  <2>1. UNCHANGED <<fetch_data, fetch_pred_PC>> \/ fetch_data' = <<>>
    BY <1>5, WritebackIs DEF Recover
  <2> QED
    BY <1>1, <1>2, <2>1
<1>6. CASE Commit
  BY <1>1, <1>6 DEF Commit
<1> QED
  BY <1>3, <1>4, <1>5, <1>6 DEF Next

-----------------------------------------------------------------------------
\* Stack tops in terms of Total.
Tot(s, K) == Total(config.class, code, s, K)
Off(f)    == Moves(config.class, InstOf(code, f.PC))
Top(t, w, W, s) == t - Tot(w, W) - Tot(s, 1 .. Len(s))

\* Deltas, PathTop and Delta in these terms.
LEMMA TopsAre ==
  /\ \A s, K : Deltas(s, K) = Tot(s, K)
  /\ PathTop = Top(tos, window, WrongPath, fetch_data)
  /\ \A f : Delta(f.PC) = Off(f)
BY DEF Deltas, Tot, Total, Effect, Moves, Delta, PathTop, Top, Off

\* The same, after a step.
LEMMA TopsBecome ==
  ASSUME UNCHANGED <<config, code>>
  PROVE  /\ PathTop' = Top(tos', window', WrongPath', fetch_data')
         /\ \A j : Deltas(fetch_data, j .. Len(fetch_data))' = Tot(fetch_data', j .. Len(fetch_data'))
         /\ \A pc : Delta(pc)' = Delta(pc)
BY DEF Deltas, Tot, Total, Effect, Moves, Delta, PathTop, Top

\* The wrong path is a finite set of places of the window.
LEMMA WrongPathFinite == ASSUME TypeOK PROVE IsFiniteSet(WrongPath) /\ WrongPath \subseteq 1 .. Len(window)
<1>1. IsFiniteSet(1 .. Len(window)) /\ WrongPath \subseteq 1 .. Len(window)
  BY FS_Interval DEF WrongPath, TypeOK
<1> QED
  BY <1>1, FS_Subset

\* Totals are integers, and so is the top.
LEMMA TopTypes ==
  ASSUME TypeOK
  PROVE  /\ tos \in Int /\ depth \in Int /\ Tot(window, WrongPath) \in Int
         /\ \A j \in Int : Tot(fetch_data, j .. Len(fetch_data)) \in Int
         /\ PathTop \in Int
         /\ \A f : Off(f) \in {-1, 0, 1}
<1>1. Tot(window, WrongPath) \in Int
  BY WrongPathFinite, TotalAdds DEF Tot
<1>2. \A j \in Int : Tot(fetch_data, j .. Len(fetch_data)) \in Int
  <2> TAKE j \in Int
  <2>1. IsFiniteSet(j .. Len(fetch_data))
    BY FS_Interval DEF TypeOK
  <2> QED
    BY <2>1, TotalAdds DEF Tot
<1>3. tos \in Int /\ depth \in Int
  BY TableSizes DEF TypeOK, PredTypeOK
<1>4. PathTop \in Int
  BY <1>1, <1>2, <1>3, TopsAre DEF Top
<1> QED
  BY <1>1, <1>2, <1>3, <1>4 DEF Off, Moves

\* One more at the end of a sequence of branches.
LEMMA TotAppend ==
  ASSUME NEW S, NEW s \in Seq(S), NEW x \in S, NEW j \in 1 .. Len(s) + 1
  PROVE  /\ Tot(Append(s, x), j .. Len(s) + 1) = Tot(s, j .. Len(s)) + Off(x)
         /\ Tot(s, j .. Len(s)) \in Int
<1> DEFINE n == Len(s)
           t == Append(s, x)
           K == j .. n
<1>1. n \in Nat /\ t[n + 1] = x /\ \A k \in 1 .. n : t[k] = s[k]
  BY AppendIs
<1>2. j .. n + 1 = K \cup {n + 1} /\ n + 1 \notin K /\ \A k \in K : k \in 1 .. n
  BY <1>1
<1>3. IsFiniteSet(K)
  BY <1>1, FS_Interval
<1> HIDE DEF n, t, K
<1>4. Tot(t, K \cup {n + 1}) = Tot(t, K) + Effect(config.class, code, t, n + 1)
  BY <1>2, <1>3, TotalAdds DEF Tot
<1>5. Tot(t, K) = Tot(s, K)
  <2>1. \A k \in K : t[k].PC = s[k].PC
    BY <1>1, <1>2
  <2> QED
    BY <2>1, TotalSame DEF Tot
<1>6. Effect(config.class, code, t, n + 1) = Off(x)
  BY <1>1 DEF Effect, Off
<1>7. Tot(s, K) \in Int
  BY <1>3, TotalAdds DEF Tot
<1> QED
  BY <1>2, <1>4, <1>5, <1>6, <1>7 DEF n, t, K

\* One less at its beginning.
LEMMA TotTail ==
  ASSUME NEW S, NEW s \in Seq(S), Len(s) > 0
  PROVE  /\ \A j \in 1 .. Len(s) : Tot(Tail(s), j .. Len(s) - 1) = Tot(s, j + 1 .. Len(s))
         /\ Tot(s, 1 .. Len(s)) = Tot(s, 2 .. Len(s)) + Off(s[1])
         /\ Tot(s, 2 .. Len(s)) \in Int
<1> DEFINE n == Len(s)
           t == Tail(s)
<1>1. n \in Nat /\ n > 0 /\ \A k \in 1 .. n - 1 : t[k] = s[k + 1]
  BY TailIs
<1> HIDE DEF n, t
<1>2. ASSUME NEW j \in 1 .. n PROVE Tot(t, j .. n - 1) = Tot(s, j + 1 .. n)
  <2>1. \A k \in j .. n - 1 : t[k].PC = s[k + 1].PC
    <3>1. \A k \in j .. n - 1 : k \in 1 .. n - 1
      BY <1>1
    <3> QED
      BY <1>1, <3>1
  <2>2. j \in Nat /\ n - 1 \in Nat /\ (n - 1) + 1 = n
    BY <1>1
  <2>3. Tot(t, j .. n - 1) = Tot(s, j + 1 .. (n - 1) + 1)
    BY <2>1, <2>2, TotalShift DEF Tot
  <2> QED
    BY <2>2, <2>3
<1> DEFINE K == 2 .. n
<1>3. 1 .. n = K \cup {1} /\ 1 \notin K /\ IsFiniteSet(K)
  <2>1. 1 .. n = K \cup {1} /\ 1 \notin K
    BY ONLY <1>1
  <2>2. IsFiniteSet(K)
    <3>1. n \in Int /\ 2 \in Int
      BY <1>1
    <3> QED
      BY ONLY <3>1, FS_Interval
  <2> QED
    BY <2>1, <2>2
<1> HIDE DEF K
<1>4. Tot(s, K) \in Int /\ Tot(s, K \cup {1}) = Tot(s, K) + Effect(config.class, code, s, 1)
  BY <1>3, TotalAdds DEF Tot
<1> QED
  BY <1>2, <1>3, <1>4 DEF n, t, K, Effect, Off

-----------------------------------------------------------------------------
\* A fetch leaves the top without the wrong path and the queue where it is.
LEMMA FetchTop ==
  ASSUME TypeOK, Fetch
  PROVE  /\ SamePlace(PathTop', PathTop) /\ PathTop' \in Int
         /\ tos' \in Int /\ SamePlace(tos', tos + Delta(fetch_pred_PC))
<1>1. /\ NewFetched \in Fetched /\ fetch_data' = Append(fetch_data, NewFetched)
      /\ tos' = (tos + Delta(fetch_pred_PC)) % retstack_size
      /\ UNCHANGED <<config, code, window>> /\ fetch_data \in Seq(Fetched)
  BY FetchIs DEF Fetch, TypeOK
<1>2. Off(NewFetched) = Delta(fetch_pred_PC)
  BY DEF Off, NewFetched, Moves, Delta
<1> DEFINE d == Off(NewFetched)
           T == Tot(fetch_data, 1 .. Len(fetch_data))
           W == Tot(window, WrongPath)
<1>3. d \in Int /\ T \in Int /\ W \in Int /\ tos \in Int /\ PathTop = tos - W - T
  <2>1. PathTop = tos - W - T
    BY TopsAre DEF Top
  <2>2. d \in Int
    BY DEF Off, Moves
  <2> QED
    BY <2>1, <2>2, TopTypes
<1>4. SamePlace(tos', tos + d) /\ tos' \in Int
  <2> DEFINE x == tos + d
  <2>1. x \in Int /\ tos' = x % retstack_size
    BY <1>1, <1>2, <1>3
  <2> HIDE DEF x
  <2>2. SamePlace(x % retstack_size, x) /\ x % retstack_size \in Int
    BY <2>1, PlaceIs
  <2> QED
    BY <2>1, <2>2 DEF x
<1>5. Tot(fetch_data', 1 .. Len(fetch_data')) = T + d
  <2>1. Len(fetch_data') = Len(fetch_data) + 1 /\ 1 \in 1 .. Len(fetch_data) + 1
    BY <1>1, AppendIs
  <2> QED
    BY <1>1, <2>1, TotAppend
<1>6. PathTop' = tos' - W - (T + d)
  <2>1. WrongPath' = WrongPath
    BY <1>1 DEF WrongPath
  <2> QED
    BY <1>1, <1>5, <2>1, TopsBecome DEF Top
<1> HIDE DEF d, T, W
<1>7. SamePlace(tos' + (0 - W - T - d), (tos + d) + (0 - W - T - d))
  <2> DEFINE a == tos'
             b == tos + d
             c == 0 - W - T - d
  <2>1. a \in Int /\ b \in Int /\ c \in Int /\ SamePlace(a, b)
    BY <1>3, <1>4
  <2> HIDE DEF a, b, c
  <2>2. SamePlace(a + c, b + c)
    BY <2>1, PlaceMoves
  <2> QED
    BY <2>2 DEF a, b, c
<1>8. tos' + (0 - W - T - d) = PathTop' /\ (tos + d) + (0 - W - T - d) = PathTop /\ PathTop' \in Int
  BY <1>3, <1>4, <1>6
<1> QED
  BY <1>2, <1>4, <1>7, <1>8 DEF d

\* A dispatch moves that top with the correct path, and only with it; a misfetch squashes no call or return.
LEMMA DispatchTop ==
  ASSUME TypeOK, ProgramInvariant, StackInvariant, Dispatch
  PROVE  PathTop' = IF spec_mode THEN PathTop ELSE PathTop + Delta(fetch_data[1].PC)
<1> DEFINE f == fetch_data[1]
           i == InstOf(code, f.PC)
           e == Dispatched(f)
           n == Len(fetch_data)
           T == Tot(fetch_data, 1 .. n)
           W == Tot(window, WrongPath)
<1>1. /\ n > 0 /\ f \in Fetched /\ f.PC \in Nat /\ i \in Instructions /\ e \in InFlight
      /\ IF Misfetched(f, i) THEN fetch_data' = <<>> ELSE fetch_data' = Tail(fetch_data)
      /\ window' = IF IsCtrl(i) THEN Append(window, e) ELSE window
      /\ UNCHANGED <<config, code, tos>>
      /\ fetch_data \in Seq(Fetched) /\ window \in Seq(InFlight) /\ n \in Nat
  BY DispatchIs DEF TypeOK
<1>2. /\ Off(f) \in Int /\ T \in Int /\ W \in Int /\ tos \in Int /\ PathTop = tos - W - T
      /\ Off(f) = Delta(f.PC) /\ Off(e) = Off(f)
  <2>1. PathTop = tos - W - T
    BY TopsAre DEF Top
  <2>2. Off(f) \in Int /\ Off(f) = Delta(f.PC)
    BY DEF Off, Moves, Delta
  <2>3. Off(e) = Off(f)
    BY DEF Off, Dispatched
  <2> QED
    BY <2>1, <2>2, <2>3, TopTypes
<1>3. Tot(fetch_data', 1 .. Len(fetch_data')) = T - Off(f)
  <2>0. T = Tot(fetch_data, 2 .. n) + Off(f) /\ Tot(fetch_data, 2 .. n) \in Int
    BY <1>1, TotTail
  <2>1. CASE Misfetched(f, i)
    <3>1. f.pred_PC = 1
      <4>1. KnownPred(f)
        BY <1>1 DEF StackInvariant, DirectTargets, KnownPred, Inst
      <4> QED
        BY <2>1, <4>1 DEF Misfetched, KnownPred
    <3>2. \A k \in 2 .. n : fetch_data[k].PC = 1
      <4>1. 1 \in 1 .. n
        BY <1>1
      <4>2. \A k \in 1 + 1 .. n : fetch_data[k].PC = 1
        BY <3>1, <4>1 DEF StackInvariant, NowhereStays
      <4> QED
        BY <4>2
    <3>3. \A k \in 2 .. n : Effect(config.class, code, fetch_data, k) = 0
      <4>1. Moves(config.class, NOP) = 0
        BY DEF Moves, NOP, IsReturn, IsCall
      <4> QED
        BY <3>2, <4>1, NothingAtOne DEF Effect
    <3>4. Tot(fetch_data, 2 .. n) = 0
      BY <3>3, TotalZero DEF Tot
    <3>5. Tot(fetch_data', 1 .. Len(fetch_data')) = 0
      <4>1. fetch_data' = <<>>
        BY <1>1, <2>1
      <4>2. \A k \in 1 .. Len(fetch_data') : Effect(config.class, code, fetch_data', k) = 0
        BY <4>1
      <4> QED
        BY <4>2, TotalZero DEF Tot
    <3> QED
      BY <1>2, <2>0, <3>4, <3>5
  <2>2. CASE ~ Misfetched(f, i)
    <3>1. fetch_data' = Tail(fetch_data) /\ Len(fetch_data') = n - 1 /\ 1 \in 1 .. n
      BY <1>1, <2>2, TailIs
    <3>2. Tot(Tail(fetch_data), 1 .. n - 1) = Tot(fetch_data, 1 + 1 .. n)
      BY <1>1, <3>1, TotTail
    <3>3. Tot(fetch_data', 1 .. Len(fetch_data')) = Tot(fetch_data, 2 .. n)
      BY <3>1, <3>2
    <3> HIDE DEF T, n, f
    <3> QED
      BY <1>2, <2>0, <3>3
  <2> QED
    BY <2>1, <2>2
<1>4. Tot(window', WrongPath') = IF spec_mode THEN W + Off(f) ELSE W
  <2>1. CASE ~ IsCtrl(i)
    <3>1. Off(f) = 0
      BY <1>2, <2>1, OnlyBranches DEF ProgramInvariant
    <3>2. WrongPath' = WrongPath /\ window' = window
      BY <1>1, <2>1 DEF WrongPath
    <3> QED
      BY <1>2, <3>1, <3>2
  <2>2. CASE IsCtrl(i)
    <3> DEFINE m == Len(window) + 1
               P == WrongPath
    <3>1. /\ Len(window') = m /\ window'[m] = e /\ m \notin 1 .. Len(window)
          /\ \A k \in 1 .. Len(window) : window'[k] = window[k]
          /\ 1 .. m = (1 .. Len(window)) \cup {m}
      BY <1>1, <2>2, AppendIs
    <3>2. e.spec_mode = spec_mode
      BY DEF Dispatched
    <3>3. WrongPath' = IF spec_mode THEN P \cup {m} ELSE P
      BY <3>1, <3>2 DEF WrongPath
    <3>4. IsFiniteSet(P) /\ P \subseteq 1 .. Len(window) /\ m \notin P
      BY <3>1, WrongPathFinite
    <3> HIDE DEF m, P
    <3>5. Tot(window', P) = Tot(window, P)
      <4>1. \A k \in P : window'[k].PC = window[k].PC
        BY <3>1, <3>4
      <4> QED
        BY <4>1, TotalSame DEF Tot
    <3>6. Tot(window', P \cup {m}) = Tot(window', P) + Effect(config.class, code, window', m)
      BY <3>4, TotalAdds DEF Tot
    <3>7. Effect(config.class, code, window', m) = Off(f)
      BY <1>2, <3>1 DEF Effect, Off
    <3> QED
      BY <3>3, <3>5, <3>6, <3>7 DEF P
  <2> QED
    BY <2>1, <2>2
<1>5. PathTop' = tos - Tot(window', WrongPath') - Tot(fetch_data', 1 .. Len(fetch_data'))
  BY <1>1, TopsBecome DEF Top
<1> HIDE DEF T, W, f, n
<1>6. CASE spec_mode
  <2>1. PathTop' = tos - (W + Off(f)) - (T - Off(f))
    BY <1>3, <1>4, <1>5, <1>6
  <2>2. tos - (W + Off(f)) - (T - Off(f)) = tos - W - T
    BY <1>2
  <2> QED
    BY <1>2, <1>6, <2>1, <2>2
<1>7. CASE ~ spec_mode
  <2>1. PathTop' = tos - W - (T - Off(f))
    BY <1>3, <1>4, <1>5, <1>7
  <2>2. tos - W - (T - Off(f)) = (tos - W - T) + Off(f)
    BY <1>2
  <2> QED
    BY <1>2, <1>7, <2>1, <2>2 DEF f
<1> QED
  BY <1>6, <1>7

\* The wrong path is all that follows the branch it will be recovered to.
LEMMA WrongPathIs ==
  ASSUME TypeOK, OneRecovery
  PROVE  /\ \A k \in 1 .. Len(window) : Pending(k) => WrongPath = k + 1 .. Len(window)
         /\ ~ spec_mode => WrongPath = {}
<1>1. Len(window) \in Nat
  BY DEF TypeOK
<1>2. ~ spec_mode => WrongPath = {}
  BY DEF OneRecovery, WrongPath
<1>3. ASSUME NEW k \in 1 .. Len(window), Pending(k) PROVE WrongPath = k + 1 .. Len(window)
  <2>1. \A j \in 1 .. Len(window) : window[j].spec_mode <=> j > k
    BY <1>3 DEF OneRecovery
  <2> QED
    BY <1>1, <2>1 DEF WrongPath
<1> QED
  BY <1>2, <1>3

\* A write-back moves it only where it recovers, to what was recorded.
LEMMA WritebackTop ==
  ASSUME TypeOK, ProgramInvariant, ProgramInvariant', TypeOK', Writeback
  PROVE  \E k \in 1 .. Len(window) :
           /\ ~ window[k].completed /\ k \in 1 .. Len(window') /\ window'[k].completed
           /\ UNCHANGED <<config, code, depth>>
           /\ window[k].recover => PathTop' = window[k].idx /\ fetch_data' = <<>> /\ ~ spec_mode'
           /\ ~ window[k].recover =>
                PathTop' = PathTop /\ Len(window') = Len(window) /\ UNCHANGED <<fetch_data, tos>>
           /\ \A j \in 1 .. Len(window') :
                window'[j] = IF j = k THEN [window[j] EXCEPT !.completed = TRUE] ELSE window[j]
<1>0. window \in Seq(InFlight) /\ Len(window) \in Nat /\ OneRecovery /\ OneRecovery'
  BY DEF TypeOK, ProgramInvariant
<1>1. PICK k \in 1 .. Len(window) :
        LET e == window[k]
        IN  /\ e \in InFlight /\ ~ e.completed
            /\ e.recover => Len(window') = k /\ Recover(e)
            /\ ~ e.recover => Len(window') = Len(window) /\ UNCHANGED <<spec_mode, fetch_data, tos>>
            /\ \A j \in 1 .. Len(window') :
                 window'[j] = IF j = k THEN [window[j] EXCEPT !.completed = TRUE] ELSE window[j]
            /\ UNCHANGED <<config, code, depth>>
  BY WritebackIs
<1> DEFINE e == window[k]
<1>2. k \in 1 .. Len(window') /\ window'[k].completed
  <2>1. [e EXCEPT !.completed = TRUE].completed
    BY <1>1 DEF InFlight
  <2>2. k \in 1 .. Len(window')
    <3>1. Len(window') = k \/ Len(window') = Len(window)
      BY <1>1
    <3> QED
      BY <1>0, <3>1
  <2> QED
    BY <1>1, <2>1, <2>2
<1>3. ASSUME e.recover PROVE PathTop' = e.idx /\ fetch_data' = <<>> /\ ~ spec_mode'
  <2>1. ~ spec_mode' /\ fetch_data' = <<>> /\ tos' = e.idx
    BY <1>1, <1>3 DEF Recover
  <2>2. WrongPath' = {}
    BY <1>0, <2>1 DEF OneRecovery, WrongPath
  <2>3. Tot(window', {}) = 0 /\ Tot(<<>>, 1 .. Len(<<>>)) = 0
    BY TotalZero DEF Tot
  <2>4. e.idx \in Int
    BY <1>1, TableSizes DEF InFlight
  <2>5. PathTop' = e.idx - 0 - 0
    BY <1>1, <2>1, <2>2, <2>3, TopsBecome DEF Top
  <2> QED
    BY <2>1, <2>4, <2>5
<1>4. ASSUME ~ e.recover PROVE PathTop' = PathTop
  <2>1. Len(window') = Len(window) /\ UNCHANGED <<fetch_data, tos>>
    BY <1>1, <1>4
  <2>2. \A j \in 1 .. Len(window) : window'[j].spec_mode = window[j].spec_mode /\ window'[j].PC = window[j].PC
    <3>1. [e EXCEPT !.completed = TRUE].spec_mode = e.spec_mode /\ [e EXCEPT !.completed = TRUE].PC = e.PC
      BY <1>1 DEF InFlight
    <3> QED
      BY <1>1, <2>1, <3>1
  <2>3. WrongPath' = WrongPath
    BY <2>1, <2>2 DEF WrongPath
  <2>4. Tot(window', WrongPath) = Tot(window, WrongPath)
    <3>1. \A j \in WrongPath : window'[j].PC = window[j].PC
      BY <2>2 DEF WrongPath
    <3> QED
      BY <3>1, TotalSame DEF Tot
  <2> QED
    BY <1>1, <2>1, <2>3, <2>4, TopsBecome, TopsAre DEF Top
<1> QED
  BY <1>1, <1>2, <1>3, <1>4

\* A commit leaves it where it is: the branch that goes is of the correct path.
LEMMA CommitTop ==
  ASSUME TypeOK, ProgramInvariant, ProgramInvariant', TypeOK', Commit
  PROVE  PathTop' = PathTop
<1>0. window \in Seq(InFlight) /\ Len(window) \in Nat /\ OneRecovery /\ OneRecovery'
  BY DEF TypeOK, ProgramInvariant
<1>1. /\ Len(window) > 0 /\ window[1].completed /\ window' = Tail(window)
      /\ UNCHANGED <<config, code, fetch_data, tos, spec_mode>>
  BY CommitIs DEF machVars
<1>2. /\ Len(window') = Len(window) - 1
      /\ \A k \in 1 .. Len(window) - 1 :
             window'[k] = window[k + 1] /\ k \in 1 .. Len(window) /\ k + 1 \in 1 .. Len(window)
  BY <1>0, <1>1, TailIs
<1>3. Tot(window', WrongPath') = Tot(window, WrongPath)
  <2>1. CASE ~ spec_mode
    <3>1. WrongPath = {} /\ WrongPath' = {}
      <4>1. WrongPath' = {}
        BY <1>0, <1>1, <2>1 DEF OneRecovery, WrongPath
      <4> QED
        BY <1>0, <2>1, <4>1, WrongPathIs
    <3> QED
      BY <3>1, TotalZero DEF Tot
  <2>2. CASE spec_mode
    <3>1. PICK k \in 1 .. Len(window) : Pending(k)
      BY <1>0, <2>2 DEF OneRecovery
    <3>2. k # 1
      BY <1>1, <3>1 DEF Pending
    <3>3. WrongPath = k + 1 .. Len(window)
      BY <1>0, <3>1, WrongPathIs
    <3>4. WrongPath' = k .. Len(window) - 1
      <4>1. \A j \in 1 .. Len(window') : window'[j].spec_mode <=> j + 1 > k
        BY <1>0, <1>2, <3>1 DEF OneRecovery
      <4> QED
        BY <1>0, <1>2, <3>2, <4>1 DEF WrongPath
    <3>5. \A j \in k .. Len(window) - 1 : window'[j].PC = window[j + 1].PC
      <4>1. \A j \in k .. Len(window) - 1 : j \in 1 .. Len(window) - 1
        BY <1>0
      <4> QED
        BY <1>2, <4>1
    <3>6. k \in Nat /\ Len(window) - 1 \in Nat /\ (Len(window) - 1) + 1 = Len(window)
      BY <1>0, <1>1
    <3> DEFINE b == Len(window) - 1
    <3>7. Tot(window', k .. b) = Tot(window, k + 1 .. b + 1)
      <4>1. k \in Nat /\ b \in Nat /\ \A j \in k .. b : window'[j].PC = window[j + 1].PC
        BY <3>5, <3>6
      <4> HIDE DEF b
      <4> QED
        BY <4>1, TotalShift DEF Tot
    <3> QED
      BY <3>3, <3>4, <3>6, <3>7
  <2> QED
    BY <2>1, <2>2
<1> QED
  BY <1>1, <1>3, TopsBecome, TopsAre DEF Top

-----------------------------------------------------------------------------
\* The two parts of TopsRecorded, of a top t and a queue s, and of a top p and a window w.
Queued(t, s) == \A j \in 1 .. Len(s) : IsCtrl(InstOf(code, s[j].PC)) =>
                  SamePlace(t - Tot(s, j .. Len(s)), s[j].idx)
Resumes(p, w) == \A k \in 1 .. Len(w) : w[k].recover /\ ~ w[k].completed =>
                   SamePlace(p, w[k].idx + Delta(w[k].PC))

\* TopsRecorded before and after a step.
LEMMA RecordedIs ==
  ASSUME UNCHANGED <<config, code>>
  PROVE  /\ TopsRecorded <=> Queued(tos, fetch_data) /\ Resumes(PathTop, window)
         /\ TopsRecorded' <=> Queued(tos', fetch_data') /\ Resumes(PathTop', window')
<1>1. TopsRecorded <=> Queued(tos, fetch_data) /\ Resumes(PathTop, window)
  BY TopsAre DEF TopsRecorded, Queued, Resumes, Pending, Inst
<1> DEFINE p == PathTop'
<1>2. \A pc : Delta(pc)' = Delta(pc)
  BY TopsBecome
<1>3. \A j : Deltas(fetch_data, j .. Len(fetch_data))' = Tot(fetch_data', j .. Len(fetch_data'))
  BY TopsBecome
<1>4. TopsRecorded' <=>
        /\ \A j \in 1 .. Len(fetch_data') : IsCtrl(InstOf(code, fetch_data'[j].PC)) =>
             SamePlace(tos' - Deltas(fetch_data, j .. Len(fetch_data))', fetch_data'[j].idx)
        /\ \A k \in 1 .. Len(window') : window'[k].recover /\ ~ window'[k].completed =>
             SamePlace(p, window'[k].idx + Delta(window[k].PC)')
  BY DEF TopsRecorded, Pending, Inst, SamePlace
<1>5. \A k : Delta(window[k].PC)' = Delta(window'[k].PC)
  BY DEF Delta
<1> HIDE DEF p
<1>6. TopsRecorded' <=> Queued(tos', fetch_data') /\ Resumes(p, window')
  BY <1>3, <1>4, <1>5 DEF Queued, Resumes
<1> QED
  BY <1>1, <1>6 DEF p

\* A place and the same place are the same place as a third.
LEMMA PlaceChains ==
  ASSUME NEW a, NEW b, NEW c, SamePlace(a, b), SamePlace(b, c)
  PROVE  SamePlace(a, c)
BY DEF SamePlace

\* A look-up moves every recorded top of the queue along.
LEMMA FetchRecords ==
  ASSUME TypeOK, TopsRecorded, Fetch
  PROVE  TopsRecorded'
<1>1. /\ NewFetched \in Fetched /\ fetch_data' = Append(fetch_data, NewFetched)
      /\ UNCHANGED <<config, code, window>> /\ fetch_data \in Seq(Fetched)
      /\ IsCtrl(InstOf(code, fetch_pred_PC)) => NewFetched.idx = tos
      /\ NewFetched.PC = fetch_pred_PC
  BY FetchIs DEF Fetch, TypeOK, NewFetched
<1> DEFINE n == Len(fetch_data)
           s == fetch_data'
           d == Off(NewFetched)
<1>2. /\ n \in Nat /\ Len(s) = n + 1 /\ s[n + 1] = NewFetched
      /\ \A k \in 1 .. n : s[k] = fetch_data[k]
      /\ \A k \in 1 .. n + 1 : k \in 1 .. n \/ k = n + 1
  BY <1>1, AppendIs
<1>3. d \in Int /\ tos \in Int /\ tos' \in Int /\ SamePlace(tos', tos + d)
  <2>1. d = Delta(fetch_pred_PC) /\ d \in Int
    BY DEF Off, NewFetched, Moves, Delta
  <2> QED
    BY <2>1, TopTypes, FetchTop
<1>4. Queued(tos, fetch_data) /\ Resumes(PathTop, window)
  BY <1>1, RecordedIs
<1>5. ASSUME NEW j \in 1 .. n + 1
      PROVE  SamePlace(tos' - Tot(s, j .. n + 1), tos - Tot(fetch_data, j .. n))
  <2> DEFINE T == Tot(fetch_data, j .. n)
             a == tos'
             b == tos + d
             c == 0 - T - d
  <2>1. Tot(s, j .. n + 1) = T + d /\ T \in Int
    BY <1>1, TotAppend
  <2>2. a \in Int /\ b \in Int /\ c \in Int /\ SamePlace(a, b)
    BY <1>3, <2>1
  <2>3. a + c = tos' - (T + d) /\ b + c = tos - T
    <3> HIDE DEF T, d
    <3> QED
      BY <1>3, <2>1
  <2> HIDE DEF a, b, c
  <2>4. SamePlace(a + c, b + c)
    BY <2>2, PlaceMoves
  <2> HIDE DEF T, d, n, s
  <2> QED
    BY <2>1, <2>3, <2>4 DEF T
<1>6. Queued(tos', s)
  <2> SUFFICES ASSUME NEW j \in 1 .. Len(s), IsCtrl(InstOf(code, s[j].PC))
               PROVE  SamePlace(tos' - Tot(s, j .. Len(s)), s[j].idx)
    BY DEF Queued
  <2>1. CASE j \in 1 .. n
    <3>1. SamePlace(tos - Tot(fetch_data, j .. n), s[j].idx)
      BY <1>2, <1>4, <2>1 DEF Queued
    <3> QED
      BY <1>2, <1>5, <3>1, PlaceChains
  <2>2. CASE j = n + 1
    <3>1. Tot(fetch_data, n + 1 .. n) = 0
      <4>1. \A k \in n + 1 .. n : Effect(config.class, code, fetch_data, k) = 0
        BY <1>2
      <4> QED
        BY <4>1, TotalZero DEF Tot
    <3>2. s[j].idx = tos /\ tos - 0 = tos
      BY <1>1, <1>2, <1>3, <2>2
    <3>3. SamePlace(tos' - Tot(s, j .. n + 1), tos)
      BY <1>2, <1>5, <2>2, <3>1, <3>2
    <3> HIDE DEF s, n
    <3> QED
      BY <1>2, <3>2, <3>3
  <2> QED
    BY <1>2, <2>1, <2>2
<1>7. Resumes(PathTop', window')
  <2> DEFINE p == PathTop'
  <2>1. SamePlace(p, PathTop)
    BY FetchTop
  <2> HIDE DEF p
  <2>2. Resumes(p, window)
    BY <1>4, <2>1, PlaceChains DEF Resumes
  <2> QED
    BY <1>1, <2>2 DEF p
<1> QED
  BY <1>1, <1>6, <1>7, RecordedIs

\* A misprediction is recorded with the top before its look-up.
LEMMA DispatchRecords ==
  ASSUME TypeOK, ProgramInvariant, StackInvariant, Dispatch
  PROVE  TopsRecorded'
<1> DEFINE f == fetch_data[1]
           i == InstOf(code, f.PC)
           e == Dispatched(f)
           n == Len(fetch_data)
<1>1. /\ n > 0 /\ n \in Nat /\ f \in Fetched /\ e \in InFlight
      /\ fetch_data' = <<>> \/ fetch_data' = Tail(fetch_data)
      /\ window' = IF IsCtrl(i) THEN Append(window, e) ELSE window
      /\ UNCHANGED <<config, code, tos>>
      /\ fetch_data \in Seq(Fetched) /\ window \in Seq(InFlight) /\ Len(window) \in Nat
  BY DispatchIs DEF TypeOK
<1>2. Queued(tos, fetch_data) /\ Resumes(PathTop, window)
  BY <1>1, RecordedIs DEF StackInvariant
<1>3. Queued(tos', fetch_data')
  <2>1. CASE fetch_data' = <<>>
    BY <2>1 DEF Queued
  <2>2. CASE fetch_data' = Tail(fetch_data)
    <3> DEFINE s == fetch_data'
    <3>1. Len(s) = n - 1 /\ \A k \in 1 .. n - 1 : s[k] = fetch_data[k + 1] /\ k \in 1 .. n /\ k + 1 \in 1 .. n
      BY <1>1, <2>2, TailIs
    <3>2. \A k \in 1 .. n : Tot(s, k .. n - 1) = Tot(fetch_data, k + 1 .. n)
      BY <1>1, <2>2, TotTail
    <3> HIDE DEF s, n, f
    <3>3. \A k \in 1 .. Len(s) : IsCtrl(InstOf(code, s[k].PC)) => SamePlace(tos - Tot(s, k .. Len(s)), s[k].idx)
      BY <1>2, <3>1, <3>2 DEF Queued, n
    <3>4. Queued(tos, s)
      BY <3>3 DEF Queued
    <3> QED
      BY <1>1, <3>4 DEF s
  <2> QED
    BY <1>1, <2>1, <2>2
<1> DEFINE p == PathTop'
<1>4. p = IF spec_mode THEN PathTop ELSE PathTop + Delta(f.PC)
  BY DispatchTop
<1>5. e.recover => ~ spec_mode
  BY DEF Dispatched, Mispredicted
<1>6. e.idx = f.idx /\ e.PC = f.PC
  BY DEF Dispatched
<1>7. ASSUME NEW k \in 1 .. Len(window), window[k].recover /\ ~ window[k].completed
      PROVE  SamePlace(p, window[k].idx + Delta(window[k].PC))
  <2>1. spec_mode
    BY <1>7 DEF ProgramInvariant, OneRecovery, Pending
  <2> HIDE DEF p
  <2> QED
    BY <1>2, <1>4, <1>7, <2>1 DEF Resumes
<1>8. ASSUME ~ spec_mode, IsCtrl(i)
      PROVE  SamePlace(p, f.idx + Delta(f.PC))
  <2>1. PathTop = tos - 0 - Tot(fetch_data, 1 .. n)
    <3>1. Tot(window, WrongPath) = 0
      <4>1. WrongPath = {}
        BY <1>8, WrongPathIs DEF ProgramInvariant
      <4> QED
        BY <4>1, TotalZero DEF Tot
    <3> QED
      BY <3>1, TopsAre DEF Top
  <2>2. PathTop = tos - Tot(fetch_data, 1 .. n)
    <3>1. tos \in Int /\ Tot(fetch_data, 1 .. n) \in Int
      BY TopTypes
    <3> QED
      BY <2>1, <3>1
  <2>3. SamePlace(PathTop, f.idx)
    <3>1. 1 \in 1 .. Len(fetch_data)
      BY <1>1
    <3>2. SamePlace(tos - Tot(fetch_data, 1 .. Len(fetch_data)), fetch_data[1].idx)
      BY <1>2, <1>8, <3>1 DEF Queued
    <3> QED
      BY <2>2, <3>2
  <2>4. PathTop \in Int /\ f.idx \in Int /\ Delta(f.PC) \in Int
    <3>1. PathTop \in Int
      BY TopTypes
    <3>2. f.idx \in Int
      BY <1>1, TableSizes DEF Fetched
    <3>3. Delta(f.PC) \in Int
      BY DEF Delta
    <3> QED
      BY <3>1, <3>2, <3>3
  <2> HIDE DEF f, p
  <2>5. SamePlace(PathTop + Delta(f.PC), f.idx + Delta(f.PC))
    BY <2>3, <2>4, PlaceMoves
  <2> QED
    BY <1>4, <1>8, <2>5
<1>9. Resumes(p, window')
  <2>1. CASE ~ IsCtrl(i)
    BY <1>1, <1>7, <2>1 DEF Resumes
  <2>2. CASE IsCtrl(i)
    <3>1. /\ Len(window') = Len(window) + 1 /\ window'[Len(window) + 1] = e
          /\ \A k \in 1 .. Len(window) : window'[k] = window[k]
          /\ \A k \in 1 .. Len(window') : k \in 1 .. Len(window) \/ k = Len(window) + 1
      BY <1>1, <2>2, AppendIs
    <3> HIDE DEF e, f, i, p
    <3>2. ASSUME NEW k \in 1 .. Len(window'), window'[k].recover /\ ~ window'[k].completed
          PROVE  SamePlace(p, window'[k].idx + Delta(window'[k].PC))
      <4>1. CASE k \in 1 .. Len(window)
        BY <1>7, <3>1, <3>2, <4>1
      <4>2. CASE k = Len(window) + 1
        BY <1>5, <1>6, <1>8, <2>2, <3>1, <3>2, <4>2
      <4> QED
        BY <3>1, <4>1, <4>2
    <3> QED
      BY <3>2 DEF Resumes
  <2> QED
    BY <2>1, <2>2
<1> QED
  BY <1>1, <1>3, <1>9, RecordedIs

\* A recovery leaves nothing to recover, and no look-up in the queue.
LEMMA WritebackRecords ==
  ASSUME TypeOK, TypeOK', ProgramInvariant, ProgramInvariant', TopsRecorded, Writeback
  PROVE  TopsRecorded'
<1>1. PICK k \in 1 .. Len(window) :
        /\ k \in 1 .. Len(window') /\ window'[k].completed
        /\ UNCHANGED <<config, code>>
        /\ window[k].recover => fetch_data' = <<>> /\ ~ spec_mode'
        /\ ~ window[k].recover =>
             PathTop' = PathTop /\ Len(window') = Len(window) /\ UNCHANGED <<fetch_data, tos>>
        /\ \A j \in 1 .. Len(window') :
             window'[j] = IF j = k THEN [window[j] EXCEPT !.completed = TRUE] ELSE window[j]
  BY WritebackTop
<1>2. Queued(tos, fetch_data) /\ Resumes(PathTop, window)
  BY <1>1, RecordedIs
<1>3. CASE window[k].recover
  <2>1. Queued(tos', fetch_data')
    BY <1>1, <1>3 DEF Queued
  <2>2. \A j \in 1 .. Len(window') : ~ (window'[j].recover /\ ~ window'[j].completed)
    BY <1>1, <1>3 DEF ProgramInvariant, OneRecovery, Pending
  <2>3. Resumes(PathTop', window')
    BY <2>2 DEF Resumes
  <2> QED
    BY <1>1, <2>1, <2>3, RecordedIs
<1>4. CASE ~ window[k].recover
  <2>1. Queued(tos', fetch_data')
    BY <1>1, <1>2, <1>4
  <2> DEFINE p == PathTop'
  <2>2. p = PathTop
    BY <1>1, <1>4
  <2> HIDE DEF p
  <2>3. Resumes(p, window')
    <3>1. ASSUME NEW j \in 1 .. Len(window'), window'[j].recover /\ ~ window'[j].completed
          PROVE  SamePlace(p, window'[j].idx + Delta(window'[j].PC))
      <4>1. j # k /\ j \in 1 .. Len(window)
        BY <1>1, <1>4, <3>1
      <4>2. window'[j] = window[j]
        BY <1>1, <4>1
      <4> QED
        BY <1>2, <2>2, <3>1, <4>1, <4>2 DEF Resumes
    <3> QED
      BY <3>1 DEF Resumes
  <2> QED
    BY <1>1, <2>1, <2>3, RecordedIs DEF p
<1> QED
  BY <1>3, <1>4

\* A commit takes the oldest branch away, which is not the one to recover to.
LEMMA CommitRecords ==
  ASSUME TypeOK, TypeOK', ProgramInvariant, ProgramInvariant', TopsRecorded, Commit
  PROVE  TopsRecorded'
<1>1. /\ Len(window) > 0 /\ window' = Tail(window) /\ window \in Seq(InFlight)
      /\ UNCHANGED <<config, code, fetch_data, tos>>
  BY CommitIs DEF TypeOK
<1>2. /\ Len(window') = Len(window) - 1
      /\ \A k \in 1 .. Len(window) - 1 : window'[k] = window[k + 1] /\ k + 1 \in 1 .. Len(window)
  BY <1>1, TailIs
<1>3. Queued(tos, fetch_data) /\ Resumes(PathTop, window)
  BY <1>1, RecordedIs
<1> DEFINE p == PathTop'
<1>4. p = PathTop
  BY CommitTop
<1> HIDE DEF p
<1>5. Resumes(p, window')
  BY <1>2, <1>3, <1>4 DEF Resumes
<1> QED
  BY <1>1, <1>3, <1>5, RecordedIs DEF p

-----------------------------------------------------------------------------
\* The first state, with an empty buffer and nothing in flight.
LEMMA StackInit == ASSUME Init PROVE StackInvariant
<1>1. fetch_data = <<>> /\ window = <<>>
  BY DEF Init
<1>2. \A s \in 0 .. btb_sets - 1, w \in 1 .. btb_assoc : Knows(code, btb[s][w])
  <2>1. \A s \in 0 .. btb_sets - 1, w \in 1 .. btb_assoc : btb[s][w].addr = 0
    BY DEF Init, bpred_create
  <2>2. ~ IsDirect(InstOf(code, 0))
    <3>1. code \in Seq(Instructions)
      BY InitTyped DEF TypeOK
    <3>2. ~ InText(code, 0)
      BY <3>1 DEF InText
    <3> QED
      BY <3>2 DEF InstOf, NOP, IsDirect
  <2> QED
    BY <2>1, <2>2 DEF Knows
<1> QED
  BY <1>1, <1>2 DEF StackInvariant, DirectTargets, NowhereStays, TopsRecorded

\* Every step keeps the invariant.
LEMMA StackNext ==
  ASSUME TypeOK, TypeOK', ProgramInvariant, ProgramInvariant', StackInvariant, [Next]_vars
  PROVE  StackInvariant'
<1>1. CASE UNCHANGED vars
  <2>1. UNCHANGED <<config, code, spec_mode, fetch_data, fetch_pred_PC, window, btb, tos>>
    BY <1>1 DEF vars, machVars, predVars, dirVars
  <2>2. DirectTargets' /\ NowhereStays'
    BY <2>1 DEF StackInvariant, DirectTargets, NowhereStays, Inst
  <2>3. TopsRecorded'
    BY <2>1 DEF StackInvariant, TopsRecorded, Pending, PathTop, WrongPath, Deltas, Delta, Inst, SamePlace
  <2> QED
    BY <2>2, <2>3 DEF StackInvariant
<1>2. CASE Next
  <2>1. DirectTargets' /\ NowhereStays'
    BY <1>2, DirectStays, NowhereStaysSo DEF StackInvariant
  <2>2. TopsRecorded'
    BY <1>2, FetchRecords, DispatchRecords, WritebackRecords, CommitRecords DEF Next, StackInvariant
  <2> QED
    BY <2>1, <2>2 DEF StackInvariant
<1> QED
  BY <1>1, <1>2

\* The drift is the way from the depth of the correct path to its top.
LEMMA DriftIs == TypeOK => Drift = (PathTop - depth) % retstack_size
<1> SUFFICES ASSUME TypeOK PROVE Drift = (PathTop - depth) % retstack_size
  OBVIOUS
<1> DEFINE W == Deltas(window, WrongPath)
           T == Deltas(fetch_data, 1 .. Len(fetch_data))
<1>1. DOMAIN window = 1 .. Len(window) /\ DOMAIN fetch_data = 1 .. Len(fetch_data)
  BY DEF TypeOK
<1>2. Drift = (tos - depth - W - T) % retstack_size
  BY <1>1 DEF Drift, WrongPath
<1>3. PathTop = tos - W - T
  BY DEF PathTop
<1>4. tos \in Int /\ depth \in Int /\ W \in Int /\ T \in Int
  BY TopTypes, TopsAre
<1> HIDE DEF W, T
<1>5. tos - depth - W - T = PathTop - depth
  BY <1>3, <1>4
<1> QED
  BY <1>2, <1>5

\* A top that moves like the depth keeps its distance.
LEMMA DriftStays ==
  ASSUME NEW p \in Int, NEW q \in Int, NEW c \in Int, SamePlace(p, q)
  PROVE  (p - c) % retstack_size = (q - c) % retstack_size
<1> DEFINE m == 0 - c
<1>1. SamePlace(p + m, q + m)
  <2>1. m \in Int
    OBVIOUS
  <2> HIDE DEF m
  <2> QED
    BY <2>1, PlaceMoves
<1>2. p + m = p - c /\ q + m = q - c
  OBVIOUS
<1> HIDE DEF m
<1> QED
  BY <1>1, <1>2 DEF SamePlace

\* Sums that cancel.
LEMMA Cancels == \A a, b, c \in Int : c + (a - b - c) = a - b
OBVIOUS

\* No step but the recovery from a call or return changes the distance.
LEMMA DriftNext ==
  ASSUME TypeOK, TypeOK', ProgramInvariant, ProgramInvariant', StackInvariant, [Next]_vars
  PROVE  (PathTop' - depth') % retstack_size = (PathTop - depth) % retstack_size \/ UndoesItself
<1> DEFINE p == PathTop'
<1>0. PathTop \in Int /\ depth \in Int /\ depth' \in Int
  BY TopTypes, TableSizes DEF TypeOK
<1>1. CASE UNCHANGED vars
  <2>1. UNCHANGED <<config, code, fetch_data, window, tos, depth>>
    BY <1>1 DEF vars, predVars
  <2>2. PathTop' = PathTop
    BY <2>1 DEF PathTop, WrongPath, Deltas, Delta
  <2> QED
    BY <2>1, <2>2
<1>2. CASE Fetch
  <2>1. SamePlace(p, PathTop) /\ p \in Int
    BY <1>2, FetchTop
  <2>2. depth' = depth
    BY <1>2 DEF Fetch
  <2> HIDE DEF p
  <2>3. (p - depth) % retstack_size = (PathTop - depth) % retstack_size
    BY <1>0, <2>1, DriftStays
  <2> QED
    BY <2>2, <2>3 DEF p
<1>3. CASE Dispatch
  <2> DEFINE d == Delta(fetch_data[1].PC)
             x == depth + d
  <2>1. p = IF spec_mode THEN PathTop ELSE PathTop + d
    BY <1>3, DispatchTop DEF StackInvariant
  <2>2. depth' = IF spec_mode THEN depth ELSE x % retstack_size
    BY <1>3, DispatchIs
  <2>3. d \in Int /\ x \in Int
    BY <1>0 DEF Delta
  <2> HIDE DEF d, p
  <2>4. CASE spec_mode
    BY <2>1, <2>2, <2>4 DEF p
  <2>5. CASE ~ spec_mode
    <3>1. SamePlace(depth', x)
      <4> HIDE DEF x
      <4> QED
        BY <2>2, <2>3, <2>5, PlaceIs
    <3> DEFINE c == PathTop - depth - depth'
    <3>2. c \in Int
      BY <1>0
    <3>3. SamePlace(x + c, depth' + c)
      <4>1. SamePlace(depth' + c, x + c)
        <5> HIDE DEF c, x
        <5> QED
          BY <1>0, <2>3, <3>1, <3>2, PlaceMoves
      <4> QED
        BY <4>1 DEF SamePlace
    <3>4. x + c = p - depth' /\ depth' + c = PathTop - depth
      <4>1. p = PathTop + d
        BY <2>1, <2>5
      <4>2. d \in Int
        BY <2>3
      <4>3. x + c = (PathTop + d) - depth'
        BY ONLY <1>0, <4>2
      <4>4. depth' + c = PathTop - depth
        BY <1>0, Cancels
      <4> QED
        BY <4>1, <4>3, <4>4
    <3> HIDE DEF x, c
    <3> QED
      BY <3>3, <3>4 DEF SamePlace, p
  <2> QED
    BY <2>4, <2>5
<1>4. CASE Writeback
  <2>1. PICK k \in 1 .. Len(window) :
          /\ ~ window[k].completed /\ window'[k].completed
          /\ UNCHANGED depth
          /\ window[k].recover => PathTop' = window[k].idx
          /\ ~ window[k].recover => PathTop' = PathTop
    BY <1>4, WritebackTop
  <2>2. CASE ~ window[k].recover
    BY <2>1, <2>2
  <2>3. CASE window[k].recover /\ Delta(window[k].PC) # 0
    <3>1. k \in DOMAIN window
      BY DEF TypeOK
    <3> QED
      BY <2>1, <2>3, <3>1 DEF UndoesItself
  <2>4. CASE window[k].recover /\ Delta(window[k].PC) = 0
    <3> DEFINE i == window[k].idx
    <3>1. p = i /\ i \in Int /\ i + 0 = i
      <4>1. window[k] \in InFlight
        BY DEF TypeOK
      <4>2. i \in Int
        BY <4>1, TableSizes DEF InFlight
      <4> QED
        BY <2>1, <2>4, <4>2
    <3>2. SamePlace(PathTop, i + Delta(window[k].PC))
      BY <2>1, <2>4 DEF StackInvariant, TopsRecorded, Pending
    <3> HIDE DEF i, p
    <3>3. SamePlace(p, PathTop)
      BY <2>4, <3>1, <3>2 DEF SamePlace
    <3>4. (p - depth) % retstack_size = (PathTop - depth) % retstack_size
      BY <1>0, <3>1, <3>3, DriftStays
    <3> QED
      BY <2>1, <3>4 DEF p
  <2> QED
    BY <2>2, <2>3, <2>4
<1>5. CASE Commit
  <2>1. depth' = depth
    BY <1>5 DEF Commit
  <2> QED
    BY <1>5, <2>1, CommitTop
<1> QED
  BY <1>1, <1>2, <1>3, <1>4, <1>5 DEF Next

\* The return-address stack follows the calls and returns of the correct path, and comes off
\* only where bpred_recover undoes the push or pop of the branch it recovers from.
THEOREM StackFollows == Spec => StackFollowsPath
<1>1. Init => TypeOK /\ ProgramInvariant /\ StackInvariant
  BY InitTyped, ProgramInit, StackInit
<1>2. TypeOK /\ ProgramInvariant /\ StackInvariant /\ [Next]_vars
        => TypeOK' /\ ProgramInvariant' /\ StackInvariant'
  BY NextTyped, ProgramNext, StackNext
<1>3. (TypeOK => Drift = (PathTop - depth) % retstack_size)'
  BY DriftIs, PTL
<1>4. TypeOK /\ TypeOK' /\ ProgramInvariant /\ ProgramInvariant' /\ StackInvariant /\ [Next]_vars
        => [Drift' = Drift \/ UndoesItself]_vars
  <2> SUFFICES ASSUME TypeOK, TypeOK', ProgramInvariant, ProgramInvariant', StackInvariant, [Next]_vars
               PROVE  Drift' = Drift \/ UndoesItself
    OBVIOUS
  <2>1. Drift = (PathTop - depth) % retstack_size
    BY DriftIs
  <2>2. Drift' = (PathTop' - depth') % retstack_size
    BY <1>3
  <2> QED
    BY <2>1, <2>2, DriftNext
<1> QED
  BY <1>1, <1>2, <1>4, PTL DEF Spec, StackFollowsPath
=============================================================================
