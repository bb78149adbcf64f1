--------------------------- MODULE LoadLoopProofs ---------------------------
(***************************************************************************)
(* Proofs about loops of loads, for every size of the tables and every     *)
(* loop body: while one load is in the loop the entries of both            *)
(* prefetchers are trained alike, and the links of the open-ended one name *)
(* only what follows in the loop.                                          *)
(***************************************************************************)
EXTENDS LoadLoop, FiniteSetTheorems, WellFoundedInduction, TLAPS

-----------------------------------------------------------------------------
\* Numbers.

\* A residue, as an operator of its own: the provers find no instances of a lemma by its %.
Res(a, m) == a % m

\* Residues near the modulus.
LEMMA ModNear ==
  ASSUME NEW m \in Nat \ {0}, NEW a \in Int, -m <= a, a < 2 * m
  PROVE  Res(a, m) = IF a < 0 THEN a + m ELSE IF a < m THEN a ELSE a - m
<1> DEFINE q == a \div m
<1>1. a = m * q + (a % m) /\ a % m \in 0 .. m - 1 /\ q \in Int
  BY SMT
<1> HIDE DEF q
<1>2. q \in {-1, 0, 1}
  <2>1. ~ (q >= 2)
    <3> SUFFICES ASSUME q >= 2 PROVE FALSE
      OBVIOUS
    <3>1. m * q >= m * 2
      BY <1>1
    <3> QED
      BY <3>1, <1>1
  <2>2. ~ (q <= -2)
    <3> SUFFICES ASSUME q <= -2 PROVE FALSE
      OBVIOUS
    <3>1. m * q <= m * (-2)
      BY <1>1
    <3> QED
      BY <3>1, <1>1
  <2> QED
    BY <2>1, <2>2, <1>1
<1>3. m * q = IF q = 0 THEN 0 ELSE IF q = 1 THEN m ELSE -m
  BY <1>2
<1> QED
  BY <1>1, <1>2, <1>3 DEF Res

\* A remainder is below what it is taken by.
LEMMA ModType ==
  ASSUME NEW m \in Nat \ {0}, NEW a \in Int
  PROVE  a % m \in 0 .. m - 1
  BY SMT

\* First is the least element.
LEMMA FirstIsLeast ==
  ASSUME NEW S \in SUBSET Nat, S # {}
  PROVE  openEnded!First(S) \in S
<1> DEFINE T == {0 .. n : n \in S}
<1>1. T \subseteq FiniteSubsetsOf(Nat) /\ T # {}
  <2>1. ASSUME NEW n \in S PROVE 0 .. n \in SUBSET Nat /\ IsFiniteSet(0 .. n)
    BY FS_Interval
  <2> QED BY <2>1 DEF FiniteSubsetsOf
<1>2. PICK x \in T : \A y \in T : ~ (<<y, x>> \in StrictSubsetOrdering(Nat))
  <2> HIDE DEF T
  <2> QED BY <1>1, FS_StrictSubsetOrderingWellFounded, WFMin
<1>3. PICK m \in S : x = 0 .. m
  BY DEF T
<1>4. ASSUME NEW n \in S, n < m PROVE FALSE
  <2>1. 0 .. n \in T /\ 0 .. n \subseteq 0 .. m /\ 0 .. n # 0 .. m
    <3>1. m \in 0 .. m /\ m \notin 0 .. n
      BY <1>4
    <3> QED
      BY <1>4, <3>1 DEF T
  <2>2. <<0 .. n, 0 .. m>> \in (SUBSET Nat) \X (SUBSET Nat)
    OBVIOUS
  <2> HIDE DEF T
  <2> QED
    BY <1>2, <1>3, <2>1, <2>2 DEF StrictSubsetOrdering
<1>5. \A n \in S : m <= n
  BY <1>4
<1> QED
  BY <1>5 DEF openEnded!First

-----------------------------------------------------------------------------
\* The two prefetchers compute alike.

Address == 0 .. ADDRS - 1

\* One compares addresses and the other strides, which comes to the same.
LEMMA SameStride ==
  ASSUME NEW p \in Address, NEW s \in Address, NEW a \in Address
  PROVE  stride!Plus(p, s) = a <=> openEnded!Stride(p, a) = s
<1>1. ADDRS \in Nat \ {0}
  BY LoadLoopAssumption
<1>2. Res(p + s, ADDRS) = IF p + s < ADDRS THEN p + s ELSE p + s - ADDRS
  <2>1. p + s \in Int /\ -ADDRS <= p + s /\ p + s < 2 * ADDRS /\ ~ (p + s < 0)
    BY <1>1 DEF Address
  <2>2. Res(p + s, ADDRS) = IF p + s < 0 THEN (p + s) + ADDRS
                            ELSE IF p + s < ADDRS THEN p + s ELSE (p + s) - ADDRS
    BY <2>1, <1>1, ModNear
  <2> QED
    BY <1>1, <2>1, <2>2 DEF Address
<1>3. Res(a - p, ADDRS) = IF a < p THEN a - p + ADDRS ELSE a - p
  <2>1. a - p \in Int /\ -ADDRS <= a - p /\ a - p < ADDRS /\ (a - p < 0 <=> a < p)
    BY <1>1 DEF Address
  <2> QED
    BY <2>1, <1>1, ModNear
<1>4. (IF p + s < ADDRS THEN p + s ELSE p + s - ADDRS) = a
      <=> (IF a < p THEN a - p + ADDRS ELSE a - p) = s
  BY <1>1 DEF Address
<1>5. stride!Plus(p, s) = Res(p + s, ADDRS) /\ openEnded!Stride(p, a) = Res(a - p, ADDRS)
  BY DEF Res, stride!Plus, openEnded!Stride
<1> QED
  BY <1>2, <1>3, <1>4, <1>5

\* The automata and the address computations are the same.
LEMMA SameAutomaton ==
  /\ \A st, same : /\ stride!NextState(st, same) = openEnded!NextState(st, same)
                   /\ stride!LearnsStride(st, same) = openEnded!LearnsStride(st, same)
  /\ \A p, a : stride!Stride(p, a) = openEnded!Stride(p, a) /\ Stride(p, a) = openEnded!Stride(p, a)
  /\ \A p, a : stride!Plus(p, a) = openEnded!Plus(p, a)
  /\ \A a : stride!CACHE_BADDR(a) = openEnded!CACHE_BADDR(a) /\ CACHE_BADDR(a) = openEnded!CACHE_BADDR(a)
  /\ \A s : Signed(s) = openEnded!Signed(s)
  BY DEF stride!NextState, openEnded!NextState, stride!LearnsStride, openEnded!LearnsStride,
         stride!Stride, openEnded!Stride, Stride, stride!Plus, openEnded!Plus,
         stride!CACHE_BADDR, openEnded!CACHE_BADDR, CACHE_BADDR, Signed, openEnded!Signed

\* A stride is of the width of an address.
LEMMA StrideType == \A p, a \in Address : openEnded!Stride(p, a) \in Address
<1> SUFFICES ASSUME NEW p \in Address, NEW a \in Address PROVE openEnded!Stride(p, a) \in Address
  OBVIOUS
<1>1. ADDRS \in Nat \ {0} /\ a - p \in Int
  BY LoadLoopAssumption DEF Address
<1> QED
  BY <1>1, ModType DEF openEnded!Stride, Address

\* The automaton stays in its states.
LEMMA NextStateType == \A st \in States : \A same : openEnded!NextState(st, same) \in States
  BY DEF openEnded!NextState, States

-----------------------------------------------------------------------------
\* The types, and that while one load is in the loop its two entries agree.

RptEntry == [PC : Nat, previous : Address, stride : Address, state : States]
Row0     == [openEnded!Links -> [addr : Address, count : Nat]]
OpEntry  == [PC : Nat, previous : Address, stride : Address, state : States,
             link : [openEnded!Links -> Row0]]

Typed ==
  /\ body \in Bodies /\ pos \in DOMAIN body
  /\ m_pRPTTable \in [stride!Entries -> RptEntry]
  /\ m_aOPTable \in [openEnded!Entries -> OpEntry]

\* The entries of the one load.
RptOf == stride!Entry(body[pos].PC)
OpOf  == openEnded!Entry(body[pos].PC)

Agree ==
  OnePC => /\ RptOf.PC = OpOf.PC /\ RptOf.previous = OpOf.previous
           /\ RptOf.stride = OpOf.stride /\ RptOf.state = OpOf.state

\* The places of the loop, one after the other.
LEMMA Places ==
  ASSUME body \in Bodies
  PROVE  /\ Len(body) \in Nat \ {0} /\ DOMAIN body = 1 .. Len(body)
         /\ \A i \in DOMAIN body :
              /\ body[i] \in [PC : Nat \ {0}, addr : Address]
              /\ Following(i) \in DOMAIN body /\ Before(i) \in DOMAIN body
              /\ Following(Before(i)) = i /\ Before(Following(i)) = i
<1>1. body # <<>> /\ body \in Seq([PC : Nat \ {0}, addr : Address])
  BY LoadLoopAssumption DEF Address
<1>2. Len(body) \in Nat \ {0} /\ DOMAIN body = 1 .. Len(body)
  BY <1>1
<1>3. ASSUME NEW i \in DOMAIN body PROVE Following(i) = IF i = Len(body) THEN 1 ELSE i + 1
  <2>1. Res(i, Len(body)) = IF i < Len(body) THEN i ELSE i - Len(body)
    <3>1. i \in Int /\ -Len(body) <= i /\ i < 2 * Len(body) /\ ~ (i < 0)
      BY <1>2
    <3> QED
      BY <1>2, <3>1, ModNear
  <2> QED
    BY <1>2, <2>1 DEF Following, Res
<1>4. ASSUME NEW i \in DOMAIN body
      PROVE  /\ Following(i) \in DOMAIN body /\ Before(i) \in DOMAIN body
             /\ Following(Before(i)) = i /\ Before(Following(i)) = i
  <2>1. Following(i) \in DOMAIN body /\ Before(i) \in DOMAIN body
    BY <1>2, <1>3 DEF Before
  <2>2. Following(Before(i)) = i
    <3>1. Following(Before(i)) = IF Before(i) = Len(body) THEN 1 ELSE Before(i) + 1
      BY <1>3, <2>1
    <3> QED
      BY <1>2, <3>1 DEF Before
  <2>3. Before(Following(i)) = i
    <3>1. Following(i) = IF i = Len(body) THEN 1 ELSE i + 1
      BY <1>3
    <3> QED
      BY <1>2, <3>1 DEF Before
  <2> QED
    BY <2>1, <2>2, <2>3
<1>5. \A i \in DOMAIN body : body[i] \in [PC : Nat \ {0}, addr : Address]
  <2> DEFINE S == [PC : Nat \ {0}, addr : Address]
  <2>1. body \in Seq(S)
    BY <1>1
  <2> HIDE DEF S
  <2>2. \A i \in DOMAIN body : body[i] \in S
    BY <1>2, <2>1
  <2> QED
    BY <2>2 DEF S
<1> QED
  BY <1>2, <1>4, <1>5

\* The indices into the tables are in them.
LEMMA Indices ==
  /\ \A pc \in Nat : stride!table_index(pc) \in stride!Entries
  /\ \A pc \in Nat : openEnded!table_index(pc) \in openEnded!Entries
  /\ \A a \in Address : openEnded!miss_inddex(a) \in openEnded!Links
<1>1. /\ prefetch_type \in Nat \ {0} /\ OPEntry_SIZE \in Nat \ {0} /\ OPLink_SIZE \in Nat \ {0}
      /\ Address \subseteq Nat
  BY LoadLoopAssumption DEF Address
<1>2. \A n \in Nat : n \div 8 \in Int
  BY SMT
<1>3. /\ \A n \in Nat : (n \div 8) % prefetch_type \in 0 .. prefetch_type - 1
      /\ \A n \in Nat : (n \div 8) % OPEntry_SIZE \in 0 .. OPEntry_SIZE - 1
      /\ \A n \in Nat : (n \div 8) % OPLink_SIZE \in 0 .. OPLink_SIZE - 1
  BY <1>1, <1>2, ModType
<1> QED
  BY <1>1, <1>3 DEF stride!table_index, stride!Entries, openEnded!table_index, openEnded!Entries,
                    openEnded!miss_inddex, openEnded!Links

\* Counting keeps a row typed.
LEMMA CountedType ==
  ASSUME NEW row \in Row0, NEW a \in Address
  PROVE  openEnded!Counted(row, a) \in Row0
<1> DEFINE known == {j \in openEnded!Links : row[j].addr = a}
           free  == {j \in openEnded!Links : row[j].count = 0}
<1>0. known \subseteq Nat /\ free \subseteq Nat /\ OFTEN \in Nat
  BY LoadLoopAssumption DEF openEnded!Links
<1>1. known # {} => openEnded!First(known) \in known
  <2> HIDE DEF known
  <2> QED
    BY <1>0, FirstIsLeast
<1>2. free # {} => openEnded!First(free) \in free
  <2> HIDE DEF free
  <2> QED
    BY <1>0, FirstIsLeast
<1>3. CASE known # {}
  <2> DEFINE x == openEnded!First(known)
  <2>1. x \in openEnded!Links
    BY <1>1, <1>3
  <2>2. openEnded!Counted(row, a)
          = [row EXCEPT ![x].count = IF @ < OFTEN THEN @ + 1 ELSE @]
    BY <1>3 DEF openEnded!Counted
  <2> HIDE DEF x
  <2> QED
    BY <2>1, <2>2 DEF Row0
<1>4. CASE known = {} /\ free # {}
  <2> DEFINE x == openEnded!First(free)
  <2>1. x \in openEnded!Links
    BY <1>2, <1>4
  <2>2. openEnded!Counted(row, a) = [row EXCEPT ![x] = [addr |-> a, count |-> 1]]
    BY <1>4 DEF openEnded!Counted
  <2> HIDE DEF x
  <2> QED
    BY <2>1, <2>2 DEF Row0
<1>5. CASE known = {} /\ free = {}
  <2>1. openEnded!Counted(row, a) = row
    BY <1>5 DEF openEnded!Counted
  <2> QED
    BY <2>1
<1> QED
  BY <1>3, <1>4, <1>5

\* What a call of the stride prefetcher makes of its table.
LEMMA StrideCall ==
  ASSUME Typed, NEW pc \in Nat, NEW a \in Address, stride!stride_prefetcher(pc, a)
  PROVE  LET e    == stride!Entry(pc)
             same == openEnded!Stride(e.previous, a) = e.stride
             st   == openEnded!NextState(e.state, same)
         IN /\ m_pRPTTable' \in [stride!Entries -> RptEntry]
            /\ e.PC # pc =>
                 /\ m_pRPTTable'[stride!table_index(pc)] =
                      [PC |-> pc, previous |-> a, stride |-> 0, state |-> "Init"]
                 /\ target' = stride!None
            /\ e.PC = pc =>
                 /\ m_pRPTTable'[stride!table_index(pc)] =
                      [PC |-> pc, previous |-> a,
                       stride |-> IF openEnded!LearnsStride(e.state, same)
                                  THEN openEnded!Stride(e.previous, a) ELSE e.stride,
                       state |-> st]
                 /\ target' = IF st = "No_Predict" THEN stride!None
                              ELSE openEnded!CACHE_BADDR(openEnded!Plus(a, e.stride))
<1> DEFINE e    == stride!Entry(pc)
           same == openEnded!Stride(e.previous, a) = e.stride
           st   == openEnded!NextState(e.state, same)
           i    == stride!table_index(pc)
           new  == IF openEnded!LearnsStride(e.state, same)
                   THEN openEnded!Stride(e.previous, a) ELSE e.stride
<1>1. i \in stride!Entries /\ e = m_pRPTTable[i] /\ 0 \in Address
  BY Indices, LoadLoopAssumption DEF stride!Entry, Address
<1>2. /\ m_pRPTTable \in [stride!Entries -> RptEntry]
      /\ e \in [PC : Nat, previous : Address, stride : Address, state : States]
  BY <1>1 DEF Typed, RptEntry
<1>3. (stride!Plus(e.previous, e.stride) = a) = same
  BY <1>2, SameStride
<1>4. new \in Address /\ st \in States
  BY <1>2, StrideType, NextStateType
<1>5. CASE e.PC # pc
  <2>1. /\ m_pRPTTable' = [m_pRPTTable EXCEPT ![i] =
             [PC |-> pc, previous |-> a, stride |-> 0, state |-> "Init"]]
        /\ target' = stride!None
    BY <1>5 DEF stride!stride_prefetcher, stride!NewEntry, stride!Train, stride!SamePC
  <2>2. [PC |-> pc, previous |-> a, stride |-> 0, state |-> "Init"] \in RptEntry
    BY <1>1 DEF RptEntry, States
  <2> HIDE DEF e, i
  <2>3. m_pRPTTable' \in [stride!Entries -> RptEntry]
    BY <1>1, <1>2, <2>1, <2>2
  <2>4. m_pRPTTable'[i] = [PC |-> pc, previous |-> a, stride |-> 0, state |-> "Init"]
    BY <1>1, <1>2, <2>1
  <2> QED
    BY <1>5, <2>1, <2>3, <2>4 DEF e, i
<1>6. CASE e.PC = pc
  <2> DEFINE entry == [PC |-> pc, previous |-> a, stride |-> new, state |-> st]
  <2>0. /\ stride!NextState(e.state, same) = st
        /\ stride!LearnsStride(e.state, same) = openEnded!LearnsStride(e.state, same)
        /\ stride!Stride(e.previous, a) = openEnded!Stride(e.previous, a)
        /\ \A x : stride!CACHE_BADDR(x) = openEnded!CACHE_BADDR(x)
        /\ stride!Plus(a, e.stride) = openEnded!Plus(a, e.stride)
    BY SameAutomaton
  <2>1. /\ m_pRPTTable' = [m_pRPTTable EXCEPT ![i] = entry]
        /\ target' = IF st = "No_Predict" THEN stride!None
                     ELSE openEnded!CACHE_BADDR(openEnded!Plus(a, e.stride))
    <3>1. stride!Train(pc, a)
      BY <1>6 DEF stride!stride_prefetcher, stride!NewEntry, stride!SamePC
    <3> QED
      BY <3>1, <1>3, <2>0, Zenon DEF stride!Train
  <2>2. entry \in RptEntry
    BY <1>4 DEF RptEntry
  <2> HIDE DEF e, i, entry
  <2>3. m_pRPTTable' \in [stride!Entries -> RptEntry] /\ m_pRPTTable'[i] = entry
    BY <1>1, <1>2, <2>1, <2>2
  <2> QED
    BY <1>6, <2>1, <2>3 DEF e, i, entry
<1> QED
  BY <1>5, <1>6

\* What a call of the open-ended prefetcher makes of its table.
LEMMA OpenCall ==
  ASSUME Typed, NEW pc \in Nat, NEW a \in Address, openEnded!open_ended_prefetcher(pc, a)
  PROVE  LET e    == openEnded!Entry(pc)
             same == openEnded!Stride(e.previous, a) = e.stride
             st   == openEnded!NextState(e.state, same)
             link == IF openEnded!Linked(e, a)
                     THEN [e.link EXCEPT ![openEnded!miss_inddex(e.previous)] =
                             openEnded!Counted(e.link[openEnded!miss_inddex(e.previous)], a)]
                     ELSE e.link
         IN /\ m_aOPTable' \in [openEnded!Entries -> OpEntry]
            /\ e.PC # pc =>
                 /\ m_aOPTable'[openEnded!table_index(pc)] =
                      [PC |-> pc, previous |-> a, stride |-> 0, state |-> "Init",
                       link |-> openEnded!NoLinks]
                 /\ targets' = <<>>
            /\ e.PC = pc =>
                 /\ m_aOPTable'[openEnded!table_index(pc)] =
                      [PC |-> pc, previous |-> a,
                       stride |-> IF openEnded!LearnsStride(e.state, same)
                                  THEN openEnded!Stride(e.previous, a) ELSE e.stride,
                       state |-> st, link |-> link]
                 /\ targets' = IF st = "No_Predict" THEN openEnded!Followers(link, a)
                               ELSE <<openEnded!CACHE_BADDR(openEnded!Plus(a, e.stride))>>
<1> DEFINE e    == openEnded!Entry(pc)
           same == openEnded!Stride(e.previous, a) = e.stride
           st   == openEnded!NextState(e.state, same)
           i    == openEnded!table_index(pc)
           k    == openEnded!miss_inddex(e.previous)
           new  == IF openEnded!LearnsStride(e.state, same)
                   THEN openEnded!Stride(e.previous, a) ELSE e.stride
           link == IF openEnded!Linked(e, a)
                   THEN [e.link EXCEPT ![k] = openEnded!Counted(e.link[k], a)] ELSE e.link
<1>1. i \in openEnded!Entries /\ e = m_aOPTable[i] /\ 0 \in Address
  BY Indices, LoadLoopAssumption DEF openEnded!Entry, Address
<1>2. /\ m_aOPTable \in [openEnded!Entries -> OpEntry]
      /\ e \in [PC : Nat, previous : Address, stride : Address, state : States,
                 link : [openEnded!Links -> Row0]]
  BY <1>1 DEF Typed, OpEntry
<1>4. new \in Address /\ st \in States
  BY <1>2, StrideType, NextStateType
<1>5. CASE e.PC # pc
  <2> DEFINE entry == [PC |-> pc, previous |-> a, stride |-> 0, state |-> "Init",
                       link |-> openEnded!NoLinks]
  <2>1. m_aOPTable' = [m_aOPTable EXCEPT ![i] = entry] /\ targets' = <<>>
    BY <1>5 DEF openEnded!open_ended_prefetcher, openEnded!NewEntry, openEnded!Train
  <2>2. openEnded!NoLinks \in [openEnded!Links -> Row0]
    BY <1>1 DEF openEnded!NoLinks, Row0
  <2>3. entry \in OpEntry
    BY <1>1, <2>2 DEF OpEntry, States
  <2> HIDE DEF e, i, entry
  <2>4. m_aOPTable' \in [openEnded!Entries -> OpEntry] /\ m_aOPTable'[i] = entry
    BY <1>1, <1>2, <2>1, <2>3
  <2> QED
    BY <1>5, <2>1, <2>4 DEF e, i, entry
<1>6. CASE e.PC = pc
  <2> DEFINE entry == [PC |-> pc, previous |-> a, stride |-> new, state |-> st, link |-> link]
  <2>1. /\ m_aOPTable' = [m_aOPTable EXCEPT ![i] = entry]
        /\ targets' = IF st = "No_Predict" THEN openEnded!Followers(link, a)
                      ELSE <<openEnded!CACHE_BADDR(openEnded!Plus(a, e.stride))>>
    <3>1. openEnded!Train(pc, a)
      BY <1>6 DEF openEnded!open_ended_prefetcher, openEnded!NewEntry
    <3> QED
      BY <3>1, Zenon DEF openEnded!Train, openEnded!NextByStride
  <2>2. link \in [openEnded!Links -> Row0]
    <3>1. k \in openEnded!Links
      BY <1>2, Indices
    <3>2. e.link \in [openEnded!Links -> Row0]
      BY <1>2
    <3>3. openEnded!Counted(e.link[k], a) \in Row0
      BY <3>1, <3>2, CountedType
    <3> HIDE DEF e, k
    <3> QED
      BY <3>1, <3>2, <3>3
  <2>3. entry \in OpEntry
    <3> HIDE DEF link, st, new
    <3> QED
      BY <1>4, <2>2 DEF OpEntry
  <2> HIDE DEF e, i, entry
  <2>4. m_aOPTable' \in [openEnded!Entries -> OpEntry] /\ m_aOPTable'[i] = entry
    BY <1>1, <1>2, <2>1, <2>3
  <2> QED
    BY <1>6, <2>1, <2>4 DEF e, i, entry
<1> QED
  BY <1>5, <1>6

\* Two empty tables agree.
LEMMA AgreeInit == LoopInit => Typed /\ Agree
<1> SUFFICES ASSUME LoopInit PROVE Typed /\ Agree
  OBVIOUS
<1> DEFINE s == [PC |-> 0, previous |-> 0, stride |-> 0, state |-> "Not_Used"]
           e == [PC |-> 0, previous |-> 0, stride |-> 0, state |-> "Not_Used",
                 link |-> openEnded!NoLinks]
<1>1. /\ body \in Bodies /\ pos = 1 /\ 0 \in Address
      /\ m_pRPTTable = [i \in stride!Entries |-> s] /\ m_aOPTable = [i \in openEnded!Entries |-> e]
  BY LoadLoopAssumption DEF LoopInit, stride!Init, openEnded!Init, Address
<1>2. pos \in DOMAIN body /\ body[pos].PC \in Nat
  BY <1>1, Places
<1>3. s \in RptEntry /\ e \in OpEntry
  <2>1. openEnded!NoLinks \in [openEnded!Links -> Row0]
    BY <1>1 DEF openEnded!NoLinks, Row0
  <2> QED
    BY <1>1, <2>1 DEF RptEntry, OpEntry, States
<1>4. Typed
  <2> HIDE DEF s, e
  <2> QED
    BY <1>1, <1>2, <1>3 DEF Typed
<1>5. RptOf = s /\ OpOf = e
  <2>1. /\ stride!table_index(body[pos].PC) \in stride!Entries
        /\ openEnded!table_index(body[pos].PC) \in openEnded!Entries
    BY <1>2, Indices
  <2> HIDE DEF s, e
  <2> QED
    BY <1>1, <2>1 DEF RptOf, OpOf, stride!Entry, openEnded!Entry
<1> QED
  BY <1>4, <1>5 DEF Agree

\* What a load passes to the prefetchers, and what stays the same.
LEMMA LoadIs ==
  ASSUME Typed, Load
  PROVE  /\ body[pos].PC \in Nat \ {0} /\ body[pos].addr \in Address
         /\ stride!stride_prefetcher(body[pos].PC, body[pos].addr)
         /\ openEnded!open_ended_prefetcher(body[pos].PC, body[pos].addr)
         /\ body' = body /\ pos' = Following(pos) /\ pos' \in DOMAIN body /\ Before(pos') = pos
         /\ OnePC => body[pos'].PC = body[pos].PC
         /\ OnePC' <=> OnePC
<1>1. body \in Bodies /\ pos \in DOMAIN body
  BY DEF Typed
<1>2. body[pos] \in [PC : Nat \ {0}, addr : Address]
  BY <1>1, Places
<1>3. Following(pos) \in DOMAIN body /\ Before(Following(pos)) = pos
  BY <1>1, Places
<1> QED
  BY <1>1, <1>2, <1>3 DEF Load, OnePC

\* One load trains both entries alike, and what the stride prefetcher looks for the
\* other one looks for too.
LEMMA AgreeLoad ==
  ASSUME Typed, Agree, Load
  PROVE  Typed' /\ Agree' /\ FindsWhatStrideFinds'
<1> DEFINE pc == body[pos].PC
           a  == body[pos].addr
           s  == stride!Entry(pc)
           e  == openEnded!Entry(pc)
           i  == stride!table_index(pc)
           j  == openEnded!table_index(pc)
<1>1. /\ pc \in Nat \ {0} /\ a \in Address
      /\ stride!stride_prefetcher(pc, a) /\ openEnded!open_ended_prefetcher(pc, a)
      /\ body' = body /\ pos' \in DOMAIN body
      /\ OnePC => body[pos'].PC = pc
      /\ OnePC' <=> OnePC
  BY LoadIs
<1>2. Typed'
  <2>1. m_pRPTTable' \in [stride!Entries -> RptEntry]
    BY <1>1, StrideCall
  <2>2. m_aOPTable' \in [openEnded!Entries -> OpEntry]
    BY <1>1, OpenCall
  <2> QED
    BY <1>1, <2>1, <2>2 DEF Typed
<1>3. SUFFICES ASSUME OnePC PROVE Agree' /\ FindsWhatStrideFinds'
  BY <1>1, <1>2 DEF Agree, FindsWhatStrideFinds
<1>4. /\ s.PC = e.PC /\ s.previous = e.previous /\ s.stride = e.stride /\ s.state = e.state
  BY <1>3 DEF Agree, RptOf, OpOf
<1>5. RptOf' = m_pRPTTable'[i] /\ OpOf' = m_aOPTable'[j]
  BY <1>1, <1>3 DEF RptOf, OpOf, stride!Entry, openEnded!Entry
<1>6. CASE e.PC # pc
  <2>1. /\ m_pRPTTable'[i] = [PC |-> pc, previous |-> a, stride |-> 0, state |-> "Init"]
        /\ target' = stride!None
    BY <1>1, <1>4, <1>6, StrideCall
  <2>2. m_aOPTable'[j] = [PC |-> pc, previous |-> a, stride |-> 0, state |-> "Init",
                          link |-> openEnded!NoLinks]
    BY <1>1, <1>6, OpenCall
  <2> QED
    BY <1>5, <2>1, <2>2 DEF Agree, FindsWhatStrideFinds
<1>7. CASE e.PC = pc
  <2> DEFINE same == openEnded!Stride(e.previous, a) = e.stride
             st   == openEnded!NextState(e.state, same)
             new  == IF openEnded!LearnsStride(e.state, same)
                     THEN openEnded!Stride(e.previous, a) ELSE e.stride
             next == openEnded!CACHE_BADDR(openEnded!Plus(a, e.stride))
             link == IF openEnded!Linked(e, a)
                     THEN [e.link EXCEPT ![openEnded!miss_inddex(e.previous)] =
                             openEnded!Counted(e.link[openEnded!miss_inddex(e.previous)], a)]
                     ELSE e.link
             sameS == openEnded!Stride(s.previous, a) = s.stride
             stS   == openEnded!NextState(s.state, sameS)
  <2>0. /\ m_pRPTTable'[i] = [PC |-> pc, previous |-> a,
                              stride |-> IF openEnded!LearnsStride(s.state, sameS)
                                         THEN openEnded!Stride(s.previous, a) ELSE s.stride,
                              state |-> stS]
        /\ target' = IF stS = "No_Predict" THEN stride!None
                     ELSE openEnded!CACHE_BADDR(openEnded!Plus(a, s.stride))
    <3>1. s.PC = pc
      BY <1>4, <1>7
    <3> QED
      BY <1>1, <3>1, StrideCall, Zenon
  <2>1. /\ m_pRPTTable'[i] = [PC |-> pc, previous |-> a, stride |-> new, state |-> st]
        /\ target' = IF st = "No_Predict" THEN stride!None ELSE next
    <3>1. (sameS <=> same) /\ stS = st
      BY <1>4, Zenon
    <3> QED
      BY <1>4, <2>0, <3>1, Zenon
  <2>2. m_aOPTable'[j] = [PC |-> pc, previous |-> a, stride |-> new, state |-> st, link |-> link]
    BY <1>1, <1>7, OpenCall, Zenon
  <2>3. st # "No_Predict" => targets' = <<next>>
    BY <1>1, <1>7, OpenCall
  <2> HIDE DEF next, st, new, link, i, j, pc, a
  <2>4. Agree'
    BY <1>5, <2>1, <2>2 DEF Agree
  <2>5. FindsWhatStrideFinds'
    BY <2>1, <2>3 DEF FindsWhatStrideFinds, LookedFor
  <2> QED
    BY <2>4, <2>5
<1> QED
  BY <1>6, <1>7

\* Whatever the sizes of the tables, and for every loop of one load: what the stride
\* prefetcher looks for, open_ended_prefetcher looks for too.
THEOREM OpenEndedFindsStrides == LoopSpec => []FindsWhatStrideFinds
<1>1. LoopInit => Typed /\ Agree /\ FindsWhatStrideFinds
  BY AgreeInit DEF LoopInit, stride!Init, FindsWhatStrideFinds
<1>2. Typed /\ Agree /\ FindsWhatStrideFinds /\ [Load]_loopVars
        => Typed' /\ Agree' /\ FindsWhatStrideFinds'
  <2>1. CASE Load
    BY <2>1, AgreeLoad
  <2>2. CASE UNCHANGED loopVars
    BY <2>2 DEF loopVars, Typed, Agree, FindsWhatStrideFinds, OnePC, RptOf, OpOf, LookedFor,
                stride!Entry, openEnded!Entry
  <2> QED
    BY <2>1, <2>2
<1> QED
  BY <1>1, <1>2, PTL DEF LoopSpec

-----------------------------------------------------------------------------
\* The links of the open-ended prefetcher name what follows in the loop.

Recorded ==
  OnePC =>
    /\ OpOf.PC = body[pos].PC => OpOf.previous = body[Before(pos)].addr
    /\ \A k, j \in openEnded!Links :
         OpOf.link[k][j].count > 0 => OpOf.link[k][j].addr \in FollowersOf(k)

\* Nothing is recorded yet.
LEMMA RecordedInit == LoopInit => Recorded
<1> SUFFICES ASSUME LoopInit, OnePC PROVE Recorded
  BY DEF Recorded
<1> DEFINE e == [PC |-> 0, previous |-> 0, stride |-> 0, state |-> "Not_Used",
                 link |-> openEnded!NoLinks]
<1>1. body \in Bodies /\ pos = 1 /\ m_aOPTable = [i \in openEnded!Entries |-> e]
  BY DEF LoopInit, openEnded!Init
<1>2. body[pos].PC \in Nat \ {0}
  <2>1. body[pos] \in [PC : Nat \ {0}, addr : Address]
    BY <1>1, Places
  <2> QED
    BY <2>1
<1>3. OpOf = e
  <2>1. openEnded!table_index(body[pos].PC) \in openEnded!Entries
    BY <1>2, Indices
  <2> HIDE DEF e
  <2> QED
    BY <1>1, <2>1 DEF OpOf, openEnded!Entry
<1>4. \A k, j \in openEnded!Links : e.link[k][j].count = 0
  BY DEF openEnded!NoLinks
<1> QED
  BY <1>2, <1>3, <1>4 DEF Recorded

\* Counting an address adds at most this address to a row.
LEMMA CountedIn ==
  ASSUME NEW row \in Row0, NEW a \in Address, NEW F, a \in F,
         \A j \in openEnded!Links : row[j].count > 0 => row[j].addr \in F
  PROVE  \A j \in openEnded!Links :
           openEnded!Counted(row, a)[j].count > 0 => openEnded!Counted(row, a)[j].addr \in F
<1> DEFINE known == {j \in openEnded!Links : row[j].addr = a}
           free  == {j \in openEnded!Links : row[j].count = 0}
<1>0. known \subseteq Nat /\ free \subseteq Nat
  BY LoadLoopAssumption DEF openEnded!Links
<1>1. known # {} => openEnded!First(known) \in known
  <2> HIDE DEF known
  <2> QED
    BY <1>0, FirstIsLeast
<1>2. free # {} => openEnded!First(free) \in free
  <2> HIDE DEF free
  <2> QED
    BY <1>0, FirstIsLeast
<1>3. CASE known # {}
  <2> DEFINE x == openEnded!First(known)
  <2>1. x \in openEnded!Links /\ row[x].addr = a
    BY <1>1, <1>3
  <2>2. openEnded!Counted(row, a)
          = [row EXCEPT ![x].count = IF @ < OFTEN THEN @ + 1 ELSE @]
    BY <1>3 DEF openEnded!Counted
  <2> HIDE DEF x
  <2>3. \A j \in openEnded!Links :
          /\ openEnded!Counted(row, a)[j].addr = row[j].addr
          /\ j # x => openEnded!Counted(row, a)[j] = row[j]
    BY <2>1, <2>2 DEF Row0
  <2> QED
    BY <2>1, <2>3
<1>4. CASE known = {} /\ free # {}
  <2> DEFINE x == openEnded!First(free)
  <2>1. x \in openEnded!Links
    BY <1>2, <1>4
  <2>2. openEnded!Counted(row, a) = [row EXCEPT ![x] = [addr |-> a, count |-> 1]]
    BY <1>4 DEF openEnded!Counted
  <2> HIDE DEF x
  <2> QED
    BY <2>1, <2>2 DEF Row0
<1>5. CASE known = {} /\ free = {}
  <2>1. openEnded!Counted(row, a) = row
    BY <1>5 DEF openEnded!Counted
  <2> QED
    BY <2>1
<1> QED
  BY <1>3, <1>4, <1>5

\* What the action property says of a load.
LookedForFollower ==
  LET pc == body[pos].PC IN
  OnePC /\ openEnded!Entry(pc).PC = pc /\ openEnded!Entry(pc)'.state = "No_Predict" =>
    \A j \in DOMAIN targets' :
      \E b \in FollowersOf(openEnded!miss_inddex(body[pos].addr)) :
        targets'[j] = CACHE_BADDR(b)

\* An address that is recorded at this load is the successor of the one before it, and
\* at least a block behind it.
LEMMA RecordsSuccessor ==
  ASSUME Typed, OnePC, OpOf.previous = body[Before(pos)].addr,
         openEnded!Linked(OpOf, body[pos].addr)
  PROVE  body[pos].addr \in FollowersOf(openEnded!miss_inddex(OpOf.previous))
<1> DEFINE i == Before(pos)
<1>1. i \in DOMAIN body /\ Following(i) = pos
  BY Places DEF Typed
<1>2. Signed(StrideAt(i)) >= bsize
  BY <1>1, SameAutomaton DEF StrideAt, openEnded!Linked
<1> QED
  BY <1>1, <1>2 DEF FollowersOf

\* A load records its address with the one before it only, and looks for what is recorded.
LEMMA RecordedLoad ==
  ASSUME Typed, Recorded, Load
  PROVE  Recorded' /\ LookedForFollower
<1> SUFFICES ASSUME OnePC PROVE Recorded' /\ LookedForFollower
  BY LoadIs DEF Recorded, LookedForFollower
<1> DEFINE pc == body[pos].PC
           a  == body[pos].addr
           e  == OpOf
           i  == openEnded!table_index(pc)
           k0 == openEnded!miss_inddex(e.previous)
           same == openEnded!Stride(e.previous, a) = e.stride
           st   == openEnded!NextState(e.state, same)
           link == IF openEnded!Linked(e, a)
                   THEN [e.link EXCEPT ![k0] = openEnded!Counted(e.link[k0], a)] ELSE e.link
<1>1. /\ pc \in Nat \ {0} /\ a \in Address /\ openEnded!open_ended_prefetcher(pc, a)
      /\ body' = body /\ pos' \in DOMAIN body /\ body[pos'].PC = pc /\ Before(pos') = pos
  BY LoadIs
<1>2. OpOf' = m_aOPTable'[i] /\ openEnded!Entry(pc) = e /\ openEnded!Entry(pc)' = m_aOPTable'[i]
  BY <1>1 DEF OpOf, openEnded!Entry
<1>3. \A k : FollowersOf(k)' = FollowersOf(k)
  BY <1>1 DEF FollowersOf, StrideAt, Following
<1>4. Before(pos)' = pos /\ body[Before(pos)]' = body[pos]
  BY <1>1 DEF Before
<1>5. e \in OpEntry
  <2>1. i \in openEnded!Entries
    BY <1>1, Indices
  <2> QED
    BY <2>1 DEF Typed, OpOf, openEnded!Entry
<1>6. CASE e.PC # pc
  <2>1. m_aOPTable'[i] = [PC |-> pc, previous |-> a, stride |-> 0, state |-> "Init",
                          link |-> openEnded!NoLinks]
    BY <1>1, <1>2, <1>6, OpenCall, Zenon
  <2>2. \A k, j \in openEnded!Links : openEnded!NoLinks[k][j].count = 0
    BY DEF openEnded!NoLinks
  <2>3. Recorded'
    <3> HIDE DEF i, a
    <3>1. OpOf'.previous = a /\ OpOf'.link = openEnded!NoLinks
      BY <1>2, <2>1
    <3> QED
      BY <1>4, <2>2, <3>1 DEF Recorded, a
  <2>4. LookedForFollower
    BY <1>2, <1>6 DEF LookedForFollower
  <2> QED
    BY <2>3, <2>4
<1>7. CASE e.PC = pc
  <2>1. /\ m_aOPTable'[i] = [PC |-> pc, previous |-> a,
                             stride |-> IF openEnded!LearnsStride(e.state, same)
                                        THEN openEnded!Stride(e.previous, a) ELSE e.stride,
                             state |-> st, link |-> link]
        /\ targets' = IF st = "No_Predict" THEN openEnded!Followers(link, a)
                      ELSE <<openEnded!CACHE_BADDR(openEnded!Plus(a, e.stride))>>
    BY <1>1, <1>2, <1>7, OpenCall, Zenon
  <2>2. OpOf'.previous = a /\ OpOf'.link = link /\ OpOf'.state = st
    <3> HIDE DEF i, a, st, link
    <3> QED
      BY <1>2, <2>1
  <2>3. \A k, j \in openEnded!Links : link[k][j].count > 0 => link[k][j].addr \in FollowersOf(k)
    <3>1. e.link \in [openEnded!Links -> Row0] /\ e.previous \in Address
      BY <1>5 DEF OpEntry
    <3>2. \A k, j \in openEnded!Links :
            e.link[k][j].count > 0 => e.link[k][j].addr \in FollowersOf(k)
      BY DEF Recorded
    <3>3. CASE ~ openEnded!Linked(e, a)
      BY <3>2, <3>3
    <3>4. CASE openEnded!Linked(e, a)
      <4>1. a \in FollowersOf(k0)
        BY <1>7, <3>4, RecordsSuccessor DEF Recorded
      <4>2. k0 \in openEnded!Links /\ e.link[k0] \in Row0
        BY <3>1, Indices
      <4>3. \A j \in openEnded!Links :
              openEnded!Counted(e.link[k0], a)[j].count > 0
                => openEnded!Counted(e.link[k0], a)[j].addr \in FollowersOf(k0)
        BY <1>1, <3>2, <4>1, <4>2, CountedIn
      <4>4. link = [e.link EXCEPT ![k0] = openEnded!Counted(e.link[k0], a)]
        BY <3>4
      <4> HIDE DEF link, e, k0, a
      <4> QED
        BY <3>1, <3>2, <4>2, <4>3, <4>4
    <3> QED
      BY <3>3, <3>4
  <2>4. Recorded'
    <3> HIDE DEF link, a
    <3> QED
      BY <1>3, <1>4, <2>2, <2>3 DEF Recorded, a
  <2>5. LookedForFollower
    <3>1. SUFFICES ASSUME st = "No_Predict", NEW j \in DOMAIN targets'
                   PROVE  \E b \in FollowersOf(openEnded!miss_inddex(a)) :
                            targets'[j] = CACHE_BADDR(b)
      BY <1>2, <2>2 DEF LookedForFollower
    <3> DEFINE k == openEnded!miss_inddex(a)
    <3>2. targets' = [x \in {y \in openEnded!Links : link[k][y].count >= OFTEN} |->
                        openEnded!CACHE_BADDR(link[k][x].addr)]
      BY <2>1, <3>1 DEF openEnded!Followers
    <3> HIDE DEF link
    <3>3. j \in openEnded!Links /\ link[k][j].count >= OFTEN
          /\ targets'[j] = openEnded!CACHE_BADDR(link[k][j].addr)
      BY <3>1, <3>2
    <3>4. k \in openEnded!Links
      BY <1>1, Indices
    <3>5. link[k][j].count > 0
      <4>1. link[k][j].count \in Nat
        <5>1. OpOf' \in OpEntry
          <6>1. m_aOPTable' \in [openEnded!Entries -> OpEntry] /\ i \in openEnded!Entries
            BY <1>1, OpenCall, Indices
          <6> QED
            BY <1>2, <6>1
        <5>2. link \in [openEnded!Links -> Row0]
          BY <2>2, <5>1 DEF OpEntry
        <5> QED
          BY <3>3, <3>4, <5>2 DEF Row0
      <4> QED
        BY <3>3, <4>1, LoadLoopAssumption
    <3>6. link[k][j].addr \in FollowersOf(k)
      BY <2>3, <3>3, <3>4, <3>5
    <3> QED
      BY <3>3, <3>6, SameAutomaton
  <2> QED
    BY <2>4, <2>5
<1> QED
  BY <1>6, <1>7

\* Whatever the sizes of the tables and the loop: where open_ended_prefetcher does not
\* know the stride it looks only for addresses that followed one of this place before,
\* by a jump forward over at least a block.
THEOREM OpenEndedLooksForFollowers == LoopSpec => LooksForFollowers
<1>1. LoopInit => Typed /\ Agree /\ Recorded
  BY AgreeInit, RecordedInit
<1>2. Typed /\ Agree /\ Recorded /\ [Load]_loopVars
        => (Typed /\ Agree /\ Recorded)' /\ [LookedForFollower]_loopVars
  <2>1. CASE Load
    BY <2>1, AgreeLoad, RecordedLoad
  <2>2. CASE UNCHANGED loopVars
    BY <2>2 DEF loopVars, Typed, Agree, Recorded, OnePC, RptOf, OpOf, stride!Entry,
                openEnded!Entry, FollowersOf, StrideAt, Following, Before
  <2> QED
    BY <2>1, <2>2
<1>3. [LookedForFollower]_loopVars
        <=> [LET pc == body[pos].PC IN
             OnePC /\ openEnded!Entry(pc).PC = pc /\ openEnded!Entry(pc)'.state = "No_Predict" =>
               \A j \in DOMAIN targets' :
                 \E b \in FollowersOf(openEnded!miss_inddex(body[pos].addr)) :
                   targets'[j] = CACHE_BADDR(b)]_loopVars
  BY DEF LookedForFollower
<1> QED
  BY <1>1, <1>2, <1>3, PTL DEF LoopSpec, LooksForFollowers
=============================================================================
