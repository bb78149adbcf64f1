-------------------------- MODULE OutOfOrderProofs ---------------------------
(***************************************************************************)
(* Proofs about the out-of-order pipeline: counting links in lists, the    *)
(* rings of RUU and LSQ, what each handler changes, and how the handlers   *)
(* keep the lists of links, the two rings and the wrong path in agreement; *)
(* then the theorems for every size, program and option on types, wrong    *)
(* paths, loads and the two rings.                                         *)
(***************************************************************************)
EXTENDS OutOfOrderInvariant, TLAPS, FiniteSetTheorems, FunctionTheorems, SequenceTheorems, WellFoundedInduction

-----------------------------------------------------------------------------
\* Lemmas about numbers, finite sets and lists.

\* A residue, as an operator of its own: the provers find no instances of a lemma by its %.
Res(a, m) == a % m

\* Residues near the modulus.
LEMMA ModNear ==
  ASSUME NEW m \in Nat \ {0}, NEW a \in Int, -m <= a, a < 2 * m
  PROVE  Res(a, m) = IF a < 0 THEN a + m ELSE IF a < m THEN a ELSE a - m
<1> DEFINE q == a \div m
<1>1. a = m * q + (a % m) /\ a % m \in 0 .. m - 1 /\ q \in Int
  BY SMT
<1> HIDE DEF q
<1>2. q \in {-1, 0, 1}
  <2>1. ~ (q >= 2)
    <3> SUFFICES ASSUME q >= 2 PROVE FALSE
      OBVIOUS
    <3>1. m * q >= m * 2
      BY <1>1
    <3> QED
      BY <3>1, <1>1
  <2>2. ~ (q <= -2)
    <3> SUFFICES ASSUME q <= -2 PROVE FALSE
      OBVIOUS
    <3>1. m * q <= m * (-2)
      BY <1>1
    <3> QED
      BY <3>1, <1>1
  <2> QED
    BY <2>1, <2>2, <1>1
<1>3. m * q = IF q = 0 THEN 0 ELSE IF q = 1 THEN m ELSE -m
  BY <1>2
<1> QED
  BY <1>1, <1>2, <1>3 DEF Res

\* Places and distances in a ring of m entries whose first one is h.
LEMMA Ring ==
  ASSUME NEW m \in Nat \ {0}, NEW h \in 0 .. m - 1
  PROVE  /\ \A p \in 0 .. m - 1 : Res(h + p, m) \in 0 .. m - 1 /\ Res(Res(h + p, m) - h, m) = p
         /\ \A i \in 0 .. m - 1 : Res(i - h, m) \in 0 .. m - 1 /\ Res(h + Res(i - h, m), m) = i
<1>1. ASSUME NEW p \in 0 .. m - 1
      PROVE  Res(h + p, m) \in 0 .. m - 1 /\ Res(Res(h + p, m) - h, m) = p
  <2>1. Res(h + p, m) = IF h + p < m THEN h + p ELSE h + p - m
    BY ModNear
  <2> QED
    BY <2>1, ModNear
<1>2. ASSUME NEW i \in 0 .. m - 1
      PROVE  Res(i - h, m) \in 0 .. m - 1 /\ Res(h + Res(i - h, m), m) = i
  <2>1. Res(i - h, m) = IF i < h THEN i - h + m ELSE i - h
    BY ModNear
  <2> QED
    BY <2>1, ModNear
<1> QED
  BY <1>1, <1>2

\* The ring when its first entry has left.
LEMMA RingShift ==
  ASSUME NEW m \in Nat \ {0}, NEW h \in 0 .. m - 1, NEW g, g = Res(h + 1, m)
  PROVE  /\ g \in 0 .. m - 1
         /\ \A i \in 0 .. m - 1 : i # h => Res(i - g, m) = Res(i - h, m) - 1
         /\ Res(h - g, m) = m - 1 /\ Res(h - h, m) = 0
         /\ \A p \in 0 .. m - 1 : Res(g + p, m) = Res(h + (p + 1), m)
<1>1. g = IF h = m - 1 THEN 0 ELSE h + 1
  BY ModNear
<1>2. ASSUME NEW i \in 0 .. m - 1, i # h
      PROVE  Res(i - g, m) = Res(i - h, m) - 1
  BY <1>1, <1>2, ModNear
<1>3. Res(h - g, m) = m - 1 /\ Res(h - h, m) = 0
  <2>1. Res(h - g, m) = IF h - g < 0 THEN h - g + m ELSE h - g
    BY <1>1, ModNear
  <2>2. h - h = 0 /\ Res(0, m) = 0
    BY ModNear
  <2> QED
    BY <1>1, <2>1, <2>2
<1>4. ASSUME NEW p \in 0 .. m - 1
      PROVE  Res(g + p, m) = Res(h + (p + 1), m)
  <2>1. Res(h + (p + 1), m) = IF h + p + 1 < m THEN h + p + 1 ELSE h + p + 1 - m
    BY ModNear
  <2>2. Res(g + p, m) = IF g + p < m THEN g + p ELSE g + p - m
    BY <1>1, ModNear
  <2> QED
    BY <1>1, <2>1, <2>2
<1>6. g \in 0 .. m - 1
  BY <1>1
<1> QED
  BY <1>2, <1>3, <1>4, <1>6

\* A ring with one entry more, and with fewer.
LEMMA RingTail ==
  ASSUME NEW m \in Nat \ {0}, NEW h \in 0 .. m - 1, NEW k \in 0 .. m
  PROVE  /\ k < m => Res(Res(h + k, m) + 1, m) = Res(h + (k + 1), m)
         /\ \A j \in 0 .. k : Res(Res(h + k, m) - j, m) = Res(h + (k - j), m)
         /\ Res(h + k, m) \in 0 .. m - 1
<1> DEFINE t == Res(h + k, m)
<1>1. t = IF h + k < m THEN h + k ELSE h + k - m
  BY ModNear
<1> HIDE DEF t
<1>2. ASSUME k < m
      PROVE  Res(t + 1, m) = Res(h + (k + 1), m)
  <2>1. Res(h + (k + 1), m) = IF h + k + 1 < m THEN h + k + 1 ELSE h + k + 1 - m
    BY <1>2, ModNear
  <2>2. Res(t + 1, m) = IF t + 1 < m THEN t + 1 ELSE t + 1 - m
    BY <1>1, <1>2, ModNear
  <2> QED
    BY <1>1, <1>2, <2>1, <2>2
<1>3. ASSUME NEW j \in 0 .. k
      PROVE  Res(t - j, m) = Res(h + (k - j), m)
  <2>1. Res(h + (k - j), m) = IF h + k - j < m THEN h + k - j ELSE h + k - j - m
    BY ModNear
  <2>2. Res(t - j, m) = IF t - j < 0 THEN t - j + m ELSE t - j
    BY <1>1, ModNear
  <2> QED
    BY <1>1, <2>1, <2>2
<1>4. t \in 0 .. m - 1
  BY <1>1
<1> QED
  BY <1>2, <1>3, <1>4 DEF t

\* A set of numbers can be moved.
LEMMA MovedSet ==
  ASSUME NEW S, NEW T, S \subseteq Int, T \subseteq Int, NEW d \in Int, IsFiniteSet(S),
         \A x \in Int : x \in S <=> x + d \in T
  PROVE  IsFiniteSet(T) /\ Cardinality(T) = Cardinality(S)
<1> DEFINE f == [x \in S |-> x + d]
<1>1. f \in [S -> T] /\ \A a, b \in S : f[a] = f[b] => a = b
  OBVIOUS
<1>2. \A t \in T : \E s \in S : f[s] = t
  <2> SUFFICES ASSUME NEW t \in T
               PROVE  \E s \in S : f[s] = t
    OBVIOUS
  <2>1. t - d \in Int /\ (t - d) + d = t
    OBVIOUS
  <2>2. t - d \in S
    BY <2>1
  <2> QED
    BY <2>1, <2>2
<1>3. f \in Bijection(S, T)
  BY <1>1, <1>2, Fun_IsBij, Zenon
<1>4. ExistsBijection(S, T)
  BY <1>3, Fun_ExistsBij
<1> QED
  BY <1>4, FS_Bijection

\* A sequence is finite, and so are the places in it.
LEMMA CountType ==
  ASSUME NEW S, NEW q \in Seq(S), NEW s, NEW t
  PROVE  /\ IsFiniteSet(Places(q, s, t)) /\ CountOf(q, s, t) \in Nat
         /\ \A i : i \in Places(q, s, t) <=> i \in 1 .. Len(q) /\ q[i].rs = s /\ q[i].tag = t
<1>1. IsFiniteSet(1 .. Len(q)) /\ DOMAIN q = 1 .. Len(q)
  BY FS_Interval, LenProperties
<1>2. Places(q, s, t) \subseteq 1 .. Len(q)
  BY <1>1 DEF Places
<1>3. IsFiniteSet(Places(q, s, t))
  BY <1>1, <1>2, FS_Subset
<1> QED
  BY <1>1, <1>3, FS_CardinalityType DEF CountOf, Places

\* A link that is there counts, and none that is not.
LEMMA CountSome ==
  ASSUME NEW S, NEW q \in Seq(S), NEW s, NEW t
  PROVE  CountOf(q, s, t) = 0 <=> \A i \in DOMAIN q : ~ (q[i].rs = s /\ q[i].tag = t)
<1>1. Cardinality(Places(q, s, t)) = 0 <=> Places(q, s, t) = {}
  BY CountType, FS_EmptySet
<1> QED
  BY <1>1 DEF CountOf, Places

\* r is q with e behind its first k elements.
Inserted(q, r, k, e) ==
  /\ k \in 0 .. Len(q) /\ Len(r) = Len(q) + 1 /\ r[k + 1] = e
  /\ \A i \in 1 .. k : r[i] = q[i]
  /\ \A i \in k + 1 .. Len(q) : r[i + 1] = q[i]

\* One link more in a list.
LEMMA CountInserted ==
  ASSUME NEW S, NEW q \in Seq(S), NEW r \in Seq(S), NEW k, NEW e, Inserted(q, r, k, e),
         NEW s, NEW t
  PROVE  CountOf(r, s, t) = CountOf(q, s, t) + One(e.rs = s /\ e.tag = t)
<1> DEFINE A == Places(q, s, t)
           B == Places(r, s, t)
           C == B \ {k + 1}
           f == [i \in A |-> IF i <= k THEN i ELSE i + 1]
<1>1. /\ Len(q) \in Nat /\ DOMAIN q = 1 .. Len(q) /\ DOMAIN r = 1 .. Len(r)
      /\ k \in 0 .. Len(q) /\ Len(r) = Len(q) + 1 /\ r[k + 1] = e
      /\ \A i \in 1 .. k : r[i] = q[i]
      /\ \A i \in k + 1 .. Len(q) : r[i + 1] = q[i]
  BY LenProperties DEF Inserted
<1>2. IsFiniteSet(A) /\ IsFiniteSet(B) /\ CountOf(q, s, t) = Cardinality(A)
      /\ CountOf(r, s, t) = Cardinality(B)
  BY CountType DEF CountOf
<1>a. /\ \A i : i \in A <=> i \in 1 .. Len(q) /\ q[i].rs = s /\ q[i].tag = t
      /\ \A i : i \in B <=> i \in 1 .. Len(r) /\ r[i].rs = s /\ r[i].tag = t
  BY CountType
<1> HIDE DEF A, B
<1>3. \A i \in A : f[i] \in C
  <2> SUFFICES ASSUME NEW i \in A PROVE f[i] \in C
    OBVIOUS
  <2>1. i \in 1 .. Len(q) /\ q[i].rs = s /\ q[i].tag = t
    BY <1>a
  <2>2. CASE i <= k
    <3>1. f[i] = i /\ i \in 1 .. k /\ r[i] = q[i] /\ i # k + 1
      BY <1>1, <2>1, <2>2
    <3>2. i \in 1 .. Len(r)
      BY <1>1, <2>1
    <3> QED
      BY <1>a, <2>1, <3>1, <3>2
  <2>3. CASE ~ i <= k
    <3>1. f[i] = i + 1 /\ i \in k + 1 .. Len(q) /\ r[i + 1] = q[i] /\ i + 1 # k + 1
      BY <1>1, <2>1, <2>3
    <3>2. i + 1 \in 1 .. Len(r)
      BY <1>1, <2>1
    <3> QED
      BY <1>a, <2>1, <3>1, <3>2
  <2> QED
    BY <2>2, <2>3
<1>4. f \in [A -> C] /\ \A a, b \in A : f[a] = f[b] => a = b
  BY <1>1, <1>3, <1>a
<1>5. \A c \in C : \E a \in A : f[a] = c
  <2> SUFFICES ASSUME NEW c \in C
               PROVE  \E a \in A : f[a] = c
    OBVIOUS
  <2>1. CASE c <= k
    <3>1. c \in A /\ f[c] = c
      BY <2>1, <1>1, <1>a
    <3> QED
      BY <3>1
  <2>2. CASE c > k
    <3>1. c - 1 \in k + 1 .. Len(q) /\ (c - 1) + 1 = c
      BY <2>2, <1>1, <1>a
    <3> DEFINE a == c - 1
    <3> HIDE DEF a
    <3>2. a \in k + 1 .. Len(q) /\ a + 1 = c
      BY <3>1 DEF a
    <3>3. a \in A
      BY <3>2, <1>1, <1>a
    <3>4. f[a] = c
      BY <3>2, <3>3, <1>1
    <3> QED
      BY <3>3, <3>4
  <2> QED
    BY <2>1, <2>2, <1>1, <1>a
<1>6. f \in Bijection(A, C)
  BY <1>4, <1>5, Fun_IsBij, Zenon
<1>7. Cardinality(C) = Cardinality(A)
  BY <1>2, <1>6, Fun_ExistsBij, FS_Bijection
<1>8. Cardinality(B) \in Nat /\ Cardinality(C) = IF k + 1 \in B THEN Cardinality(B) - 1 ELSE Cardinality(B)
  BY <1>2, FS_RemoveElement, FS_CardinalityType
<1>9. k + 1 \in B <=> e.rs = s /\ e.tag = t
  BY <1>1, <1>a
<1> QED
  BY <1>2, <1>7, <1>8, <1>9 DEF One

\* A link more at the front, and one fewer there.
LEMMA CountCons ==
  ASSUME NEW S, NEW q \in Seq(S), NEW e \in S, NEW s, NEW t
  PROVE  /\ <<e>> \o q \in Seq(S)
         /\ CountOf(<<e>> \o q, s, t) = CountOf(q, s, t) + One(e.rs = s /\ e.tag = t)
<1> DEFINE r == <<e>> \o q
<1>1. r \in Seq(S) /\ Len(r) = Len(q) + 1 /\ r[1] = e /\ \A i \in 1 .. Len(q) : r[i + 1] = q[i]
  <2>1. <<e>> \in Seq(S) /\ Len(<<e>>) = 1 /\ Len(q) \in Nat
    BY LenProperties
  <2>2. /\ r \in Seq(S) /\ Len(r) = 1 + Len(q)
        /\ \A i \in 1 .. 1 + Len(q) : r[i] = IF i <= 1 THEN <<e>>[i] ELSE q[i - 1]
    BY <2>1, ConcatProperties, Zenon
  <2> QED
    BY <2>1, <2>2
<1> HIDE DEF r
<1>2. Inserted(q, r, 0, e)
  BY <1>1, LenProperties DEF Inserted
<1>3. CountOf(r, s, t) = CountOf(q, s, t) + One(e.rs = s /\ e.tag = t)
  BY <1>1, <1>2, CountInserted
<1> QED
  BY <1>1, <1>3 DEF r

\* Without its head a list has one link less to the station of the head.
LEMMA CountTail ==
  ASSUME NEW S, NEW q \in Seq(S), q # <<>>, NEW s, NEW t
  PROVE  /\ Head(q) \in S /\ Tail(q) \in Seq(S)
         /\ CountOf(q, s, t) = CountOf(Tail(q), s, t) + One(Head(q).rs = s /\ Head(q).tag = t)
         /\ CountOf(Tail(q), s, t) \in Nat
<1>1. /\ Head(q) \in S /\ Tail(q) \in Seq(S) /\ Len(Tail(q)) = Len(q) - 1
      /\ \A i \in 1 .. Len(Tail(q)) : Tail(q)[i] = q[i + 1]
  BY HeadTailProperties, Zenon
<1>2. Len(q) \in Nat /\ Len(Tail(q)) \in Nat /\ Head(q) = q[1]
  BY <1>1, LenProperties
<1>3. Inserted(Tail(q), q, 0, Head(q))
  BY <1>1, <1>2 DEF Inserted
<1>4. CountOf(Tail(q), s, t) \in Nat
  BY <1>1, CountType
<1>5. CountOf(q, s, t) = CountOf(Tail(q), s, t) + One(Head(q).rs = s /\ Head(q).tag = t)
  <2> DEFINE p == Tail(q)
             h == Head(q)
  <2>1. p \in Seq(S) /\ Inserted(p, q, 0, h)
    BY <1>1, <1>3
  <2> HIDE DEF p, h
  <2>2. CountOf(q, s, t) = CountOf(p, s, t) + One(h.rs = s /\ h.tag = t)
    BY <2>1, CountInserted
  <2> QED
    BY <2>2 DEF p, h
<1> QED
  BY <1>1, <1>4, <1>5

\* The list q with e behind its first k elements.
InsertAfter(q, k, e) == SubSeq(q, 1, k) \o <<e>> \o SubSeq(q, k + 1, Len(q))

\* r holds e, the links of q, and nothing else.
OneMore(S, q, r, e) ==
  /\ r \in Seq(S) /\ Len(r) = Len(q) + 1 /\ DOMAIN r = 1 .. Len(r) /\ DOMAIN q = 1 .. Len(q)
  /\ \A i \in DOMAIN r : r[i] = e \/ \E j \in DOMAIN q : r[i] = q[j]
  /\ \A s, t : CountOf(r, s, t) = CountOf(q, s, t) + One(e.rs = s /\ e.tag = t)

\* What InsertSorted does, whatever the order is.
LEMMA CountInsert ==
  ASSUME NEW S, NEW q \in Seq(S), NEW e \in S, NEW P, P \subseteq DOMAIN q
  PROVE  OneMore(S, q, InsertAfter(q, Cardinality(P), e), e)
<1> DEFINE k == Cardinality(P)
           a == SubSeq(q, 1, k)
           c == SubSeq(q, k + 1, Len(q))
           b == a \o <<e>>
           r == b \o c
<1>1. Len(q) \in Nat /\ DOMAIN q = 1 .. Len(q) /\ \A i \in 1 .. Len(q) : q[i] \in S
  BY LenProperties, ElementOfSeq
<1>2. k \in 0 .. Len(q)
  <2>1. IsFiniteSet(1 .. Len(q)) /\ Cardinality(1 .. Len(q)) = Len(q)
    BY <1>1, FS_Interval
  <2> QED
    BY <2>1, <1>1, FS_Subset, FS_CardinalityType
<1> HIDE DEF k
<1>3. a \in Seq(S) /\ Len(a) = k /\ \A i \in 1 .. k : a[i] = q[i]
  <2>1. \A i \in 1 .. k : q[i] \in S
    BY <1>1, <1>2
  <2>2. /\ a \in Seq(S) /\ Len(a) = IF 1 <= k THEN k - 1 + 1 ELSE 0
        /\ \A i \in 1 .. k - 1 + 1 : a[i] = q[1 + i - 1]
    BY <2>1, <1>2, SubSeqProperties
  <2> QED
    BY <2>2, <1>2
<1>4. c \in Seq(S) /\ Len(c) = Len(q) - k /\ \A i \in 1 .. Len(q) - k : c[i] = q[k + i]
  <2>1. \A i \in k + 1 .. Len(q) : q[i] \in S
    BY <1>1, <1>2
  <2>2. /\ c \in Seq(S) /\ Len(c) = IF k + 1 <= Len(q) THEN Len(q) - (k + 1) + 1 ELSE 0
        /\ \A i \in 1 .. Len(q) - (k + 1) + 1 : c[i] = q[(k + 1) + i - 1]
    BY <2>1, <1>1, <1>2, SubSeqProperties
  <2>3. \A i \in 1 .. Len(q) - k : c[i] = q[k + i]
    <3> SUFFICES ASSUME NEW i \in 1 .. Len(q) - k
                 PROVE  c[i] = q[k + i]
      OBVIOUS
    <3>1. i \in 1 .. Len(q) - (k + 1) + 1 /\ (k + 1) + i - 1 = k + i
      BY <1>1, <1>2
    <3> QED
      BY <2>2, <3>1
  <2>4. Len(c) = Len(q) - k
    <3>1. CASE k + 1 <= Len(q)
      BY <2>2, <3>1, <1>1, <1>2
    <3>2. CASE ~ (k + 1 <= Len(q))
      <4>1. Len(q) \in Nat /\ k \in 0 .. Len(q)
        BY <1>1, <1>2
      <4>2. k = Len(q)
        BY <4>1, <3>2
      <4>3. Len(c) = 0
        BY <2>2, <3>2
      <4> QED
        BY <4>1, <4>2, <4>3
    <3> QED
      BY <3>1, <3>2
  <2> QED
    BY <2>2, <2>3, <2>4, Zenon
<1> HIDE DEF a, c
<1>5. b \in Seq(S) /\ Len(b) = k + 1 /\ (\A i \in 1 .. k : b[i] = q[i]) /\ b[k + 1] = e
  <2>1. <<e>> \in Seq(S) /\ Len(<<e>>) = 1 /\ <<e>>[1] = e
    OBVIOUS
  <2>2. /\ b \in Seq(S) /\ Len(b) = k + 1
        /\ \A i \in 1 .. k + 1 : b[i] = IF i <= k THEN a[i] ELSE <<e>>[i - k]
    BY <2>1, <1>3, ConcatProperties
  <2> QED
    BY <2>1, <2>2, <1>2, <1>3
<1> HIDE DEF b
<1>6. /\ r \in Seq(S) /\ Len(r) = Len(q) + 1 /\ (\A i \in 1 .. k : r[i] = q[i]) /\ r[k + 1] = e
      /\ \A i \in k + 1 .. Len(q) : r[i + 1] = q[i]
  <2>0. /\ r \in Seq(S) /\ Len(r) = Len(b) + Len(c)
        /\ \A i \in 1 .. Len(b) + Len(c) : r[i] = IF i <= Len(b) THEN b[i] ELSE c[i - Len(b)]
    BY <1>4, <1>5, ConcatProperties, Zenon
  <2>1. /\ r \in Seq(S) /\ Len(r) = (k + 1) + (Len(q) - k)
        /\ \A i \in 1 .. (k + 1) + (Len(q) - k) : r[i] = IF i <= k + 1 THEN b[i] ELSE c[i - (k + 1)]
    BY <2>0, <1>4, <1>5
  <2>2. \A i \in k + 1 .. Len(q) : i - k \in 1 .. Len(q) - k /\ k + (i - k) = i /\ (i + 1) - (k + 1) = i - k
    BY <1>1, <1>2
  <2>3. \A i \in k + 1 .. Len(q) : r[i + 1] = q[i]
    <3> SUFFICES ASSUME NEW i \in k + 1 .. Len(q)
                 PROVE  r[i + 1] = q[i]
      OBVIOUS
    <3>1. i + 1 \in 1 .. (k + 1) + (Len(q) - k) /\ ~ (i + 1 <= k + 1)
      BY <1>1, <1>2
    <3>2. r[i + 1] = c[(i + 1) - (k + 1)]
      BY <2>1, <3>1
    <3>3. (i + 1) - (k + 1) = i - k /\ c[i - k] = q[k + (i - k)] /\ k + (i - k) = i
      BY <2>2, <1>4
    <3> QED
      BY <3>2, <3>3
  <2> QED
    BY <2>1, <2>3, <1>1, <1>2, <1>5
<1> HIDE DEF r
<1>7. \A s, t : CountOf(r, s, t) = CountOf(q, s, t) + One(e.rs = s /\ e.tag = t)
  <2> SUFFICES ASSUME NEW s, NEW t
               PROVE  CountOf(r, s, t) = CountOf(q, s, t) + One(e.rs = s /\ e.tag = t)
    OBVIOUS
  <2>1. Inserted(q, r, k, e)
    BY <1>2, <1>6 DEF Inserted
  <2> QED
    BY <2>1, <1>6, CountInserted
<1>8. \A i \in 1 .. Len(r) : r[i] = e \/ \E j \in 1 .. Len(q) : r[i] = q[j]
  <2> SUFFICES ASSUME NEW i \in 1 .. Len(r)
               PROVE  r[i] = e \/ \E j \in 1 .. Len(q) : r[i] = q[j]
    OBVIOUS
  <2>1. CASE i <= k
    BY <2>1, <1>1, <1>2, <1>6
  <2>2. CASE i > k + 1
    <3>1. i - 1 \in k + 1 .. Len(q) /\ (i - 1) + 1 = i
      BY <2>2, <1>1, <1>2, <1>6
    <3>2. r[(i - 1) + 1] = q[i - 1]
      BY <3>1, <1>6
    <3>3. i - 1 \in 1 .. Len(q)
      BY <3>1, <1>1, <1>2
    <3> QED
      BY <3>1, <3>2, <3>3
  <2> QED
    BY <2>1, <2>2, <1>1, <1>2, <1>6
<1>9. DOMAIN r = 1 .. Len(r) /\ DOMAIN q = 1 .. Len(q)
  BY <1>1, <1>6, LenProperties
<1>10. OneMore(S, q, r, e)
  BY <1>6, <1>7, <1>8, <1>9 DEF OneMore
<1> QED
  BY <1>10 DEF r, b, a, c, k, InsertAfter

\* Two lists in a row.
LEMMA CountConcat ==
  ASSUME NEW S, NEW p \in Seq(S), NEW q \in Seq(S), NEW s, NEW t
  PROVE  CountOf(p \o q, s, t) = CountOf(p, s, t) + CountOf(q, s, t)
<1> DEFINE r == p \o q
           A == Places(p, s, t)
           B == Places(q, s, t)
           C == {i \in Len(p) + 1 .. Len(p) + Len(q) : r[i].rs = s /\ r[i].tag = t}
           R == Places(r, s, t)
<1>1. /\ Len(p) \in Nat /\ DOMAIN p = 1 .. Len(p)
      /\ Len(q) \in Nat /\ DOMAIN q = 1 .. Len(q)
  BY LenProperties
<1>2. /\ r \in Seq(S) /\ Len(r) = Len(p) + Len(q)
      /\ \A i \in 1 .. Len(p) + Len(q) : r[i] = IF i <= Len(p) THEN p[i] ELSE q[i - Len(p)]
  BY ConcatProperties
<1> HIDE DEF r
<1>4. IsFiniteSet(A) /\ IsFiniteSet(B) /\ Cardinality(A) = CountOf(p, s, t)
      /\ Cardinality(B) = CountOf(q, s, t) /\ Cardinality(R) = CountOf(r, s, t)
  BY <1>2, CountType DEF CountOf
<1>a. /\ \A i : i \in A <=> i \in 1 .. Len(p) /\ p[i].rs = s /\ p[i].tag = t
      /\ \A i : i \in B <=> i \in 1 .. Len(q) /\ q[i].rs = s /\ q[i].tag = t
      /\ \A i : i \in R <=> i \in 1 .. Len(r) /\ r[i].rs = s /\ r[i].tag = t
  BY <1>2, CountType
<1> HIDE DEF A, B, R
<1>5. IsFiniteSet(C) /\ Cardinality(C) = Cardinality(B)
  <2>1. \A x \in Int : x \in B <=> x + Len(p) \in C
    <3> SUFFICES ASSUME NEW x \in Int
                 PROVE  x \in B <=> x + Len(p) \in C
      OBVIOUS
    <3>1. CASE x \in 1 .. Len(q)
      <4>1. r[x + Len(p)] = q[x]
        BY <3>1, <1>1, <1>2
      <4> QED
        BY <4>1, <3>1, <1>1, <1>a
    <3>2. CASE x \notin 1 .. Len(q)
      BY <3>2, <1>1, <1>a
    <3> QED
      BY <3>1, <3>2
  <2>2. B \subseteq Int /\ C \subseteq Int /\ Len(p) \in Int
    BY <1>1, <1>a
  <2> HIDE DEF C
  <2> QED
    BY <2>1, <2>2, <1>4, MovedSet, Zenon
<1>6. R = A \cup C /\ A \cap C = {}
  <2>1. \A i : i \in C <=> i \in Len(p) + 1 .. Len(p) + Len(q) /\ r[i].rs = s /\ r[i].tag = t
    OBVIOUS
  <2> HIDE DEF C
  <2>2. \A i : i \in R <=> i \in A \/ i \in C
    BY <2>1, <1>1, <1>2, <1>a
  <2>3. \A i : ~ (i \in A /\ i \in C)
    BY <2>1, <1>1, <1>a
  <2> QED
    BY <2>2, <2>3
<1> HIDE DEF C
<1>7. Cardinality(R) = Cardinality(A) + Cardinality(C) - 0
  BY <1>4, <1>5, <1>6, FS_Union, FS_EmptySet
<1> QED
  BY <1>4, <1>5, <1>7, FS_CardinalityType DEF r

-----------------------------------------------------------------------------
\* The rings of the model.

\* RUU, LSQ and register file have at least one entry, and the options are flags.
LEMMA SizeType ==
  ASSUME config \in Configs
  PROVE  /\ RUU_size \in Nat \ {0} /\ LSQ_size \in Nat \ {0} /\ MD_TOTAL_REGS \in Nat \ {0}
         /\ config.inorder \in BOOLEAN /\ config.include_spec \in BOOLEAN
         /\ config.perfect \in BOOLEAN /\ config.bugcompat \in BOOLEAN
<1>1. RUU_size \in Nat \ {0} /\ LSQ_size \in Nat \ {0} /\ MD_TOTAL_REGS \in Nat \ {0}
  BY SizesAssumption DEF PowersOfTwo, LSQ_size
<1>2. /\ config.inorder \in BOOLEAN /\ config.include_spec \in BOOLEAN
      /\ config.perfect \in BOOLEAN /\ config.bugcompat \in BOOLEAN
  BY ProgramAssumption
<1> QED
  BY <1>1, <1>2

\* The variables of the two rings have their types.
RingsTyped ==
  /\ config \in Configs
  /\ RUU_head \in 0 .. RUU_size - 1 /\ RUU_tail \in 0 .. RUU_size - 1 /\ RUU_num \in 0 .. RUU_size
  /\ LSQ_head \in 0 .. LSQ_size - 1 /\ LSQ_tail \in 0 .. LSQ_size - 1 /\ LSQ_num \in 0 .. LSQ_size

\* TypeOK gives the types of the two rings.
LEMMA RingsAreTyped == TypeOK => RingsTyped
BY DEF TypeOK, RingsTyped

\* A station is the one at its place.
LEMMA Slots ==
  ASSUME RingsTyped
  PROVE  /\ \A p \in 0 .. RUU_size - 1 :
              RuuAt(p) \in Stations /\ RuuAt(p)[1] = "RUU" /\ Pos(RuuAt(p)) = p
         /\ \A p \in 0 .. LSQ_size - 1 :
              LsqAt(p) \in Stations /\ LsqAt(p)[1] = "LSQ" /\ Pos(LsqAt(p)) = p
         /\ \A s \in Stations :
              \/ s[1] = "RUU" /\ Pos(s) \in 0 .. RUU_size - 1 /\ RuuAt(Pos(s)) = s
              \/ s[1] = "LSQ" /\ Pos(s) \in 0 .. LSQ_size - 1 /\ LsqAt(Pos(s)) = s
         /\ RuuAt(0) = RuuHead /\ LsqAt(0) = LsqHead /\ RuuHead \in Stations /\ LsqHead \in Stations
<1>0. /\ RUU_size \in Nat \ {0} /\ LSQ_size \in Nat \ {0}
      /\ RUU_head \in 0 .. RUU_size - 1 /\ LSQ_head \in 0 .. LSQ_size - 1
  BY SizeType DEF RingsTyped
<1>1. ASSUME NEW p \in 0 .. RUU_size - 1
      PROVE  RuuAt(p) \in Stations /\ RuuAt(p)[1] = "RUU" /\ Pos(RuuAt(p)) = p
  <2>1. Res(RUU_head + p, RUU_size) \in 0 .. RUU_size - 1
        /\ Res(Res(RUU_head + p, RUU_size) - RUU_head, RUU_size) = p
    BY <1>0, Ring
  <2> QED
    BY <2>1 DEF Res, RuuAt, Stations, Pos
<1>2. ASSUME NEW p \in 0 .. LSQ_size - 1
      PROVE  LsqAt(p) \in Stations /\ LsqAt(p)[1] = "LSQ" /\ Pos(LsqAt(p)) = p
  <2>1. Res(LSQ_head + p, LSQ_size) \in 0 .. LSQ_size - 1
        /\ Res(Res(LSQ_head + p, LSQ_size) - LSQ_head, LSQ_size) = p
    BY <1>0, Ring
  <2> QED
    BY <2>1 DEF Res, LsqAt, Stations, Pos
<1>3. ASSUME NEW s \in Stations
      PROVE  \/ s[1] = "RUU" /\ Pos(s) \in 0 .. RUU_size - 1 /\ RuuAt(Pos(s)) = s
             \/ s[1] = "LSQ" /\ Pos(s) \in 0 .. LSQ_size - 1 /\ LsqAt(Pos(s)) = s
  <2>1. CASE s \in {"RUU"} \X (0 .. RUU_size - 1)
    <3>1. s[1] = "RUU" /\ s[2] \in 0 .. RUU_size - 1 /\ s = <<s[1], s[2]>>
      BY <2>1
    <3>2. /\ Res(s[2] - RUU_head, RUU_size) \in 0 .. RUU_size - 1
          /\ Res(RUU_head + Res(s[2] - RUU_head, RUU_size), RUU_size) = s[2]
      BY <1>0, <3>1, Ring
    <3> QED
      BY <3>1, <3>2 DEF Res, Pos, RuuAt
  <2>2. CASE s \in {"LSQ"} \X (0 .. LSQ_size - 1)
    <3>1. s[1] = "LSQ" /\ s[2] \in 0 .. LSQ_size - 1 /\ s = <<s[1], s[2]>>
      BY <2>2
    <3>2. /\ Res(s[2] - LSQ_head, LSQ_size) \in 0 .. LSQ_size - 1
          /\ Res(LSQ_head + Res(s[2] - LSQ_head, LSQ_size), LSQ_size) = s[2]
      BY <1>0, <3>1, Ring
    <3> QED
      BY <3>1, <3>2 DEF Res, Pos, LsqAt
  <2> QED
    BY <2>1, <2>2 DEF Stations
<1>4. RuuAt(0) = RuuHead /\ LsqAt(0) = LsqHead
  <2>1. RUU_head + 0 = RUU_head /\ LSQ_head + 0 = LSQ_head
    BY <1>0
  <2>2. Res(RUU_head, RUU_size) = RUU_head /\ Res(LSQ_head, LSQ_size) = LSQ_head
    BY <1>0, ModNear
  <2> QED
    BY <2>1, <2>2 DEF Res, RuuAt, RuuHead, LsqAt, LsqHead
<1>5. RuuHead \in Stations /\ LsqHead \in Stations
  BY <1>0 DEF RuuHead, LsqHead, Stations
<1> QED
  BY <1>1, <1>2, <1>3, <1>4, <1>5

\* The window is the entries of the RUU and of the LSQ.
LEMMA InFlightIs ==
  ASSUME RingsTyped
  PROVE  /\ InFlight \subseteq Stations
         /\ \A s \in Stations : s \in InFlight <=> InWindow(s)
         /\ \A s \in Stations : s[1] = "RUU" => (InWindow(s) <=> Pos(s) < RUU_num)
         /\ \A s \in Stations : s[1] = "LSQ" => (InWindow(s) <=> Pos(s) < LSQ_num)
         /\ \A p \in Window : /\ p \in 0 .. RUU_size - 1 /\ RuuAt(p) \in InFlight
                              /\ InWindow(RuuAt(p))
         /\ \A p \in 0 .. LSQ_num - 1 : /\ p \in 0 .. LSQ_size - 1 /\ LsqAt(p) \in InFlight
                                        /\ InWindow(LsqAt(p))
<1>1. /\ InFlight \subseteq Stations
      /\ \A s \in Stations : s \in InFlight <=> InWindow(s)
      /\ \A s \in Stations : s[1] = "RUU" => (InWindow(s) <=> Pos(s) < RUU_num)
      /\ \A s \in Stations : s[1] = "LSQ" => (InWindow(s) <=> Pos(s) < LSQ_num)
  BY DEF InFlight, InWindow
<1>2. /\ RUU_num \in 0 .. RUU_size /\ LSQ_num \in 0 .. LSQ_size
      /\ RUU_size \in Nat /\ LSQ_size \in Nat
  BY SizeType DEF RingsTyped
<1>3. /\ \A p \in Window : p \in 0 .. RUU_size - 1 /\ p < RUU_num
      /\ \A p \in 0 .. LSQ_num - 1 : p \in 0 .. LSQ_size - 1 /\ p < LSQ_num
  BY <1>2 DEF Window
<1> QED
  BY <1>1, <1>3, Slots

-----------------------------------------------------------------------------
\* What the steps leave alone in a station.

\* Two records of a station are of the same instruction.
SameText(a, b) ==
  /\ a.op = b.op /\ a.PC = b.PC /\ a.ea_comp = b.ea_comp /\ a.recover_inst = b.recover_inst
  /\ a.spec_mode = b.spec_mode /\ a.addr = b.addr /\ a.seq = b.seq /\ a.onames = b.onames
\* It is as far as it was.
SameState(a, b)  == a.queued = b.queued /\ a.issued = b.issued /\ a.completed = b.completed
SameChains(a, b) == a.odep_list = b.odep_list /\ a.idep_ready = b.idep_ready

\* Two empty output chains.
LEMMA NoChains ==
  /\ NoConsumers \in [1 .. 2 -> Seq(Links_)] /\ NoConsumers[1] = <<>> /\ NoConsumers[2] = <<>>
  /\ \A f \in [1 .. 2 -> Seq(Links_)] : f = NoConsumers <=> f[1] = <<>> /\ f[2] = <<>>
<1>1. NoConsumers = [k \in 1 .. 2 |-> <<>>]
  BY SMT DEF NoConsumers
<1>2. NoConsumers[1] = <<>> /\ NoConsumers[2] = <<>>
  BY DEF NoConsumers
<1>3. NoConsumers \in [1 .. 2 -> Seq(Links_)]
  BY <1>1
<1>4. ASSUME NEW f \in [1 .. 2 -> Seq(Links_)], f[1] = <<>>, f[2] = <<>>
      PROVE  f = NoConsumers
  <2>1. \A k \in 1 .. 2 : f[k] = <<>>
    BY <1>4
  <2> QED
    BY <1>1, <2>1
<1> QED
  BY <1>2, <1>3, <1>4

\* What an update of tag leaves of a station.
LEMMA TagField ==
  ASSUME NEW b \in Station, NEW v \in Nat, NEW a, a = [b EXCEPT !.tag = v]
  PROVE  a \in Station /\ SameText(a, b) /\ SameState(a, b) /\ SameChains(a, b) /\ a.tag = v
BY DEF Station, SameText, SameState, SameChains

\* What an update of output chains leaves of a station.
LEMMA ChainsField ==
  ASSUME NEW b \in Station, NEW v \in [1 .. 2 -> Seq(Links_)], NEW a, a = [b EXCEPT !.odep_list = v]
  PROVE  /\ a \in Station /\ SameText(a, b) /\ SameState(a, b) /\ a.tag = b.tag
         /\ a.idep_ready = b.idep_ready /\ a.odep_list = v
BY DEF Station, SameText, SameState

\* A squashed station.
Cut(b) == [b EXCEPT !.tag = @ + 1, !.odep_list = NoConsumers]

\* A squash raises the tag, empties the chains, and leaves the rest of a station.
LEMMA SquashFields ==
  ASSUME NEW b \in Station
  PROVE  /\ Cut(b) \in Station /\ SameText(Cut(b), b) /\ SameState(Cut(b), b) /\ Cut(b).tag = b.tag + 1
         /\ Cut(b).odep_list[1] = <<>> /\ Cut(b).odep_list[2] = <<>>
         /\ Cut(b).idep_ready = b.idep_ready
<1> DEFINE c == NoConsumers
           v == b.tag + 1
           w == [b EXCEPT !.tag = v]
           a == Cut(b)
<1>1. c \in [1 .. 2 -> Seq(Links_)] /\ c[1] = <<>> /\ c[2] = <<>>
  BY NoChains
<1>2. w = [b EXCEPT !.tag = v] /\ v \in Nat
  BY DEF Station
<1>3. a = [w EXCEPT !.odep_list = c]
  BY Zenon DEF Cut
<1> HIDE DEF c, v, w, a
<1>4. w \in Station /\ SameText(w, b) /\ SameState(w, b) /\ SameChains(w, b) /\ w.tag = v
  BY <1>2, TagField
<1>5. w \in Station
  BY <1>4
<1>6. c \in [1 .. 2 -> Seq(Links_)]
  BY <1>1
<1>7. /\ a \in Station /\ SameText(a, w) /\ SameState(a, w) /\ a.tag = w.tag
      /\ a.odep_list = c /\ a.idep_ready = w.idep_ready
  BY ONLY <1>5, <1>6, <1>3, ChainsField
<1>8. SameText(a, b) /\ SameState(a, b)
  BY <1>4, <1>7 DEF SameText, SameState
<1>9. /\ a \in Station /\ a.tag = v /\ a.idep_ready = b.idep_ready
      /\ a.odep_list[1] = <<>> /\ a.odep_list[2] = <<>>
  BY <1>1, <1>4, <1>7 DEF SameChains
<1> QED
  BY <1>8, <1>9 DEF a, v

\* What an update of completed leaves of a station.
LEMMA CompletedField ==
  ASSUME NEW b \in Station, NEW a, a = [b EXCEPT !.completed = TRUE]
  PROVE  /\ a \in Station /\ SameText(a, b) /\ SameChains(a, b) /\ a.tag = b.tag
         /\ a.queued = b.queued /\ a.issued = b.issued /\ a.completed
BY DEF Station, SameText, SameChains

\* What an update of queued leaves of a station.
LEMMA QueuedField ==
  ASSUME NEW b \in Station, NEW v \in BOOLEAN, NEW a, a = [b EXCEPT !.queued = v]
  PROVE  /\ a \in Station /\ SameText(a, b) /\ SameChains(a, b) /\ a.tag = b.tag
         /\ a.queued = v /\ a.issued = b.issued /\ a.completed = b.completed
BY DEF Station, SameText, SameChains

\* What an update of queued leaves of a station.
LEMMA NotQueuedField ==
  ASSUME NEW b \in Station, NEW a, a = [b EXCEPT !.queued = FALSE]
  PROVE  /\ a \in Station /\ SameText(a, b) /\ SameChains(a, b) /\ a.tag = b.tag
         /\ ~ a.queued /\ a.issued = b.issued /\ a.completed = b.completed
BY DEF Station, SameText, SameChains

\* What an update of issued leaves of a station.
LEMMA IssuedField ==
  ASSUME NEW b \in Station, NEW a, a = [b EXCEPT !.issued = TRUE]
  PROVE  /\ a \in Station /\ SameText(a, b) /\ SameChains(a, b) /\ a.tag = b.tag
         /\ a.queued = b.queued /\ a.issued /\ a.completed = b.completed
BY DEF Station, SameText, SameChains

\* What a broadcast to an operand leaves of a station.
LEMMA OperandFields ==
  ASSUME NEW b \in Station, NEW f \in [1 .. 3 -> BOOLEAN], NEW v \in BOOLEAN, NEW a,
         a = [b EXCEPT !.idep_ready = f, !.queued = v]
  PROVE  /\ a \in Station /\ SameText(a, b) /\ a.odep_list = b.odep_list /\ a.tag = b.tag
         /\ a.idep_ready = f /\ a.queued = v /\ a.issued = b.issued /\ a.completed = b.completed
BY DEF Station, SameText

\* What an update of operands leaves of a station.
LEMMA IdepField ==
  ASSUME NEW b \in Station, NEW f \in [1 .. 3 -> BOOLEAN], NEW a, a = [b EXCEPT !.idep_ready = f]
  PROVE  /\ a \in Station /\ SameText(a, b) /\ SameState(a, b) /\ a.odep_list = b.odep_list
         /\ a.tag = b.tag /\ a.idep_ready = f
BY DEF Station, SameText, SameState

TextKept   == \A s \in Stations : SameText(rs'[s], rs[s])
TagsKept   == \A s \in Stations : rs'[s].tag = rs[s].tag
StateKept  == \A s \in Stations : SameState(rs'[s], rs[s])
ChainsKept == \A s \in Stations : SameChains(rs'[s], rs[s])
RsTyped    == rs' \in [Stations -> Station] /\ Stations' = Stations
WindowKept == UNCHANGED <<code, config, windowVars>>

\* The stations are fixed by the configuration.
LEMMA StationsKept == config' = config => Stations' = Stations /\ LSQ_size' = LSQ_size
BY DEF Stations, LSQ_size

\* A step that leaves the stations alone keeps texts, tags, states and chains.
LEMMA RsKept ==
  ASSUME TypeOK, rs' = rs, config' = config
  PROVE  RsTyped /\ TextKept /\ TagsKept /\ StateKept /\ ChainsKept
BY StationsKept DEF TypeOK, RsTyped, TextKept, TagsKept, StateKept, ChainsKept, SameText, SameState, SameChains

\* Retired stations.
Gone == {RuuHead} \cup IF rs[RuuHead].ea_comp THEN {LsqHead} ELSE {}

\* ruu_commit only raises the tags of what it retires.
LEMMA CommitEffect ==
  ASSUME TypeOK, Commit
  PROVE  /\ RsTyped /\ TextKept /\ StateKept /\ ChainsKept
         /\ \A s \in Stations : rs'[s].tag = IF s \in Gone THEN rs[s].tag + 1 ELSE rs[s].tag
<1>0. /\ config' = config /\ rs \in [Stations -> Station]
      /\ rs' = [s \in Stations |-> IF s \in Gone THEN [rs[s] EXCEPT !.tag = @ + 1] ELSE rs[s]]
  BY DEF TypeOK, Commit, Gone
<1>1. ASSUME NEW s \in Stations
      PROVE  /\ rs'[s] \in Station /\ SameText(rs'[s], rs[s]) /\ SameState(rs'[s], rs[s])
             /\ SameChains(rs'[s], rs[s])
             /\ rs'[s].tag = IF s \in Gone THEN rs[s].tag + 1 ELSE rs[s].tag
  <2>1. rs[s] \in Station /\ rs[s].tag \in Nat
    BY <1>0 DEF Station
  <2>2. CASE s \in Gone
    <3> DEFINE v == rs[s].tag + 1
    <3>1. rs'[s] = [rs[s] EXCEPT !.tag = v] /\ v \in Nat
      BY <1>0, <2>1, <2>2
    <3> HIDE DEF v
    <3>2. /\ rs'[s] \in Station /\ SameText(rs'[s], rs[s]) /\ SameState(rs'[s], rs[s])
          /\ SameChains(rs'[s], rs[s]) /\ rs'[s].tag = v
      BY <2>1, <3>1, TagField
    <3> QED
      BY <2>2, <3>2 DEF v
  <2>3. CASE s \notin Gone
    BY <1>0, <2>1, <2>3 DEF SameText, SameState, SameChains
  <2> QED
    BY <2>2, <2>3
<1> QED
  BY <1>0, <1>1, StationsKept DEF RsTyped, TextKept, StateKept, ChainsKept

\* The first event names a station.
LEMMA HeadOfEvents ==
  ASSUME TypeOK, event_queue # <<>>
  PROVE  Head(event_queue).rs \in Stations /\ Head(event_queue).tag \in Nat
         /\ Head(event_queue) \in [rs : Stations, tag : Nat, when : Int]
         /\ Tail(event_queue) \in Seq([rs : Stations, tag : Nat, when : Int])
<1> DEFINE E == [rs : Stations, tag : Nat, when : Int]
<1>1. Head(event_queue) \in E /\ Tail(event_queue) \in Seq(E)
  <2>1. event_queue \in Seq(E)
    BY DEF TypeOK
  <2> HIDE DEF E
  <2> QED
    BY <2>1, HeadTailProperties
<1> QED
  BY <1>1

\* The next candidate of ruu_issue is a station.
LEMMA HeadOfNode ==
  ASSUME TypeOK, node # <<>>
  PROVE  Candidate \in Stations /\ Head(node).rs \in Stations /\ Head(node).tag \in Nat
         /\ Head(node) \in ReadyLinks /\ Tail(node) \in Seq(ReadyLinks)
<1>1. Head(node) \in ReadyLinks /\ Tail(node) \in Seq(ReadyLinks)
  BY HeadTailProperties DEF TypeOK
<1> QED
  BY <1>1 DEF ReadyLinks, Candidate

\* ruu_writeback only marks one station completed.
LEMMA WritebackEffect ==
  ASSUME TypeOK, NEW b \in Stations, Writeback(b)
  PROVE  /\ RsTyped /\ TextKept /\ TagsKept /\ ChainsKept
         /\ \A s \in Stations : /\ rs'[s].queued = rs[s].queued /\ rs'[s].issued = rs[s].issued
                                /\ (rs'[s].completed <=> rs[s].completed \/ s = b)
<1>0. /\ config' = config /\ rs \in [Stations -> Station]
      /\ rs' = [rs EXCEPT ![b].completed = TRUE]
  BY DEF TypeOK, Writeback
<1>1. ASSUME NEW s \in Stations
      PROVE  /\ rs'[s] \in Station /\ SameText(rs'[s], rs[s]) /\ rs'[s].tag = rs[s].tag
             /\ SameChains(rs'[s], rs[s])
             /\ rs'[s].queued = rs[s].queued /\ rs'[s].issued = rs[s].issued
             /\ (rs'[s].completed <=> rs[s].completed \/ s = b)
  <2>1. rs[s] \in Station
    BY <1>0
  <2>2. CASE s = b
    <3>1. rs'[s] = [rs[s] EXCEPT !.completed = TRUE]
      BY <1>0, <2>2
    <3> QED
      BY <2>1, <2>2, <3>1, CompletedField
  <2>3. CASE s # b
    <3>1. rs'[s] = rs[s] /\ rs[s].completed \in BOOLEAN
      BY <1>0, <2>1, <2>3 DEF Station
    <3> QED
      BY <3>1, <2>1, <2>3 DEF SameText, SameChains
  <2> QED
    BY <2>2, <2>3
<1>2. rs' \in [Stations -> Station]
  BY <1>0, <1>1
<1> QED
  BY <1>0, <1>1, <1>2, StationsKept DEF RsTyped, TextKept, TagsKept, ChainsKept

\* Recovery completes the branch, and raises the tags and empties the chains of what it
\* squashes.
LEMMA RecoverEffect ==
  ASSUME TypeOK, NEW b \in Stations, Recover(b)
  PROVE  /\ RsTyped /\ TextKept
         /\ \A s \in Stations :
              /\ rs'[s].queued = rs[s].queued /\ rs'[s].issued = rs[s].issued
              /\ (rs'[s].completed <=> rs[s].completed \/ (s = b /\ s \notin Squashed(b)))
              /\ rs'[s].idep_ready = rs[s].idep_ready
         /\ \A s \in Stations :
              rs'[s].tag = IF s \in Squashed(b) THEN rs[s].tag + 1 ELSE rs[s].tag
         /\ \A s \in Stations, i \in 1 .. 2 :
              rs'[s].odep_list[i] = IF s \in Squashed(b) THEN <<>> ELSE rs[s].odep_list[i]
<1> DEFINE Q == Squashed(b)
<1>0. /\ config' = config /\ rs \in [Stations -> Station]
      /\ rs' = [s \in Stations |->
              IF s \in Q THEN Cut(rs[s])
              ELSE IF s = b THEN [rs[s] EXCEPT !.completed = TRUE] ELSE rs[s]]
  BY DEF TypeOK, Recover, Cut
<1> HIDE DEF Q
<1>1. ASSUME NEW s \in Stations, s \in Q
      PROVE  /\ rs'[s] \in Station /\ SameText(rs'[s], rs[s]) /\ SameState(rs'[s], rs[s])
             /\ rs'[s].tag = rs[s].tag + 1
             /\ rs'[s].odep_list[1] = <<>> /\ rs'[s].odep_list[2] = <<>>
             /\ rs'[s].idep_ready = rs[s].idep_ready
  <2>1. rs[s] \in Station /\ rs'[s] = Cut(rs[s])
    BY <1>0, <1>1
  <2> QED
    BY <2>1, SquashFields
<1>2. ASSUME NEW s \in Stations, s \notin Q
      PROVE  /\ rs'[s] \in Station /\ SameText(rs'[s], rs[s]) /\ SameChains(rs'[s], rs[s])
             /\ rs'[s].tag = rs[s].tag
             /\ rs'[s].queued = rs[s].queued /\ rs'[s].issued = rs[s].issued
             /\ (rs'[s].completed <=> rs[s].completed \/ s = b)
  <2>1. rs[s] \in Station /\ rs[s].completed \in BOOLEAN
    BY <1>0 DEF Station
  <2>3. CASE s = b
    <3>1. rs'[s] = [rs[s] EXCEPT !.completed = TRUE]
      BY <1>0, <1>2, <2>3
    <3> QED
      BY <2>1, <2>3, <3>1, CompletedField
  <2>4. CASE s # b
    <3>1. rs'[s] = rs[s]
      BY <1>0, <1>2, <2>4
    <3> QED
      BY <3>1, <2>1, <2>4 DEF SameText, SameChains
  <2> QED
    BY <2>3, <2>4
<1>3. rs' \in [Stations -> Station]
  BY <1>0, <1>1, <1>2
<1>4. RsTyped
  BY <1>0, <1>3, StationsKept DEF RsTyped
<1>5. TextKept
  BY <1>1, <1>2 DEF TextKept
<1>6. ASSUME NEW s \in Stations
      PROVE  /\ rs'[s].queued = rs[s].queued /\ rs'[s].issued = rs[s].issued
             /\ (rs'[s].completed <=> rs[s].completed \/ (s = b /\ s \notin Q))
             /\ rs'[s].idep_ready = rs[s].idep_ready
  <2>1. CASE s \in Q
    BY <1>1, <2>1 DEF SameState
  <2>2. CASE s \notin Q
    BY <1>2, <2>2 DEF SameChains
  <2> QED
    BY <2>1, <2>2
<1>7. ASSUME NEW s \in Stations
      PROVE  rs'[s].tag = IF s \in Q THEN rs[s].tag + 1 ELSE rs[s].tag
  BY <1>1, <1>2
<1>8. ASSUME NEW s \in Stations, NEW i \in 1 .. 2
      PROVE  rs'[s].odep_list[i] = IF s \in Q THEN <<>> ELSE rs[s].odep_list[i]
  <2>1. CASE s \in Q
    BY <1>1, <2>1
  <2>2. CASE s \notin Q
    BY <1>2, <2>2 DEF SameChains
  <2> QED
    BY <2>1, <2>2
<1> QED
  BY <1>4, <1>5, <1>6, <1>7, <1>8 DEF Q

\* The loads that lsq_refresh queues.
ReadyLoads == {p \in 0 .. LSQ_num - 1 : LoadReady(p)}

\* lsq_refresh only queues the ready loads.
LEMMA RefreshEffect ==
  ASSUME TypeOK, Refresh
  PROVE  /\ RsTyped /\ TextKept /\ TagsKept /\ ChainsKept
         /\ \A s \in Stations :
              /\ (rs'[s].queued <=> rs[s].queued \/ \E p \in ReadyLoads : s = LsqAt(p))
              /\ rs'[s].issued = rs[s].issued /\ rs'[s].completed = rs[s].completed
<1>0. /\ config' = config /\ rs \in [Stations -> Station]
      /\ rs' = [s \in Stations |-> IF \E p \in ReadyLoads : s = LsqAt(p)
                                   THEN [rs[s] EXCEPT !.queued = TRUE] ELSE rs[s]]
  BY DEF TypeOK, Refresh, ReadyLoads
<1>1. ASSUME NEW s \in Stations
      PROVE  /\ rs'[s] \in Station /\ SameText(rs'[s], rs[s]) /\ rs'[s].tag = rs[s].tag
             /\ SameChains(rs'[s], rs[s])
             /\ (rs'[s].queued <=> rs[s].queued \/ \E p \in ReadyLoads : s = LsqAt(p))
             /\ rs'[s].issued = rs[s].issued /\ rs'[s].completed = rs[s].completed
  <2>1. rs[s] \in Station /\ rs[s].queued \in BOOLEAN
    BY <1>0 DEF Station
  <2>2. CASE \E p \in ReadyLoads : s = LsqAt(p)
    <3>1. rs'[s] = [rs[s] EXCEPT !.queued = TRUE]
      BY <1>0, <2>2
    <3>2. /\ rs'[s] \in Station /\ SameText(rs'[s], rs[s]) /\ rs'[s].tag = rs[s].tag
          /\ SameChains(rs'[s], rs[s]) /\ rs'[s].queued = TRUE
          /\ rs'[s].issued = rs[s].issued /\ rs'[s].completed = rs[s].completed
      BY <2>1, <3>1, QueuedField
    <3> QED
      BY <2>1, <2>2, <3>2
  <2>3. CASE ~ \E p \in ReadyLoads : s = LsqAt(p)
    <3>1. rs'[s] = rs[s]
      BY <1>0, <2>3
    <3> QED
      BY <3>1, <2>1, <2>3 DEF SameText, SameChains
  <2> QED
    BY <2>2, <2>3
<1>2. rs' \in [Stations -> Station]
  BY <1>0, <1>1
<1> QED
  BY <1>0, <1>1, <1>2, StationsKept DEF RsTyped, TextKept, TagsKept, ChainsKept

\* A store is done at once, everything else starts.
LEMMA IssueEffect ==
  ASSUME TypeOK, NEW c \in Stations, config' = config, NEW done \in BOOLEAN,
         rs' = IF done THEN [rs EXCEPT ![c].queued = FALSE, ![c].issued = TRUE, ![c].completed = TRUE]
                       ELSE [rs EXCEPT ![c].queued = FALSE, ![c].issued = TRUE]
  PROVE  /\ RsTyped /\ TextKept /\ TagsKept /\ ChainsKept
         /\ \A s \in Stations :
              /\ (rs'[s].queued <=> rs[s].queued /\ s # c) /\ (rs'[s].issued <=> rs[s].issued \/ s = c)
              /\ (rs'[s].completed <=> rs[s].completed \/ (done /\ s = c))
<1>0. rs \in [Stations -> Station]
  BY DEF TypeOK
<1>1. ASSUME NEW s \in Stations
      PROVE  /\ rs'[s] \in Station /\ SameText(rs'[s], rs[s]) /\ rs'[s].tag = rs[s].tag
             /\ SameChains(rs'[s], rs[s])
             /\ (rs'[s].queued <=> rs[s].queued /\ s # c) /\ (rs'[s].issued <=> rs[s].issued \/ s = c)
             /\ (rs'[s].completed <=> rs[s].completed \/ (done /\ s = c))
  <2>1. rs[s] \in Station /\ rs[s].queued \in BOOLEAN /\ rs[s].issued \in BOOLEAN /\ rs[s].completed \in BOOLEAN
    BY <1>0 DEF Station
  <2>2. CASE s = c
    <3> DEFINE x == [rs[s] EXCEPT !.queued = FALSE]
               y == [x EXCEPT !.issued = TRUE]
               z == [y EXCEPT !.completed = TRUE]
    <3>1. rs'[s] = IF done THEN z ELSE y
      BY <1>0, <2>2
    <3>a. x = [rs[s] EXCEPT !.queued = FALSE] /\ y = [x EXCEPT !.issued = TRUE]
          /\ z = [y EXCEPT !.completed = TRUE]
      OBVIOUS
    <3> HIDE DEF x, y, z
    <3>2. /\ x \in Station /\ SameText(x, rs[s]) /\ SameChains(x, rs[s]) /\ x.tag = rs[s].tag
          /\ ~ x.queued /\ x.issued = rs[s].issued /\ x.completed = rs[s].completed
      BY <2>1, <3>a, NotQueuedField
    <3>3. /\ y \in Station /\ SameText(y, x) /\ SameChains(y, x) /\ y.tag = x.tag
          /\ y.queued = x.queued /\ y.issued /\ y.completed = x.completed
      BY <3>2, <3>a, IssuedField
    <3>4. /\ z \in Station /\ SameText(z, y) /\ SameChains(z, y) /\ z.tag = y.tag
          /\ z.queued = y.queued /\ z.issued = y.issued /\ z.completed
      BY <3>3, <3>a, CompletedField
    <3>6. SameText(y, rs[s]) /\ SameChains(y, rs[s]) /\ SameText(z, rs[s]) /\ SameChains(z, rs[s])
      BY <3>2, <3>3, <3>4 DEF SameText, SameChains
    <3>7. CASE done
      BY <2>1, <2>2, <3>1, <3>2, <3>3, <3>4, <3>6, <3>7
    <3>8. CASE ~ done
      BY <2>1, <2>2, <3>1, <3>2, <3>3, <3>6, <3>8
    <3> QED
      BY <3>7, <3>8
  <2>3. CASE s # c
    <3>1. rs'[s] = rs[s]
      BY <1>0, <2>3
    <3> QED
      BY <3>1, <2>1, <2>3 DEF SameText, SameChains
  <2> QED
    BY <2>2, <2>3
<1>2. rs' \in [Stations -> Station]
  BY <1>0, <1>1
<1> QED
  BY <1>1, <1>2, StationsKept DEF RsTyped, TextKept, TagsKept, ChainsKept

\* A producer whose consumer is woken, and the consumer.
Popped(b, i) == [b EXCEPT !.odep_list[i] = Tail(@)]
Woken(b, k, q) == [b EXCEPT !.idep_ready = [b.idep_ready EXCEPT ![k] = TRUE], !.queued = q]

\* An output chain is a list of links.
LEMMA ChainOf ==
  ASSUME NEW b \in Station, NEW i \in 1 .. 2
  PROVE  /\ b.odep_list[i] \in Seq(Links_)
         /\ \A j \in DOMAIN b.odep_list[i] : b.odep_list[i][j] \in Links_
         /\ DOMAIN b.odep_list[i] = 1 .. Len(b.odep_list[i]) /\ Len(b.odep_list[i]) \in Nat
<1>1. b.odep_list[i] \in Seq(Links_)
  BY DEF Station
<1> QED
  BY <1>1, LenProperties, ElementOfSeq

\* What is left of a station when its chain loses its head.
LEMMA PoppedFields ==
  ASSUME NEW b \in Station, NEW i \in 1 .. 2, b.odep_list[i] # <<>>
  PROVE  /\ Popped(b, i) \in Station /\ SameText(Popped(b, i), b) /\ SameState(Popped(b, i), b)
         /\ Popped(b, i).tag = b.tag /\ Popped(b, i).idep_ready = b.idep_ready
         /\ Popped(b, i).odep_list[i] = Tail(b.odep_list[i])
         /\ \A j \in 1 .. 2 : j # i => Popped(b, i).odep_list[j] = b.odep_list[j]
<1> DEFINE f == b.odep_list
           c == [f EXCEPT ![i] = Tail(@)]
           a == Popped(b, i)
<1>1. f \in [1 .. 2 -> Seq(Links_)]
  BY DEF Station
<1>2. a = [b EXCEPT !.odep_list = c] /\ c = [f EXCEPT ![i] = Tail(f[i])]
  BY Zenon DEF Popped
<1>3. Tail(f[i]) \in Seq(Links_)
  BY ChainOf, HeadTailProperties
<1> HIDE DEF a
<1>4. c \in [1 .. 2 -> Seq(Links_)] /\ c[i] = Tail(f[i]) /\ \A j \in 1 .. 2 : j # i => c[j] = f[j]
  BY <1>1, <1>3
<1>5. c \in [1 .. 2 -> Seq(Links_)] /\ a = [b EXCEPT !.odep_list = c]
  BY <1>2, <1>4
<1> HIDE DEF c
<1>6. c \in [1 .. 2 -> Seq(Links_)]
  BY <1>5
<1>7. /\ a \in Station /\ SameText(a, b) /\ SameState(a, b) /\ a.tag = b.tag
      /\ a.idep_ready = b.idep_ready /\ a.odep_list = c
  BY ONLY b \in Station, <1>5, <1>6, ChainsField
<1> QED
  BY <1>4, <1>7 DEF a, c, f

\* What a broadcast leaves of the consumer.
LEMMA WokenFields ==
  ASSUME NEW b \in Station, NEW k \in 1 .. 3, NEW v \in BOOLEAN
  PROVE  /\ Woken(b, k, v) \in Station /\ SameText(Woken(b, k, v), b) /\ Woken(b, k, v).tag = b.tag
         /\ Woken(b, k, v).odep_list = b.odep_list
         /\ Woken(b, k, v).issued = b.issued /\ Woken(b, k, v).completed = b.completed
         /\ Woken(b, k, v).queued = v
         /\ \A m \in 1 .. 3 : Woken(b, k, v).idep_ready[m] <=> b.idep_ready[m] \/ m = k
<1> DEFINE f == [b.idep_ready EXCEPT ![k] = TRUE]
           w == [b EXCEPT !.idep_ready = f]
           a == Woken(b, k, v)
<1>1. b.idep_ready \in [1 .. 3 -> BOOLEAN]
  BY DEF Station
<1>2. f \in [1 .. 3 -> BOOLEAN]
  BY <1>1
<1>3. \A m \in 1 .. 3 : f[m] <=> b.idep_ready[m] \/ m = k
  BY <1>1
<1>5. w = [b EXCEPT !.idep_ready = f]
  BY <1>2
<1>6. a = [w EXCEPT !.queued = v]
  BY <1>2, Zenon DEF Woken
<1> HIDE DEF f, w, a
<1>7. /\ w \in Station /\ SameText(w, b) /\ SameState(w, b) /\ w.odep_list = b.odep_list
      /\ w.tag = b.tag /\ w.idep_ready = f
  BY ONLY b \in Station, <1>2, <1>5, IdepField
<1>8. w \in Station
  BY <1>7
<1>9. /\ a \in Station /\ SameText(a, w) /\ SameChains(a, w) /\ a.tag = w.tag
      /\ a.queued = v /\ a.issued = w.issued /\ a.completed = w.completed
  BY ONLY v \in BOOLEAN, <1>6, <1>8, QueuedField
<1>10. a \in Station /\ SameText(a, b) /\ a.tag = b.tag
  BY <1>7, <1>9 DEF SameText
<1>11. a.odep_list = b.odep_list /\ a.idep_ready = f
  BY <1>7, <1>9 DEF SameChains
<1>12. a.issued = b.issued /\ a.completed = b.completed
  BY <1>7, <1>9 DEF SameState
<1>14. \A m \in 1 .. 3 : a.idep_ready[m] <=> b.idep_ready[m] \/ m = k
  BY <1>3, <1>11
<1> QED
  BY <1>9, <1>10, <1>11, <1>12, <1>14 DEF a

\* The link that a broadcast takes, and what it does.
WakeIndex == IF rs[wb].odep_list[1] # <<>> THEN 1 ELSE 2
WakeLink  == Head(rs[wb].odep_list[WakeIndex])
WakeReady == \A k \in 1 .. 3 : rs[WakeLink.rs].idep_ready[k] \/ k = WakeLink.opnum
WakeQueues == RSLINK_VALID(WakeLink) /\ WakeReady /\ QueuedWhenReady(WakeLink.rs)

\* The link that ruu_writeback takes from the chain names an operand of a station.
LEMMA WakeTyped ==
  ASSUME TypeOK, Wake, wb \in Stations
  PROVE  /\ WakeIndex \in 1 .. 2 /\ WakeLink \in Links_ /\ rs[wb].odep_list[WakeIndex] # <<>>
         /\ WakeLink.rs \in Stations /\ WakeLink.tag \in Nat /\ WakeLink.opnum \in 1 .. 3
         /\ WakeLink = rs[wb].odep_list[WakeIndex][1]
         /\ Tail(rs[wb].odep_list[WakeIndex]) \in Seq(Links_)
<1>1. rs[wb] \in Station /\ rs[wb].odep_list \in [1 .. 2 -> Seq(Links_)]
  BY DEF TypeOK, Station
<1>2. rs[wb].odep_list # NoConsumers
  BY DEF Wake
<1>3. WakeIndex \in 1 .. 2 /\ rs[wb].odep_list[WakeIndex] # <<>>
  BY <1>1, <1>2, NoChains DEF WakeIndex
<1> DEFINE q == rs[wb].odep_list[WakeIndex]
<1>4. q \in Seq(Links_) /\ q # <<>>
  BY <1>1, <1>3
<1> HIDE DEF q
<1>5. Head(q) \in Links_ /\ Head(q) = q[1] /\ Tail(q) \in Seq(Links_)
  BY <1>4, HeadTailProperties
<1>6. WakeLink \in Links_ /\ WakeLink = rs[wb].odep_list[WakeIndex][1]
  BY <1>5 DEF WakeLink, q
<1> QED
  BY <1>3, <1>5, <1>6 DEF Links_, q

\* A broadcast takes one link from the chain of wb and marks its operand ready.
LEMMA WakeEffect ==
  ASSUME TypeOK, Wake, wb \in Stations, RSLINK_VALID(WakeLink) => WakeLink.rs # wb
  PROVE  /\ RsTyped /\ TextKept /\ TagsKept
         /\ \A s \in Stations :
              /\ rs'[s].issued = rs[s].issued /\ rs'[s].completed = rs[s].completed
              /\ (rs'[s].queued <=> rs[s].queued \/ (WakeQueues /\ s = WakeLink.rs))
         /\ \A s \in Stations, k \in 1 .. 3 :
              rs'[s].idep_ready[k] <=> \/ rs[s].idep_ready[k]
                                       \/ RSLINK_VALID(WakeLink) /\ s = WakeLink.rs /\ k = WakeLink.opnum
         /\ \A s \in Stations, i \in 1 .. 2 :
              rs'[s].odep_list[i] = IF s = wb /\ i = WakeIndex THEN Tail(rs[s].odep_list[i])
                                    ELSE rs[s].odep_list[i]
<1> DEFINE i == WakeIndex
           l == WakeLink
           valid == RSLINK_VALID(l)
           enq == WakeQueues
<1>1. /\ i \in 1 .. 2 /\ l.rs \in Stations /\ l.opnum \in 1 .. 3 /\ rs[wb].odep_list[i] # <<>>
  BY WakeTyped
<1>2. rs \in [Stations -> Station] /\ rs[l.rs] \in Station /\ rs[l.rs].idep_ready \in [1 .. 3 -> BOOLEAN]
  BY <1>1 DEF TypeOK, Station
<1>3. \A k \in 1 .. 3 : [rs[l.rs].idep_ready EXCEPT ![l.opnum] = TRUE][k] <=> rs[l.rs].idep_ready[k] \/ k = l.opnum
  BY <1>1, <1>2
<1> DEFINE e == /\ RSLINK_VALID(l)
                /\ (\A k \in 1 .. 3 : [rs[l.rs].idep_ready EXCEPT ![l.opnum] = TRUE][k])
                /\ QueuedWhenReady(l.rs)
<1>4. e <=> enq
  BY <1>3 DEF WakeQueues, WakeReady
<1>5. rs' = [s \in Stations |->
                     IF s = wb THEN Popped(rs[s], i)
                     ELSE IF s = l.rs /\ valid
                     THEN [rs[s] EXCEPT !.idep_ready = [rs[l.rs].idep_ready EXCEPT ![l.opnum] = TRUE],
                                        !.queued = IF e THEN TRUE ELSE @] ELSE rs[s]]
  BY DEF Wake, WakeIndex, WakeLink, Popped
<1> DEFINE v(s) == IF e THEN TRUE ELSE rs[s].queued
<1> HIDE DEF e
<1>6. \A s \in Stations : v(s) \in BOOLEAN
  BY <1>2 DEF Station
<1>7. ASSUME NEW s \in Stations
      PROVE  rs'[s] = IF s = wb THEN Popped(rs[s], i)
                      ELSE IF s = l.rs /\ valid THEN Woken(rs[s], l.opnum, v(s)) ELSE rs[s]
  <2>1. CASE s = wb \/ ~ (s = l.rs /\ valid)
    BY <1>5, <2>1
  <2>2. CASE s # wb /\ s = l.rs /\ valid
    <3>1. rs'[s] = [rs[s] EXCEPT !.idep_ready = [rs[l.rs].idep_ready EXCEPT ![l.opnum] = TRUE],
                                 !.queued = IF e THEN TRUE ELSE @]
      BY <1>5, <2>2, Zenon
    <3> QED
      BY <2>2, <3>1, Zenon DEF Woken
  <2> QED
    BY <2>1, <2>2
<1>8. config' = config
  BY DEF Wake
<1>v. valid => l.rs # wb
  OBVIOUS
<1> HIDE DEF i, l, valid, enq
<1>14. \A s \in Stations : v(s) <=> rs[s].queued \/ enq
  BY <1>4
<1> HIDE DEF v
<1>w. ASSUME NEW s \in Stations, s # wb, s = l.rs, valid
      PROVE  /\ rs'[s] \in Station /\ SameText(rs'[s], rs[s]) /\ rs'[s].tag = rs[s].tag
             /\ rs'[s].odep_list = rs[s].odep_list
             /\ rs'[s].issued = rs[s].issued /\ rs'[s].completed = rs[s].completed
             /\ rs'[s].queued = v(s)
             /\ \A m \in 1 .. 3 : rs'[s].idep_ready[m] <=> rs[s].idep_ready[m] \/ m = l.opnum
  <2> DEFINE b == rs[s]
             u == v(s)
             k == l.opnum
             a == rs'[s]
  <2>1. b \in Station /\ u \in BOOLEAN /\ k \in 1 .. 3
    BY <1>1, <1>2, <1>6
  <2>2. a = Woken(b, k, u)
    BY <1>7, <1>w
  <2> HIDE DEF b, u, k, a
  <2>3. /\ a \in Station /\ SameText(a, b) /\ a.tag = b.tag /\ a.odep_list = b.odep_list
        /\ a.issued = b.issued /\ a.completed = b.completed /\ a.queued = u
        /\ \A m \in 1 .. 3 : a.idep_ready[m] <=> b.idep_ready[m] \/ m = k
    BY <2>1, <2>2, WokenFields
  <2> QED
    BY <2>3 DEF a, b, u, k
<1>p. ASSUME NEW s \in Stations, s = wb
      PROVE  /\ rs'[s] \in Station /\ SameText(rs'[s], rs[s]) /\ SameState(rs'[s], rs[s])
             /\ rs'[s].tag = rs[s].tag /\ rs'[s].idep_ready = rs[s].idep_ready
             /\ rs'[s].odep_list[i] = Tail(rs[s].odep_list[i])
             /\ \A j \in 1 .. 2 : j # i => rs'[s].odep_list[j] = rs[s].odep_list[j]
  BY <1>1, <1>2, <1>7, <1>p, PoppedFields
<1>q. ASSUME NEW s \in Stations, s # wb, ~ (s = l.rs /\ valid)
      PROVE  rs'[s] = rs[s] /\ rs[s] \in Station
  BY <1>2, <1>7, <1>q
<1>9. ASSUME NEW s \in Stations
      PROVE  /\ rs'[s] \in Station /\ SameText(rs'[s], rs[s]) /\ rs'[s].tag = rs[s].tag
             /\ rs'[s].issued = rs[s].issued /\ rs'[s].completed = rs[s].completed
  <2>1. CASE s = wb
    BY <1>p, <2>1 DEF SameState
  <2>2. CASE s # wb /\ s = l.rs /\ valid
    BY <1>w, <2>2
  <2>3. CASE s # wb /\ ~ (s = l.rs /\ valid)
    BY <1>q, <2>3 DEF SameText
  <2> QED
    BY <2>1, <2>2, <2>3
<1>10. ASSUME NEW s \in Stations
       PROVE  rs'[s].queued <=> rs[s].queued \/ (enq /\ s = l.rs)
  <2>0. rs[s] \in Station /\ (enq => valid)
    BY <1>2 DEF enq, valid, WakeQueues, l
  <2>1. CASE s = wb
    <3>1. Popped(rs[s], i).queued = rs[s].queued
      BY <1>1, <2>0, <2>1, PoppedFields DEF SameState
    <3> QED
      BY <1>7, <2>0, <2>1, <3>1, <1>v
  <2>2. CASE s # wb /\ s = l.rs /\ valid
    BY <1>14, <1>w, <2>0, <2>2
  <2>3. CASE s # wb /\ ~ (s = l.rs /\ valid)
    BY <1>7, <2>0, <2>3
  <2> QED
    BY <2>1, <2>2, <2>3
<1>11. ASSUME NEW s \in Stations, NEW k \in 1 .. 3
       PROVE  rs'[s].idep_ready[k] <=> rs[s].idep_ready[k] \/ (valid /\ s = l.rs /\ k = l.opnum)
  <2>0. rs[s] \in Station
    BY <1>2
  <2>1. CASE s = wb
    <3>1. Popped(rs[s], i).idep_ready = rs[s].idep_ready
      BY <1>1, <2>0, <2>1, PoppedFields
    <3> QED
      BY <1>7, <2>1, <3>1, <1>v
  <2>2. CASE s # wb /\ s = l.rs /\ valid
    BY <1>w, <2>2
  <2>3. CASE s # wb /\ ~ (s = l.rs /\ valid)
    BY <1>7, <2>3
  <2> QED
    BY <2>1, <2>2, <2>3
<1>12. ASSUME NEW s \in Stations, NEW j \in 1 .. 2
       PROVE  rs'[s].odep_list[j] = IF s = wb /\ j = i THEN Tail(rs[s].odep_list[j])
                                    ELSE rs[s].odep_list[j]
  <2>0. rs[s] \in Station
    BY <1>2
  <2>1. CASE s = wb
    BY <1>p, <2>1
  <2>2. CASE s # wb /\ s = l.rs /\ valid
    BY <1>w, <2>2
  <2>3. CASE s # wb /\ ~ (s = l.rs /\ valid)
    BY <1>7, <2>3
  <2> QED
    BY <2>1, <2>2, <2>3
<1>13. rs' \in [Stations -> Station]
  <2>1. DOMAIN rs' = Stations /\ rs' = [s \in Stations |-> rs'[s]]
    BY <1>5
  <2> QED
    BY <2>1, <1>9
<1>15. RsTyped /\ TextKept /\ TagsKept
  BY <1>8, <1>9, <1>13, StationsKept DEF RsTyped, TextKept, TagsKept
<1> QED
  BY <1>9, <1>10, <1>11, <1>12, <1>15 DEF i, l, valid, enq

\* What a create vector may say of a register.
CvEntry == {CVLINK_NULL} \cup [rs : Stations, odep : 1 .. 2]

AddLink(b, i, e)  == [b EXCEPT !.odep_list[i] = <<e>> \o @]

\* What a new link in front of a chain leaves of a station.
LEMMA AddLinkFields ==
  ASSUME NEW b \in Station, NEW i \in 1 .. 2, NEW e \in Links_
  PROVE  /\ AddLink(b, i, e) \in Station /\ SameText(AddLink(b, i, e), b)
         /\ SameState(AddLink(b, i, e), b)
         /\ AddLink(b, i, e).tag = b.tag /\ AddLink(b, i, e).idep_ready = b.idep_ready
         /\ AddLink(b, i, e).odep_list[i] = <<e>> \o b.odep_list[i]
         /\ \A j \in 1 .. 2 : j # i => AddLink(b, i, e).odep_list[j] = b.odep_list[j]
<1> DEFINE f == b.odep_list
           c == [f EXCEPT ![i] = <<e>> \o f[i]]
           a == AddLink(b, i, e)
<1>1. f \in [1 .. 2 -> Seq(Links_)]
  BY DEF Station
<1>2. a = [b EXCEPT !.odep_list = c]
  BY Zenon DEF AddLink
<1>3. <<e>> \o f[i] \in Seq(Links_)
  BY ChainOf, CountCons
<1> DEFINE g == <<e>> \o f[i]
<1>g. g \in Seq(Links_) /\ c = [f EXCEPT ![i] = g]
  BY <1>3
<1> HIDE DEF a, g
<1>4. c \in [1 .. 2 -> Seq(Links_)] /\ c[i] = g /\ \A j \in 1 .. 2 : j # i => c[j] = f[j]
  BY <1>1, <1>g
<1> HIDE DEF c
<1>6. c \in [1 .. 2 -> Seq(Links_)]
  BY <1>4
<1>7. /\ a \in Station /\ SameText(a, b) /\ SameState(a, b) /\ a.tag = b.tag
      /\ a.idep_ready = b.idep_ready /\ a.odep_list = c
  BY ONLY b \in Station, <1>2, <1>6, ChainsField
<1> QED
  BY <1>4, <1>7 DEF a, f, g

\* What ruu_link_idep does: operand k of x waits for creator c.
Linked(st, st2, x, k, c) ==
  /\ st2 \in [Stations -> Station]
  /\ \A s \in Stations : SameText(st2[s], st[s]) /\ SameState(st2[s], st[s]) /\ st2[s].tag = st[s].tag
  /\ \A s \in Stations, m \in 1 .. 3 : (s # x \/ m # k) => st2[s].idep_ready[m] = st[s].idep_ready[m]
  /\ st2[x].idep_ready[k] <=> c = CVLINK_NULL
  /\ \A s \in Stations, i \in 1 .. 2 : 
       st2[s].odep_list[i] = IF c # CVLINK_NULL /\ s = c.rs /\ i = c.odep
                             THEN <<[rs |-> x, tag |-> rs[x].tag, opnum |-> k]>> \o st[s].odep_list[i]
                             ELSE st[s].odep_list[i]

\* Station a is station b, which is t, after that.
StationLinked(b, a, t, x, k, c) ==
  /\ a \in Station /\ SameText(a, b) /\ SameState(a, b) /\ a.tag = b.tag
  /\ \A m \in 1 .. 3 : t # x \/ m # k => a.idep_ready[m] = b.idep_ready[m]
  /\ t = x => (a.idep_ready[k] <=> c = CVLINK_NULL)
  /\ \A i \in 1 .. 2 :
       a.odep_list[i] = IF t = c.rs /\ i = c.odep
                        THEN <<[rs |-> x, tag |-> rs[x].tag, opnum |-> k]>> \o b.odep_list[i]
                        ELSE b.odep_list[i]

\* What ruu_link_idep does to one station.
LEMMA LinkFields ==
  ASSUME NEW b \in Station, NEW t \in Stations, NEW x \in Stations, NEW k \in 1 .. 3, NEW c \in CvEntry,
         rs[x].tag \in Nat
  PROVE  StationLinked(b, LinkedStation(b, t, x, k, c), t, x, k, c)
<1> DEFINE e == [rs |-> x, tag |-> rs[x].tag, opnum |-> k]
           f == [b.idep_ready EXCEPT ![k] = (c = CVLINK_NULL)]
           u == [b EXCEPT !.idep_ready[k] = (c = CVLINK_NULL)]
           w == IF t = x THEN u ELSE b
           a == LinkedStation(b, t, x, k, c)
<1>1. e \in Links_
  BY DEF Links_
<1>2. b.idep_ready \in [1 .. 3 -> BOOLEAN]
  BY DEF Station
<1>3. /\ f \in [1 .. 3 -> BOOLEAN] /\ (f[k] <=> c = CVLINK_NULL)
      /\ \A m \in 1 .. 3 : m # k => f[m] = b.idep_ready[m]
  BY <1>2
<1>4. u = [b EXCEPT !.idep_ready = f]
  BY Zenon
<1>5. f \in [1 .. 3 -> BOOLEAN]
  BY <1>3
<1> HIDE DEF f
<1>6. a = IF t = c.rs THEN AddLink(w, c.odep, e) ELSE w
  BY Zenon DEF LinkedStation, AddLink
<1> HIDE DEF u, a, e
<1>7. /\ u \in Station /\ SameText(u, b) /\ SameState(u, b) /\ u.odep_list = b.odep_list
      /\ u.tag = b.tag /\ u.idep_ready = f
  BY ONLY b \in Station, <1>5, <1>4, IdepField
<1>8. /\ w \in Station /\ SameText(w, b) /\ SameState(w, b) /\ w.odep_list = b.odep_list
      /\ w.tag = b.tag
      /\ \A m \in 1 .. 3 : t # x \/ m # k => w.idep_ready[m] = b.idep_ready[m]
      /\ t = x => (w.idep_ready[k] <=> c = CVLINK_NULL)
  BY <1>3, <1>7 DEF SameText, SameState
<1> HIDE DEF w
<1>9. CASE t = c.rs
  <2>1. c.odep \in 1 .. 2
    <3>1. CVLINK_NULL.rs \notin Stations
      BY DEF CVLINK_NULL, NULL, Stations
    <3> QED
      BY <1>9, <3>1 DEF CvEntry
  <2>2. w \in Station
    BY <1>8
  <2>3. /\ a \in Station /\ SameText(a, w) /\ SameState(a, w)
        /\ a.tag = w.tag /\ a.idep_ready = w.idep_ready
        /\ a.odep_list[c.odep] = <<e>> \o w.odep_list[c.odep]
        /\ \A j \in 1 .. 2 : j # c.odep => a.odep_list[j] = w.odep_list[j]
    BY <1>1, <1>6, <1>9, <2>1, <2>2, AddLinkFields
  <2>4. SameText(a, b) /\ SameState(a, b) /\ a.tag = b.tag
    BY <2>3, <1>8 DEF SameText, SameState
  <2>5. /\ \A m \in 1 .. 3 : t # x \/ m # k => a.idep_ready[m] = b.idep_ready[m]
        /\ t = x => (a.idep_ready[k] <=> c = CVLINK_NULL)
    BY <2>3, <1>8
  <2>6. \A i \in 1 .. 2 : a.odep_list[i] = IF i = c.odep THEN <<e>> \o b.odep_list[i]
                                           ELSE b.odep_list[i]
    BY <2>1, <2>3, <1>8
  <2> QED
    BY <2>3, <2>4, <2>5, <2>6, <1>9 DEF a, e, StationLinked
<1>10. CASE t # c.rs
  BY <1>6, <1>8, <1>10 DEF a, e, StationLinked
<1> QED
  BY <1>9, <1>10

\* ruu_link_idep: operand k of x is ready, or in front of the chain of its creator.
LEMMA LinkIdep ==
  ASSUME NEW st \in [Stations -> Station], NEW x \in Stations, NEW k \in 1 .. 3, NEW c \in CvEntry,
         rs[x].tag \in Nat
  PROVE  Linked(st, ruu_link_idep(st, x, k, c), x, k, c)
<1> DEFINE e == [rs |-> x, tag |-> rs[x].tag, opnum |-> k]
           st2 == ruu_link_idep(st, x, k, c)
<1>1. \A t \in Stations : st2[t] = LinkedStation(st[t], t, x, k, c) /\ st[t] \in Station
  BY DEF ruu_link_idep
<1>2. st2 = [t \in Stations |-> st2[t]]
  BY DEF ruu_link_idep
<1> HIDE DEF st2, e
<1>3. ASSUME NEW t \in Stations
      PROVE  /\ st2[t] \in Station /\ SameText(st2[t], st[t]) /\ SameState(st2[t], st[t])
             /\ st2[t].tag = st[t].tag
             /\ \A m \in 1 .. 3 : t # x \/ m # k => st2[t].idep_ready[m] = st[t].idep_ready[m]
             /\ t = x => (st2[t].idep_ready[k] <=> c = CVLINK_NULL)
             /\ \A i \in 1 .. 2 :
                  st2[t].odep_list[i] = IF t = c.rs /\ i = c.odep THEN <<e>> \o st[t].odep_list[i]
                                        ELSE st[t].odep_list[i]
  <2>1. StationLinked(st[t], st2[t], t, x, k, c)
    BY <1>1, LinkFields
  <2> QED
    BY <2>1 DEF StationLinked, e
<1>4. st2 \in [Stations -> Station]
  BY <1>2, <1>3
<1>5. CVLINK_NULL.rs \notin Stations
  BY DEF CVLINK_NULL, NULL, Stations
<1>6. ASSUME NEW s \in Stations, NEW i \in 1 .. 2
      PROVE  st2[s].odep_list[i] = IF c # CVLINK_NULL /\ s = c.rs /\ i = c.odep
                                   THEN <<e>> \o st[s].odep_list[i] ELSE st[s].odep_list[i]
  BY <1>3, <1>5
<1> QED
  BY <1>3, <1>4, <1>6 DEF Linked, st2, e

\* The chains of the stations st are in order, for consumers in W.
LinkInv(st, W) == Wanted(st, W) /\ Alone(st) /\ PastChains(st)
\* Operand k of x is on no chain.
Unlinked(st, x, k) ==
  \A s \in Stations, i \in 1 .. 2, j \in Nat :
    Waits(st, s, i, j) => LinkAt(st, s, i, j).rs # x \/ LinkAt(st, s, i, j).opnum # k

\* The chains of st2 are those of st, cut at their beginnings and with fewer valid links.
SubChains(st, st2, off) ==
  \A s \in Stations, i \in 1 .. 2, j \in Nat : Waits(st2, s, i, j) =>
    /\ j + off[<<s, i>>] \in Nat /\ Waits(st, s, i, j + off[<<s, i>>])
    /\ LinkAt(st2, s, i, j) = LinkAt(st, s, i, j + off[<<s, i>>])

\* Chains that only lost links have no link twice.
LEMMA AloneSub ==
  ASSUME NEW st, NEW st2, NEW off \in [Stations \X (1 .. 2) -> Int], SubChains(st, st2, off), Alone(st)
  PROVE  Alone(st2)
<1> SUFFICES ASSUME NEW s \in Stations, NEW t \in Stations, NEW i \in 1 .. 2, NEW k \in 1 .. 2,
                    NEW j \in Nat, NEW m \in Nat,
                    Waits(st2, s, i, j), Waits(st2, t, k, m),
                    LinkAt(st2, s, i, j).rs = LinkAt(st2, t, k, m).rs,
                    LinkAt(st2, s, i, j).opnum = LinkAt(st2, t, k, m).opnum
             PROVE  s = t /\ i = k /\ j = m
  BY DEF Alone
<1> DEFINE a == j + off[<<s, i>>]
           b == m + off[<<t, k>>]
<1>1. a \in Nat /\ Waits(st, s, i, a) /\ LinkAt(st2, s, i, j) = LinkAt(st, s, i, a)
  BY DEF SubChains
<1>2. b \in Nat /\ Waits(st, t, k, b) /\ LinkAt(st2, t, k, m) = LinkAt(st, t, k, b)
  BY DEF SubChains
<1> HIDE DEF a, b
<1>3. s = t /\ i = k /\ a = b
  BY <1>1, <1>2 DEF Alone
<1>4. off[<<s, i>>] \in Int
  OBVIOUS
<1> QED
  BY <1>3, <1>4 DEF a, b

\* An operand with no link has none after chains only lost links.
LEMMA UnlinkedSub ==
  ASSUME NEW st, NEW st2, NEW off, SubChains(st, st2, off), NEW x, NEW k, Unlinked(st, x, k)
  PROVE  Unlinked(st2, x, k)
<1> SUFFICES ASSUME NEW s \in Stations, NEW i \in 1 .. 2, NEW j \in Nat, Waits(st2, s, i, j)
             PROVE  LinkAt(st2, s, i, j).rs # x \/ LinkAt(st2, s, i, j).opnum # k
  BY DEF Unlinked
<1> DEFINE a == j + off[<<s, i>>]
<1>1. a \in Nat /\ Waits(st, s, i, a) /\ LinkAt(st2, s, i, j) = LinkAt(st, s, i, a)
  BY DEF SubChains
<1> HIDE DEF a
<1> QED
  BY <1>1 DEF Unlinked

\* Chains that only lost links still lead to operands that miss their value.
LEMMA WantedSub ==
  ASSUME NEW st, NEW st2, NEW off, SubChains(st, st2, off), NEW W, NEW W2, Wanted(st, W),
         \A s \in Stations, i \in 1 .. 2, j \in Nat : Waits(st2, s, i, j) =>
           LET l == LinkAt(st2, s, i, j)
           IN  (l.rs \in W => l.rs \in W2) /\ (~ st[l.rs].idep_ready[l.opnum] => ~ st2[l.rs].idep_ready[l.opnum])
  PROVE  Wanted(st2, W2)
BY DEF SubChains, Wanted

\* A link of a chain.
LEMMA LinkTyped ==
  ASSUME NEW st \in [Stations -> Station], NEW s \in Stations, NEW i \in 1 .. 2, 
         NEW j \in DOMAIN st[s].odep_list[i]
  PROVE  /\ j \in Nat /\ j >= 1 /\ LinkAt(st, s, i, j) \in Links_ /\ LinkAt(st, s, i, j).rs \in Stations
         /\ LinkAt(st, s, i, j).tag \in Nat /\ LinkAt(st, s, i, j).opnum \in 1 .. 3
<1> DEFINE b == st[s]
<1>1. b \in Station
  OBVIOUS
<1> HIDE DEF b
<1>2. \A m \in DOMAIN b.odep_list[i] : m \in Nat /\ m >= 1 /\ b.odep_list[i][m] \in Links_
  BY <1>1, ChainOf
<1>3. j \in Nat /\ j >= 1 /\ LinkAt(st, s, i, j) \in Links_
  BY <1>2 DEF b, LinkAt
<1> QED
  BY <1>3 DEF Links_

\* A link more.
LEMMA ConsAt ==
  ASSUME NEW S, NEW q \in Seq(S), NEW e \in S
  PROVE  /\ <<e>> \o q \in Seq(S) /\ DOMAIN (<<e>> \o q) = 1 .. Len(q) + 1 /\ Len(q) \in Nat
         /\ DOMAIN q = 1 .. Len(q)
         /\ (<<e>> \o q)[1] = e
         /\ \A j \in 2 .. Len(q) + 1 : (<<e>> \o q)[j] = q[j - 1]
<1> DEFINE r == <<e>> \o q
<1>1. <<e>> \in Seq(S) /\ Len(<<e>>) = 1 /\ Len(q) \in Nat /\ <<e>>[1] = e
  BY LenProperties
<1>2. /\ r \in Seq(S) /\ Len(r) = 1 + Len(q)
      /\ \A i \in 1 .. 1 + Len(q) : r[i] = IF i <= 1 THEN <<e>>[i] ELSE q[i - 1]
  BY <1>1, ConcatProperties, Zenon
<1> HIDE DEF r
<1>3. DOMAIN r = 1 .. Len(r) /\ DOMAIN q = 1 .. Len(q)
  BY <1>2, LenProperties
<1> QED
  BY <1>1, <1>2, <1>3 DEF r

\* A link to operand k of x is put on a chain, or its result is known to be there.
LEMMA LinkedKeeps ==
  ASSUME NEW st \in [Stations -> Station], NEW x \in Stations, NEW k \in 1 .. 3, NEW c \in CvEntry,
         NEW st2, Linked(st, st2, x, k, c), st[x].tag = rs[x].tag,
         NEW W, x \in W, LinkInv(st, W), Unlinked(st, x, k)
  PROVE  /\ LinkInv(st2, W)
         /\ \A y \in Stations, m \in 1 .. 3 :
              (y # x \/ m # k) /\ Unlinked(st, y, m) => Unlinked(st2, y, m)
<1> DEFINE e == [rs |-> x, tag |-> rs[x].tag, opnum |-> k]
           off == [p \in Stations \X (1 .. 2) |-> IF c # CVLINK_NULL /\ p[1] = c.rs /\ p[2] = c.odep THEN -1 ELSE 0]
           New(s, i, j) == c # CVLINK_NULL /\ s = c.rs /\ i = c.odep /\ j = 1
<1>0. /\ st2 \in [Stations -> Station]
      /\ \A s \in Stations : st2[s].tag = st[s].tag
      /\ \A s \in Stations, m \in 1 .. 3 : (s # x \/ m # k) => st2[s].idep_ready[m] = st[s].idep_ready[m]
      /\ st2[x].idep_ready[k] <=> c = CVLINK_NULL
      /\ \A s \in Stations, i \in 1 .. 2 : 
           st2[s].odep_list[i] = IF c # CVLINK_NULL /\ s = c.rs /\ i = c.odep
                                 THEN <<e>> \o st[s].odep_list[i] ELSE st[s].odep_list[i]
  BY DEF Linked
<1>e. e \in Links_ /\ e.rs = x /\ e.opnum = k /\ e.tag = st2[x].tag
  <2>1. rs[x].tag \in Nat /\ st2[x].tag = rs[x].tag
    <3>1. st[x] \in Station
      OBVIOUS
    <3> QED
      BY <1>0, <3>1 DEF Station
  <2> QED
    BY <2>1 DEF Links_
<1> HIDE DEF e
<1>1. ASSUME NEW s \in Stations, NEW i \in 1 .. 2, NEW j \in DOMAIN st2[s].odep_list[i]
      PROVE  IF New(s, i, j) THEN LinkAt(st2, s, i, j) = e
             ELSE /\ j + off[<<s, i>>] \in DOMAIN st[s].odep_list[i]
                  /\ LinkAt(st2, s, i, j) = LinkAt(st, s, i, j + off[<<s, i>>])
                  /\ j + off[<<s, i>>] \in Nat
  <2> DEFINE q == st[s].odep_list[i]
  <2>1. q \in Seq(Links_) /\ DOMAIN q = 1 .. Len(q) /\ Len(q) \in Nat
    <3>1. st[s] \in Station
      OBVIOUS
    <3> QED
      BY <3>1, ChainOf
  <2> HIDE DEF q
  <2>2. CASE c # CVLINK_NULL /\ s = c.rs /\ i = c.odep
    <3>1. st2[s].odep_list[i] = <<e>> \o q /\ off[<<s, i>>] = -1
      BY <1>0, <2>2 DEF q
    <3>2. j \in 1 .. Len(q) + 1 /\ (j = 1 => LinkAt(st2, s, i, j) = e)
          /\ (j # 1 => LinkAt(st2, s, i, j) = q[j - 1])
      BY <3>1, <2>1, <1>1, <1>e, ConsAt DEF LinkAt
    <3>3. CASE j = 1
      BY <2>2, <3>2, <3>3
    <3>4. CASE j # 1
      <4>1. j - 1 \in 1 .. Len(q) /\ j + off[<<s, i>>] = j - 1
        BY <2>1, <3>1, <3>2, <3>4
      <4>2. LinkAt(st, s, i, j - 1) = q[j - 1] /\ j - 1 \in DOMAIN q /\ j - 1 \in Nat
        BY <2>1, <4>1 DEF LinkAt, q
      <4> QED
        BY <3>2, <3>4, <4>1, <4>2 DEF q
    <3> QED
      BY <3>3, <3>4
  <2>3. CASE ~ (c # CVLINK_NULL /\ s = c.rs /\ i = c.odep)
    <3>1. st2[s].odep_list[i] = q /\ off[<<s, i>>] = 0
      BY <1>0, <2>3 DEF q
    <3> QED
      BY <2>1, <2>3, <3>1 DEF LinkAt, q
  <2> QED
    BY <2>2, <2>3
<1>o. off \in [Stations \X (1 .. 2) -> Int]
  OBVIOUS
<1> HIDE DEF off
<1>2. ASSUME NEW s \in Stations, NEW i \in 1 .. 2, NEW j \in Nat, Waits(st2, s, i, j), ~ New(s, i, j)
      PROVE  /\ j + off[<<s, i>>] \in Nat /\ Waits(st, s, i, j + off[<<s, i>>])
             /\ LinkAt(st2, s, i, j) = LinkAt(st, s, i, j + off[<<s, i>>])
  <2>1. j \in DOMAIN st2[s].odep_list[i]
    BY <1>2 DEF Waits
  <2>2. LinkAt(st2, s, i, j).rs \in Stations
    BY <1>0, <2>1, LinkTyped
  <2> QED
    BY <1>0, <1>1, <1>2, <2>1, <2>2 DEF Waits
<1>3. ASSUME NEW s \in Stations, NEW i \in 1 .. 2, NEW j \in Nat, Waits(st2, s, i, j), New(s, i, j)
      PROVE  LinkAt(st2, s, i, j) = e
  BY <1>1, <1>3 DEF Waits
<1>4. Wanted(st2, W)
  <2> SUFFICES ASSUME NEW s \in Stations, NEW i \in 1 .. 2, NEW j \in Nat, Waits(st2, s, i, j)
               PROVE  LinkAt(st2, s, i, j).rs \in W
                      /\ ~ st2[LinkAt(st2, s, i, j).rs].idep_ready[LinkAt(st2, s, i, j).opnum]
    BY DEF Wanted
  <2>1. CASE New(s, i, j)
    BY <1>0, <1>3, <1>e, <2>1
  <2>2. CASE ~ New(s, i, j)
    <3> DEFINE m == j + off[<<s, i>>]
               l == LinkAt(st2, s, i, j)
    <3>1. m \in Nat /\ Waits(st, s, i, m) /\ l = LinkAt(st, s, i, m)
      BY <1>2, <2>2
    <3>2. l.rs \in Stations /\ l.opnum \in 1 .. 3
      BY <1>0, LinkTyped DEF Waits
    <3> HIDE DEF m, l, New
    <3>3. l.rs \in W /\ ~ st[l.rs].idep_ready[l.opnum]
      BY <3>1 DEF LinkInv, Wanted
    <3>4. l.rs # x \/ l.opnum # k
      BY <3>1 DEF Unlinked
    <3>5. ~ st2[l.rs].idep_ready[l.opnum]
      BY <1>0, <3>2, <3>3, <3>4
    <3> QED
      BY <3>3, <3>5 DEF l
  <2> QED
    BY <2>1, <2>2
<1>5. Alone(st2)
  <2> SUFFICES ASSUME NEW s \in Stations, NEW t \in Stations, NEW i \in 1 .. 2, NEW h \in 1 .. 2,
                    NEW j \in Nat, NEW m \in Nat,
                    Waits(st2, s, i, j), Waits(st2, t, h, m),
                    LinkAt(st2, s, i, j).rs = LinkAt(st2, t, h, m).rs,
                    LinkAt(st2, s, i, j).opnum = LinkAt(st2, t, h, m).opnum
             PROVE  s = t /\ i = h /\ j = m
    BY DEF Alone
  <2>1. CASE New(s, i, j) /\ New(t, h, m)
    BY <2>1
  <2>2. CASE New(s, i, j) /\ ~ New(t, h, m)
    <3> DEFINE b == m + off[<<t, h>>]
    <3>1. LinkAt(st2, t, h, m).rs = x /\ LinkAt(st2, t, h, m).opnum = k
      BY <1>3, <1>e, <2>2
    <3>2. b \in Nat /\ Waits(st, t, h, b) /\ LinkAt(st2, t, h, m) = LinkAt(st, t, h, b)
      BY <1>2, <2>2
    <3> HIDE DEF b
    <3> QED
      BY <3>1, <3>2 DEF Unlinked
  <2>3. CASE ~ New(s, i, j) /\ New(t, h, m)
    <3> DEFINE a == j + off[<<s, i>>]
    <3>1. LinkAt(st2, s, i, j).rs = x /\ LinkAt(st2, s, i, j).opnum = k
      BY <1>3, <1>e, <2>3
    <3>2. a \in Nat /\ Waits(st, s, i, a) /\ LinkAt(st2, s, i, j) = LinkAt(st, s, i, a)
      BY <1>2, <2>3
    <3> HIDE DEF a
    <3> QED
      BY <3>1, <3>2 DEF Unlinked
  <2>4. CASE ~ New(s, i, j) /\ ~ New(t, h, m)
    <3> DEFINE a == j + off[<<s, i>>]
               b == m + off[<<t, h>>]
    <3>1. a \in Nat /\ Waits(st, s, i, a) /\ LinkAt(st2, s, i, j) = LinkAt(st, s, i, a)
      BY <1>2, <2>4
    <3>2. b \in Nat /\ Waits(st, t, h, b) /\ LinkAt(st2, t, h, m) = LinkAt(st, t, h, b)
      BY <1>2, <2>4
    <3>a. a = j + off[<<s, i>>] /\ b = m + off[<<t, h>>] /\ off[<<s, i>>] \in Int
      BY <1>o
    <3> HIDE DEF a, b
    <3>3. s = t /\ i = h /\ a = b
      BY <3>1, <3>2 DEF LinkInv, Alone
    <3> DEFINE o == off[<<s, i>>]
    <3>4. off[<<t, h>>] = o
      BY <3>3
    <3>5. a = j + o /\ b = m + o /\ o \in Int
      BY <3>4, <3>a
    <3> HIDE DEF o
    <3>6. o \in Int
      BY <3>5
    <3>7. j + o = m + o
      BY <3>3, <3>5
    <3>8. j = m
      BY <3>6, <3>7
    <3> QED
      BY <3>3, <3>8
  <2> QED
    BY <2>1, <2>2, <2>3, <2>4
<1>6. PastChains(st2)
  <2> SUFFICES ASSUME NEW s \in Stations, NEW i \in 1 .. 2, NEW j \in DOMAIN st2[s].odep_list[i]
               PROVE  LinkAt(st2, s, i, j).tag <= st2[LinkAt(st2, s, i, j).rs].tag
    BY DEF PastChains
  <2>1. /\ LinkAt(st2, s, i, j).rs \in Stations /\ LinkAt(st2, s, i, j).tag \in Nat
    BY <1>0, LinkTyped
  <2>2. CASE New(s, i, j)
    <3>1. LinkAt(st2, s, i, j) = e
      BY <1>1, <2>2
    <3> QED
      BY <2>1, <3>1, <1>e
  <2>3. CASE ~ New(s, i, j)
    <3> DEFINE m == j + off[<<s, i>>]
    <3>1. m \in DOMAIN st[s].odep_list[i] /\ LinkAt(st2, s, i, j) = LinkAt(st, s, i, m)
      BY <1>1, <2>3
    <3> HIDE DEF m
    <3>2. LinkAt(st, s, i, m).tag <= st[LinkAt(st, s, i, m).rs].tag
      BY <3>1 DEF LinkInv, PastChains
    <3> QED
      BY <2>1, <3>1, <3>2, <1>0
  <2> QED
    BY <2>2, <2>3
<1>7. ASSUME NEW y \in Stations, NEW m \in 1 .. 3, y # x \/ m # k, Unlinked(st, y, m)
      PROVE  Unlinked(st2, y, m)
  <2> SUFFICES ASSUME NEW s \in Stations, NEW i \in 1 .. 2, NEW j \in Nat, Waits(st2, s, i, j)
               PROVE  LinkAt(st2, s, i, j).rs # y \/ LinkAt(st2, s, i, j).opnum # m
    BY DEF Unlinked
  <2>1. CASE New(s, i, j)
    BY <1>3, <1>e, <1>7, <2>1
  <2>2. CASE ~ New(s, i, j)
    <3> DEFINE a == j + off[<<s, i>>]
    <3>1. a \in Nat /\ Waits(st, s, i, a) /\ LinkAt(st2, s, i, j) = LinkAt(st, s, i, a)
      BY <1>2, <2>2
    <3> HIDE DEF a
    <3> QED
      BY <3>1, <1>7 DEF Unlinked
  <2> QED
    BY <2>1, <2>2
<1> QED
  BY <1>4, <1>5, <1>6, <1>7 DEF LinkInv

\* The three operands of x.
LinkAll(st, x, c1, c2, c3) ==
  ruu_link_idep(ruu_link_idep(ruu_link_idep(st, x, 1, c1), x, 2, c2), x, 3, c3)

OperandsLinked(st, st2, x, c1, c2, c3) ==
  /\ st2 \in [Stations -> Station]
  /\ \A s \in Stations : SameText(st2[s], st[s]) /\ SameState(st2[s], st[s]) /\ st2[s].tag = st[s].tag
  /\ \A s \in Stations, m \in 1 .. 3 : s # x => st2[s].idep_ready[m] = st[s].idep_ready[m]
  /\ st2[x].idep_ready[1] <=> c1 = CVLINK_NULL
  /\ st2[x].idep_ready[2] <=> c2 = CVLINK_NULL
  /\ st2[x].idep_ready[3] <=> c3 = CVLINK_NULL
  /\ \A s \in Stations, i \in 1 .. 2 :
       (\A c \in {c1, c2, c3} : s = c.rs => i # c.odep) => st2[s].odep_list[i] = st[s].odep_list[i]
  /\ \A W : x \in W /\ LinkInv(st, W) /\ (\A k \in 1 .. 3 : Unlinked(st, x, k)) =>
       /\ LinkInv(st2, W)
       /\ \A y \in Stations, m \in 1 .. 3 : y # x /\ Unlinked(st, y, m) => Unlinked(st2, y, m)

\* After the three calls of ruu_link_idep each operand is ready or linked once.
LEMMA AllLinked ==
  ASSUME NEW st \in [Stations -> Station], NEW x \in Stations, st[x].tag = rs[x].tag,
         NEW c1 \in CvEntry, NEW c2 \in CvEntry, NEW c3 \in CvEntry
  PROVE  OperandsLinked(st, LinkAll(st, x, c1, c2, c3), x, c1, c2, c3)
<1> DEFINE s1 == ruu_link_idep(st, x, 1, c1)
           s2 == ruu_link_idep(s1, x, 2, c2)
           s3 == ruu_link_idep(s2, x, 3, c3)
<1>0. rs[x].tag \in Nat /\ LinkAll(st, x, c1, c2, c3) = s3
  <2>1. st[x] \in Station
    OBVIOUS
  <2> QED
    BY <2>1, Zenon DEF Station, LinkAll
<1>n. rs[x].tag \in Nat
  BY <1>0
<1>1. Linked(st, s1, x, 1, c1)
  BY <1>n, LinkIdep
<1> HIDE DEF s1
<1>a. s1 \in [Stations -> Station] /\ s1[x].tag = rs[x].tag
  BY <1>1 DEF Linked
<1>2. Linked(s1, s2, x, 2, c2)
  BY <1>n, <1>a, LinkIdep
<1> HIDE DEF s2
<1>b. s2 \in [Stations -> Station] /\ s2[x].tag = rs[x].tag
  BY <1>2, <1>a DEF Linked
<1>3. Linked(s2, s3, x, 3, c3)
  BY <1>n, <1>b, LinkIdep
<1> HIDE DEF s3
<1>4. s3 \in [Stations -> Station]
  BY <1>3 DEF Linked
<1>5. ASSUME NEW s \in Stations
      PROVE  SameText(s3[s], st[s]) /\ SameState(s3[s], st[s]) /\ s3[s].tag = st[s].tag
  <2>1. SameText(s1[s], st[s]) /\ SameState(s1[s], st[s]) /\ s1[s].tag = st[s].tag
    BY <1>1 DEF Linked
  <2>2. SameText(s2[s], s1[s]) /\ SameState(s2[s], s1[s]) /\ s2[s].tag = s1[s].tag
    BY <1>2 DEF Linked
  <2>3. SameText(s3[s], s2[s]) /\ SameState(s3[s], s2[s]) /\ s3[s].tag = s2[s].tag
    BY <1>3 DEF Linked
  <2> QED
    BY <2>1, <2>2, <2>3 DEF SameText, SameState
<1>6. ASSUME NEW s \in Stations, NEW m \in 1 .. 3, s # x
      PROVE  s3[s].idep_ready[m] = st[s].idep_ready[m]
  BY <1>1, <1>2, <1>3, <1>6 DEF Linked
<1>7. s3[x].idep_ready[1] <=> c1 = CVLINK_NULL
  <2>1. s1[x].idep_ready[1] <=> c1 = CVLINK_NULL
    BY <1>1 DEF Linked
  <2>2. s2[x].idep_ready[1] = s1[x].idep_ready[1]
    BY <1>2 DEF Linked
  <2>3. s3[x].idep_ready[1] = s2[x].idep_ready[1]
    BY <1>3 DEF Linked
  <2> QED
    BY <2>1, <2>2, <2>3
<1>8. s3[x].idep_ready[2] <=> c2 = CVLINK_NULL
  <2>2. s2[x].idep_ready[2] <=> c2 = CVLINK_NULL
    BY <1>2 DEF Linked
  <2>3. s3[x].idep_ready[2] = s2[x].idep_ready[2]
    BY <1>3 DEF Linked
  <2> QED
    BY <2>2, <2>3
<1>9. s3[x].idep_ready[3] <=> c3 = CVLINK_NULL
  BY <1>3 DEF Linked
<1>10. ASSUME NEW s \in Stations, NEW i \in 1 .. 2, \A c \in {c1, c2, c3} : s = c.rs => i # c.odep
       PROVE  s3[s].odep_list[i] = st[s].odep_list[i]
  <2>1. s1[s].odep_list[i] = st[s].odep_list[i]
    BY <1>1, <1>10 DEF Linked
  <2>2. s2[s].odep_list[i] = s1[s].odep_list[i]
    BY <1>2, <1>10 DEF Linked
  <2>3. s3[s].odep_list[i] = s2[s].odep_list[i]
    BY <1>3, <1>10 DEF Linked
  <2> QED
    BY <2>1, <2>2, <2>3
<1>11. ASSUME NEW W, x \in W, LinkInv(st, W), \A k \in 1 .. 3 : Unlinked(st, x, k)
       PROVE  /\ LinkInv(s3, W)
              /\ \A y \in Stations, m \in 1 .. 3 : y # x /\ Unlinked(st, y, m) => Unlinked(s3, y, m)
  <2>1. /\ LinkInv(s1, W)
        /\ \A y \in Stations, m \in 1 .. 3 : (y # x \/ m # 1) /\ Unlinked(st, y, m) => Unlinked(s1, y, m)
    BY <1>1, <1>11, LinkedKeeps
  <2>2. Unlinked(s1, x, 2) /\ Unlinked(s1, x, 3)
    BY <2>1, <1>11
  <2>3. /\ LinkInv(s2, W)
        /\ \A y \in Stations, m \in 1 .. 3 : (y # x \/ m # 2) /\ Unlinked(s1, y, m) => Unlinked(s2, y, m)
    BY <1>2, <1>a, <1>11, <2>1, <2>2, LinkedKeeps
  <2>4. Unlinked(s2, x, 3)
    BY <2>2, <2>3
  <2>5. /\ LinkInv(s3, W)
        /\ \A y \in Stations, m \in 1 .. 3 : (y # x \/ m # 3) /\ Unlinked(s2, y, m) => Unlinked(s3, y, m)
    BY <1>3, <1>b, <1>11, <2>3, <2>4, LinkedKeeps
  <2> QED
    BY <2>1, <2>3, <2>5
<1> HIDE DEF LinkAll
<1> QED
  BY <1>0, <1>4, <1>5, <1>6, <1>7, <1>8, <1>9, <1>10, <1>11, Zenon DEF OperandsLinked

\* An entry that is filled in.
IsFilled(a, s, op, pc, mem, recover, addr, seq, names) ==
  /\ a \in Station /\ a.op = op /\ a.PC = pc /\ a.ea_comp = mem /\ a.recover_inst = recover
  /\ a.spec_mode = spec_mode /\ a.addr = addr /\ a.seq = seq /\ a.onames = names
  /\ a.tag = rs[s].tag /\ ~ a.queued /\ ~ a.issued /\ ~ a.completed
  /\ a.idep_ready = rs[s].idep_ready
  /\ \A i \in 1 .. 2 : a.odep_list[i] = IF names[i] = NA THEN rs[s].odep_list[i] ELSE <<>>
\* What ruu_dispatch writes in the fields of a new entry.
LEMMA FilledFields ==
  ASSUME NEW s \in Stations, rs[s] \in Station, spec_mode \in BOOLEAN,
         NEW op \in DOMAIN OpTable, NEW pc \in Nat, NEW mem \in BOOLEAN, NEW recover \in BOOLEAN,
         NEW addr \in Nat, NEW seq \in Nat, NEW names \in [1 .. 2 -> Regs \cup {NA}]
  PROVE  IsFilled(Filled(s, op, pc, mem, recover, addr, seq, names),
                  s, op, pc, mem, recover, addr, seq, names)
<1> DEFINE a == Filled(s, op, pc, mem, recover, addr, seq, names)
<1> DEFINE f == [i \in 1 .. 2 |-> IF names[i] = NA THEN rs[s].odep_list[i] ELSE <<>>]
           t == rs[s].tag
           r == rs[s].idep_ready
<1>1. f \in [1 .. 2 -> Seq(Links_)] /\ t \in Nat /\ r \in [1 .. 3 -> BOOLEAN]
  <2>1. \A i \in 1 .. 2 : f[i] \in Seq(Links_)
    BY ChainOf
  <2> QED
    BY <2>1 DEF Station
<1>2. \A i \in 1 .. 2 : f[i] = IF names[i] = NA THEN rs[s].odep_list[i] ELSE <<>>
  OBVIOUS
<1>3. a = [op |-> op, PC |-> pc, ea_comp |-> mem, recover_inst |-> recover, spec_mode |-> spec_mode,
           addr |-> addr, tag |-> t, seq |-> seq,
           queued |-> FALSE, issued |-> FALSE, completed |-> FALSE, onames |-> names,
           odep_list |-> f, idep_ready |-> r]
  BY DEF Filled
<1> HIDE DEF f, t, r, a
<1>4. a \in Station
  BY <1>1, <1>3 DEF Station
<1>5. /\ a.op = op /\ a.PC = pc /\ a.ea_comp = mem /\ a.recover_inst = recover
      /\ a.spec_mode = spec_mode /\ a.addr = addr /\ a.seq = seq /\ a.onames = names
      /\ a.tag = t /\ a.idep_ready = r /\ a.odep_list = f
  BY <1>3
<1>6. ~ a.queued /\ ~ a.issued /\ ~ a.completed
  BY <1>3
<1>7. IsFilled(a, s, op, pc, mem, recover, addr, seq, names)
  BY <1>2, <1>4, <1>5, <1>6 DEF r, t, IsFilled
<1> QED
  BY <1>7 DEF a

-----------------------------------------------------------------------------
\* Ranks in sets of numbers.

Below(A, p)  == {q \in A : q < p}
RankIn(A, p) == Cardinality(Below(A, p))

\* The members of A before p.
LEMMA BelowIs ==
  ASSUME NEW A, A \subseteq Nat, NEW p \in Nat
  PROVE  \A q : q \in Below(A, p) <=> q \in A /\ q \in Nat /\ q < p
BY DEF Below

\* There are finitely many members of A before p.
LEMMA BelowFinite ==
  ASSUME NEW A, A \subseteq Nat, NEW p \in Nat
  PROVE  IsFiniteSet(Below(A, p)) /\ RankIn(A, p) \in Nat
<1>1. IsFiniteSet(0 .. p - 1)
  BY FS_Interval
<1>0. \A q : q \in Below(A, p) <=> q \in A /\ q \in Nat /\ q < p
  BY BelowIs
<1>2. \A q : q \in Below(A, p) => q \in 0 .. p - 1
  BY <1>0
<1>3. Below(A, p) \subseteq 0 .. p - 1
  BY <1>2
<1> QED
  BY <1>1, <1>3, FS_Subset, FS_CardinalityType DEF RankIn

\* The rank grows by one at each member.
LEMMA RankStep ==
  ASSUME NEW A, A \subseteq Nat, NEW p \in Nat
  PROVE  RankIn(A, p + 1) = RankIn(A, p) + One(p \in A)
<1> DEFINE B == Below(A, p)
           C == Below(A, p + 1)
<1>1. IsFiniteSet(B) /\ RankIn(A, p) = Cardinality(B) /\ RankIn(A, p + 1) = Cardinality(C)
  BY BelowFinite DEF RankIn
<1>2. /\ \A q : q \in B <=> q \in A /\ q \in Nat /\ q < p
      /\ \A q : q \in C <=> q \in A /\ q \in Nat /\ q < p + 1
  <2>1. p + 1 \in Nat
    OBVIOUS
  <2> QED
    BY <2>1, BelowIs
<1> HIDE DEF B, C
<1>4. CASE p \in A
  <2>1. p \notin B /\ \A q : q \in C <=> q \in B \/ q = p
    BY <1>2, <1>4
  <2>2. C = B \cup {p} /\ p \notin B
    BY <2>1
  <2>3. Cardinality(C) = Cardinality(B) + 1
    BY <1>1, <2>2, FS_AddElement
  <2> QED
    BY <1>1, <1>4, <2>3 DEF One
<1>5. CASE p \notin A
  <2>1. \A q : q \in C <=> q \in B
    BY <1>2, <1>5
  <2>2. C = B
    BY <2>1
  <2>3. Cardinality(B) \in Nat
    BY <1>1, FS_CardinalityType
  <2> QED
    BY <1>1, <1>5, <2>2, <2>3 DEF One
<1> QED
  BY <1>4, <1>5

\* The rank does not fall.
LEMMA RankMono ==
  ASSUME NEW A, A \subseteq Nat, NEW p \in Nat, NEW q \in Nat, p <= q
  PROVE  RankIn(A, p) <= RankIn(A, q)
<1>1. IsFiniteSet(Below(A, q)) /\ IsFiniteSet(Below(A, p))
  BY BelowFinite
<1>0. /\ \A x : x \in Below(A, p) <=> x \in A /\ x \in Nat /\ x < p
      /\ \A x : x \in Below(A, q) <=> x \in A /\ x \in Nat /\ x < q
  BY BelowIs
<1>3. \A x : x \in Below(A, p) => x \in Below(A, q)
  BY <1>0
<1>2. Below(A, p) \subseteq Below(A, q)
  BY <1>3
<1> QED
  BY <1>1, <1>2, FS_Subset DEF RankIn

\* Members have distinct ranks.
LEMMA RankStrict ==
  ASSUME NEW A, A \subseteq Nat, NEW p \in A, NEW q \in Nat, p < q
  PROVE  RankIn(A, p) < RankIn(A, q)
<1>1. p \in Nat /\ p + 1 \in Nat /\ p + 1 <= q
  OBVIOUS
<1>2. RankIn(A, p + 1) = RankIn(A, p) + 1
  BY <1>1, RankStep DEF One
<1>3. RankIn(A, p + 1) <= RankIn(A, q)
  BY <1>1, RankMono
<1>4. RankIn(A, p) \in Nat /\ RankIn(A, q) \in Nat
  BY <1>1, BelowFinite
<1> QED
  BY <1>2, <1>3, <1>4

\* The rank at p depends on the members before p only.
LEMMA RankAgree ==
  ASSUME NEW A, NEW B, NEW p \in Nat, A \subseteq Nat, B \subseteq Nat,
         \A q \in Nat : q < p => (q \in A <=> q \in B)
  PROVE  RankIn(A, p) = RankIn(B, p)
<1>2. \A x : x \in Below(A, p) <=> x \in Below(B, p)
  BY BelowIs
<1>1. Below(A, p) = Below(B, p)
  BY <1>2
<1> QED
  BY <1>1 DEF RankIn

\* The rank in a set that moved down by one place, as by a retirement.
LEMMA RankShift ==
  ASSUME NEW A, NEW B, NEW p \in Nat, A \subseteq Nat, B \subseteq Nat,
         \A q \in Nat : q \in B <=> q + 1 \in A
  PROVE  RankIn(B, p) = RankIn(A, p + 1) - One(0 \in A)
<1> DEFINE D == Below(A, p + 1)
           E == Below(B, p)
           C == D \ {0}
<1>0. p + 1 \in Nat /\ 0 \in Nat
  OBVIOUS
<1>1. /\ IsFiniteSet(D) /\ IsFiniteSet(E) /\ Cardinality(D) \in Nat
      /\ RankIn(A, p + 1) = Cardinality(D) /\ RankIn(B, p) = Cardinality(E)
  BY <1>0, BelowFinite DEF RankIn
<1>2. /\ \A q : q \in D <=> q \in A /\ q \in Nat /\ q < p + 1
      /\ \A q : q \in E <=> q \in B /\ q \in Nat /\ q < p
      /\ \A q : q \in C <=> q \in D /\ q # 0
  BY <1>0, BelowIs
<1>3. IsFiniteSet(C) /\ Cardinality(C) = IF 0 \in D THEN Cardinality(D) - 1 ELSE Cardinality(D)
  BY <1>1, FS_RemoveElement
<1> HIDE DEF C, D, E
<1>4. 0 \in D <=> 0 \in A
  BY <1>0, <1>2
<1>5. C \subseteq Int /\ E \subseteq Int /\ 1 \in Int
  BY <1>2
<1>6. \A x \in Int : x \in E <=> x + 1 \in C
  <2> SUFFICES ASSUME NEW x \in Int
               PROVE  x \in E <=> x + 1 \in C
    OBVIOUS
  <2>1. CASE x >= 0
    <3>1. x \in Nat /\ x + 1 # 0 /\ x + 1 \in Nat /\ (x < p <=> x + 1 < p + 1)
      BY <2>1
    <3> QED
      BY <3>1, <1>2
  <2>2. CASE ~ (x >= 0)
    <3>1. x \notin Nat /\ (x + 1 \in Nat => x + 1 = 0)
      BY <2>2
    <3> QED
      BY <3>1, <1>2
  <2> QED
    BY <2>1, <2>2
<1>7. Cardinality(C) = Cardinality(E)
  BY <1>1, <1>5, <1>6, MovedSet
<1>8. CASE 0 \in A
  BY <1>1, <1>3, <1>4, <1>7, <1>8 DEF One
<1>9. CASE 0 \notin A
  BY <1>1, <1>3, <1>4, <1>7, <1>9 DEF One
<1> QED
  BY <1>8, <1>9

-----------------------------------------------------------------------------
\* The address computations in the window, and their accesses.
Agens == {p \in Window : rs[RuuAt(p)].ea_comp}
Matches(p, k) ==
  /\ rs[LsqAt(k)].PC = rs[RuuAt(p)].PC /\ rs[LsqAt(k)].spec_mode = rs[RuuAt(p)].spec_mode
  /\ IsMem(rs[LsqAt(k)].op)
Accesses ==
  /\ RankIn(Agens, RUU_num) = LSQ_num
  /\ \A p \in Agens : Matches(p, RankIn(Agens, p))
  /\ \A k \in 0 .. LSQ_num - 1 : \E p \in Agens : RankIn(Agens, p) = k

\* The address computations of the window are natural places of the RUU.
LEMMA AgensAre ==
  RingsTyped => /\ Agens \subseteq Nat /\ RUU_num \in Nat /\ LSQ_num \in Nat
                /\ \A p \in Agens : p \in Nat /\ p < RUU_num /\ p \in Window /\ rs[RuuAt(p)].ea_comp
                /\ \A p \in Nat : p \in Agens <=> p < RUU_num /\ rs[RuuAt(p)].ea_comp
                /\ Below(Agens, RUU_num) = Agens
<1> SUFFICES ASSUME RingsTyped
             PROVE  /\ Agens \subseteq Nat /\ RUU_num \in Nat /\ LSQ_num \in Nat
                    /\ \A p \in Nat : p \in Agens <=> p < RUU_num /\ rs[RuuAt(p)].ea_comp
  BY DEF Window, Agens, Below
<1>1. RUU_num \in Nat /\ LSQ_num \in Nat
  BY SizeType DEF RingsTyped
<1> QED
  BY <1>1 DEF Window, Agens

\* Accesses is LsqFollowsRuu with LsqIsRanked, by ranks.
LEMMA AccessesAre == RingsTyped => (LsqFollowsRuu /\ LsqIsRanked <=> Accesses)
<1> SUFFICES ASSUME RingsTyped
             PROVE  LsqFollowsRuu /\ LsqIsRanked <=> Accesses
  OBVIOUS
<1>1. /\ Agens \subseteq Nat /\ RUU_num \in Nat /\ LSQ_num \in Nat
      /\ \A p \in Agens : p \in Nat /\ p < RUU_num
      /\ Below(Agens, RUU_num) = Agens
  BY AgensAre
<1>2. ASSUME NEW p \in Window
      PROVE  /\ Rank(p) = RankIn(Agens, p)
             /\ Cardinality({q \in 0 .. p - 1 : rs[RuuAt(q)].ea_comp}) = RankIn(Agens, p)
  <2>1. {q \in 0 .. p - 1 : rs[RuuAt(q)].ea_comp} = Below(Agens, p)
    <3>1. p \in Nat /\ p < RUU_num
      BY <1>1 DEF Window
    <3> QED
      BY <1>1, <3>1 DEF Below, Agens, Window
  <2> QED
    BY <2>1 DEF Rank, AgensBelow, RankIn
<1>3. Cardinality(Agens) = RankIn(Agens, RUU_num)
  BY <1>1 DEF RankIn
<1>4. \A p \in Agens : p \in Window /\ AccessOf(p) = LsqAt(RankIn(Agens, p))
  BY <1>2 DEF AccessOf, Agens
<1>5. LsqFollowsRuu <=> /\ RankIn(Agens, RUU_num) = LSQ_num
                        /\ \A p \in Agens : Matches(p, RankIn(Agens, p))
  <2>1. LsqFollowsRuu <=> /\ Cardinality(Agens) = LSQ_num
                          /\ \A p \in Agens : /\ rs[AccessOf(p)].PC = rs[RuuAt(p)].PC
                                              /\ rs[AccessOf(p)].spec_mode = rs[RuuAt(p)].spec_mode
                                              /\ IsMem(rs[AccessOf(p)].op)
    BY DEF LsqFollowsRuu, Agens
  <2> QED
    BY <2>1, <1>3, <1>4 DEF Matches
<1>6. LsqIsRanked <=> \A k \in 0 .. LSQ_num - 1 : \E p \in Agens : RankIn(Agens, p) = k
  BY <1>2 DEF LsqIsRanked, Agens
<1> QED
  BY <1>5, <1>6 DEF Accesses

\* The rank of an address computation is a place in the LSQ.
LEMMA AccessPlace ==
  ASSUME RingsTyped, Accesses, NEW p \in Agens
  PROVE  /\ RankIn(Agens, p) \in 0 .. LSQ_num - 1
         /\ p \in Window /\ p \in Nat
<1>1. /\ Agens \subseteq Nat /\ RUU_num \in Nat /\ LSQ_num \in Nat /\ p \in Nat /\ p < RUU_num
      /\ p \in Window
  BY AgensAre
<1>2. RankIn(Agens, p) < RankIn(Agens, RUU_num) /\ RankIn(Agens, p) \in Nat
  BY <1>1, RankStrict, BelowFinite
<1> QED
  BY <1>1, <1>2 DEF Accesses

-----------------------------------------------------------------------------
\* The first idle resource of a class is one.

\* res_get returns an idle template of the class, with positive latencies.
LEMMA ResGet ==
  ASSUME NEW b, NEW class, NEW t, t = res_get(b, class), t # NULL_TEMPLATE
  PROVE  /\ t \in Idle(b, class)
         /\ t.oplat \in Nat \ {0} /\ t.issuelat \in Nat \ {0} /\ b[t.master] = 0
<1> DEFINE I == Idle(b, class)
           A == {i \in Nat : \E u \in I : u.master[1] = i}
           B(i) == {j \in Nat : \E u \in I : u.master[1] = i /\ u.master[2] = j}
<1>1. ASSUME NEW u \in I
      PROVE  /\ u.master[1] \in Nat /\ u.master[2] \in Nat
             /\ u.oplat \in Nat \ {0} /\ u.issuelat \in Nat \ {0} /\ b[u.master] = 0
  <2>1. PICK r \in Resources : b[r] = 0 /\ u \in Templates(r, class)
    BY DEF Idle
  <2>2. PICK i \in DOMAIN fu_config : \E j \in 1 .. fu_config[i].quantity : r = <<i, j>>
    BY DEF Resources
  <2>3. PICK j \in 1 .. fu_config[i].quantity : r = <<i, j>>
    BY <2>2
  <2> DEFINE X == [class : STRING, oplat : Nat \ {0}, issuelat : Nat \ {0}]
             T == [quantity : Nat, x : Seq(X)]
  <2>a. fu_config \in Seq(T)
    BY ConfigAssumption
  <2>b. i \in Nat /\ fu_config[i] \in T
    <3> HIDE DEF T
    <3> QED
      BY <2>a, <2>2
  <2> HIDE DEF X
  <2>4. i \in Nat /\ fu_config[i].quantity \in Nat /\ fu_config[i].x \in Seq(X)
    BY <2>b
  <2>5. PICK k \in DOMAIN fu_config[i].x :
          u = [master |-> r, oplat |-> fu_config[i].x[k].oplat, issuelat |-> fu_config[i].x[k].issuelat]
    BY <2>1, <2>3 DEF Templates
  <2>6. fu_config[i].x[k] \in X
    BY <2>4, <2>5
  <2> QED
    BY <2>1, <2>3, <2>4, <2>5, <2>6 DEF X
<1> HIDE DEF I
<1>2. I # {} /\ t = CHOOSE v \in I : \A u \in I : ~ Earlier(u.master, v.master)
  BY DEF res_get, I
<1>3. \E v \in I : \A u \in I : ~ Earlier(u.master, v.master)
  <2>0. IsWellFoundedOn(OpToRel(<, Nat), Nat)
    BY NatLessThanWellFounded
  <2>1. A # {} /\ A \subseteq Nat
    BY <1>1, <1>2
  <2>2. PICK i \in A : \A x \in A : ~ (<<x, i>> \in OpToRel(<, Nat))
    <3> HIDE DEF A
    <3> QED
      BY <2>0, <2>1, WFMin
  <2>3. B(i) # {} /\ B(i) \subseteq Nat
    BY <1>1
  <2>4. PICK j \in B(i) : \A x \in B(i) : ~ (<<x, j>> \in OpToRel(<, Nat))
    <3> HIDE DEF A, B
    <3> QED
      BY <2>0, <2>3, WFMin
  <2>5. PICK v \in I : v.master[1] = i /\ v.master[2] = j
    OBVIOUS
  <2>6. ASSUME NEW u \in I
        PROVE  ~ Earlier(u.master, v.master)
    <3>1. u.master[1] \in A /\ u.master[1] \in Nat /\ u.master[2] \in Nat /\ i \in Nat /\ j \in Nat
      BY <1>1
    <3>2. ~ (u.master[1] < i)
      BY <2>2, <3>1 DEF OpToRel
    <3>3. u.master[1] = i => ~ (u.master[2] < j)
      <4>1. u.master[1] = i => u.master[2] \in B(i)
        BY <3>1
      <4> QED
        BY <2>4, <3>1, <4>1 DEF OpToRel
    <3> QED
      BY <2>5, <3>1, <3>2, <3>3 DEF Earlier
  <2> QED
    BY <2>6
<1>4. t \in I
  BY <1>2, <1>3
<1> QED
  BY <1>1, <1>4 DEF I

-----------------------------------------------------------------------------
\* A list with a link more.

\* A link put in front of a list is one more.
LEMMA ConsIsOneMore ==
  ASSUME NEW S, NEW q \in Seq(S), NEW e \in S
  PROVE  OneMore(S, q, <<e>> \o q, e)
<1> DEFINE y == <<e>> \o q
<1>1. /\ y \in Seq(S) /\ DOMAIN y = 1 .. Len(q) + 1 /\ Len(q) \in Nat /\ DOMAIN q = 1 .. Len(q)
      /\ y[1] = e /\ \A j \in 2 .. Len(q) + 1 : y[j] = q[j - 1]
  BY ConsAt
<1>2. \A x, t : CountOf(y, x, t) = CountOf(q, x, t) + One(e.rs = x /\ e.tag = t)
  BY CountCons
<1> HIDE DEF y
<1>3. Len(y) = Len(q) + 1 /\ DOMAIN y = 1 .. Len(y)
  BY <1>1, LenProperties
<1>4. ASSUME NEW i \in 1 .. Len(q) + 1
      PROVE  y[i] = e \/ \E j \in 1 .. Len(q) : y[i] = q[j]
  <2>1. CASE i = 1
    BY <1>1, <2>1
  <2>2. CASE i # 1
    <3>1. i \in 2 .. Len(q) + 1 /\ i - 1 \in 1 .. Len(q)
      BY <1>1, <2>2
    <3> QED
      BY <1>1, <3>1
  <2> QED
    BY <2>1, <2>2
<1>5. OneMore(S, q, y, e)
  BY <1>1, <1>2, <1>3, <1>4 DEF OneMore
<1> QED
  BY <1>5 DEF y

\* readyq_enqueue adds one link to the station, with its tag.
LEMMA ReadyEnqueued ==
  ASSUME NEW q \in Seq(ReadyLinks), NEW s \in Stations, NEW b, b.tag \in Nat, b.seq \in Nat
  PROVE  \E e \in ReadyLinks : e.rs = s /\ e.tag = b.tag /\ OneMore(ReadyLinks, q, readyq_enqueue(q, s, b), e)
<1> DEFINE e == [rs |-> s, tag |-> b.tag, seq |-> b.seq]
           P == {k \in DOMAIN q : \A i \in 1 .. k : q[i].seq < b.seq}
<1>1. e \in ReadyLinks /\ e.rs = s /\ e.tag = b.tag
  BY DEF ReadyLinks
<1>2. readyq_enqueue(q, s, b) = <<e>> \o q \/ readyq_enqueue(q, s, b) = InsertAfter(q, Cardinality(P), e)
  BY DEF readyq_enqueue, InsertSorted, InsertAfter
<1>3. P \subseteq DOMAIN q
  OBVIOUS
<1> HIDE DEF e, P
<1>4. OneMore(ReadyLinks, q, <<e>> \o q, e) /\ OneMore(ReadyLinks, q, InsertAfter(q, Cardinality(P), e), e)
  BY <1>1, <1>3, ConsIsOneMore, CountInsert
<1>5. OneMore(ReadyLinks, q, readyq_enqueue(q, s, b), e)
  BY <1>2, <1>4
<1> QED
  BY <1>1, <1>5

EventLinks == [rs : Stations, tag : Nat, when : Int]

\* eventq_queue_event adds one link to the station, with its tag.
LEMMA EventQueued ==
  ASSUME event_queue \in Seq(EventLinks), NEW s \in Stations, rs[s].tag \in Nat, NEW lat \in Int
  PROVE  \E e \in EventLinks :
           /\ e.rs = s /\ e.tag = rs[s].tag
           /\ OneMore(EventLinks, event_queue, eventq_queue_event(s, lat), e)
<1> DEFINE e == [rs |-> s, tag |-> rs[s].tag, when |-> lat]
           P == {k \in DOMAIN event_queue : \A i \in 1 .. k : event_queue[i].when < lat}
<1>1. e \in EventLinks /\ e.rs = s /\ e.tag = rs[s].tag
  BY DEF EventLinks
<1>2. eventq_queue_event(s, lat) = InsertAfter(event_queue, Cardinality(P), e)
  BY DEF eventq_queue_event, InsertSorted, InsertAfter
<1>3. P \subseteq DOMAIN event_queue
  OBVIOUS
<1> HIDE DEF e, P
<1>4. OneMore(EventLinks, event_queue, InsertAfter(event_queue, Cardinality(P), e), e)
  BY <1>1, <1>3, CountInsert
<1> QED
  BY <1>1, <1>2, <1>4

-----------------------------------------------------------------------------
\* Steps that leave the window alone.

\* A step that leaves heads and numbers alone keeps the window, place by place.
LEMMA WindowSame ==
  ASSUME WindowKept
  PROVE  /\ Stations' = Stations /\ LSQ_size' = LSQ_size /\ Window' = Window /\ InFlight' = InFlight
         /\ \A s : InWindow(s)' = InWindow(s) /\ Pos(s)' = Pos(s)
         /\ \A p : RuuAt(p)' = RuuAt(p) /\ LsqAt(p)' = LsqAt(p)
         /\ RUU_num' = RUU_num /\ LSQ_num' = LSQ_num /\ code' = code
<1>1. /\ config' = config /\ RUU_head' = RUU_head /\ RUU_num' = RUU_num /\ LSQ_head' = LSQ_head
      /\ LSQ_num' = LSQ_num /\ code' = code
  BY DEF WindowKept, windowVars
<1>2. Stations' = Stations /\ LSQ_size' = LSQ_size
  BY <1>1, StationsKept
<1>3. \A s : Pos(s)' = Pos(s)
  BY <1>1, <1>2 DEF Pos
<1>4. \A s : InWindow(s)' = InWindow(s)
  BY <1>1, <1>3 DEF InWindow
<1>5. \A p : RuuAt(p)' = RuuAt(p) /\ LsqAt(p)' = LsqAt(p)
  BY <1>1, <1>2 DEF RuuAt, LsqAt
<1> QED
  BY <1>1, <1>2, <1>3, <1>4, <1>5 DEF Window, InFlight

\* The kinds of the entries, and the accesses of the address computations.
LEMMA KindsKept ==
  ASSUME RsTyped, TextKept, WindowKept, Kinds
  PROVE  Kinds'
<1>1. ASSUME NEW s \in Stations
      PROVE  /\ s[1] = "RUU" => ~ IsMem(rs'[s].op)
             /\ s[1] = "LSQ" => ~ rs'[s].ea_comp /\ ~ rs'[s].recover_inst
             /\ s[1] = "LSQ" /\ InWindow(s)' => IsMem(rs'[s].op)
             /\ InWindow(s)' /\ IsStore(rs'[s].op) => rs'[s].onames = <<NA, NA>>
  BY <1>1, WindowSame DEF Kinds, TextKept, SameText
<1> QED
  BY <1>1, WindowSame DEF Kinds, IsMem, IsStore

\* A step that keeps texts and window keeps the places of the accesses.
LEMMA AccessesKept ==
  ASSUME RsTyped, TextKept, WindowKept, RingsTyped, Accesses
  PROVE  Accesses'
<1>1. \A p \in Window : RuuAt(p) \in Stations /\ rs'[RuuAt(p)].ea_comp = rs[RuuAt(p)].ea_comp
  BY InFlightIs DEF TextKept, SameText
<1>2. Agens' = Agens
  BY <1>1, WindowSame DEF Agens
<1>3. \A p : RankIn(Agens, p)' = RankIn(Agens, p)
  BY <1>2 DEF RankIn, Below
<1>4. ASSUME NEW p \in Agens
      PROVE  Matches(p, RankIn(Agens, p))'
  <2> DEFINE k == RankIn(Agens, p)
  <2>1. RuuAt(p) \in Stations /\ k \in 0 .. LSQ_num - 1
    BY AccessPlace, InFlightIs
  <2>2. LsqAt(k) \in Stations
    BY <2>1, InFlightIs
  <2>3. Matches(p, k)
    BY DEF Accesses
  <2>4. SameText(rs'[RuuAt(p)], rs[RuuAt(p)]) /\ SameText(rs'[LsqAt(k)], rs[LsqAt(k)])
    BY <2>1, <2>2 DEF TextKept
  <2>5. k' = k /\ LsqAt(k)' = LsqAt(k) /\ RuuAt(p)' = RuuAt(p)
    BY <1>3, WindowSame
  <2> HIDE DEF k
  <2>6. Matches(p, k)'
    BY <2>3, <2>4, <2>5, WindowSame DEF Matches, SameText, IsMem
  <2> QED
    BY <2>6 DEF k
<1> QED
  BY <1>2, <1>3, <1>4, WindowSame DEF Accesses

\* The branches that will be recovered from.
Branches == {p \in Window : rs[RuuAt(p)].recover_inst /\ ~ rs[RuuAt(p)].completed}
WrongPath ==
  /\ spec_mode <=> \E b \in Nat : b \in Branches
  /\ \A b \in Branches, p \in Window : rs[RuuAt(p)].spec_mode <=> p > b
  /\ ~ spec_mode => use_spec_cv = {} /\ \A p \in Window : ~ rs[RuuAt(p)].spec_mode

\* WrongPath, by places, is the property WrongPathIsTail.
LEMMA WrongPathIs == RingsTyped => (WrongPathIsTail <=> WrongPath)
<1>1. Window \subseteq Nat
  BY DEF Window
<1>2. Branches # {} <=> \E b \in Nat : b \in Branches
  BY <1>1 DEF Branches
<1> QED
  BY <1>2 DEF WrongPathIsTail, WrongPath, Branches

\* A step that keeps texts and window keeps the wrong path.
LEMMA WrongPathKept ==
  ASSUME RsTyped, TextKept, WindowKept, RingsTyped, WrongPath,
         spec_mode' = spec_mode, use_spec_cv' = use_spec_cv,
         \A s \in InFlight : rs[s].recover_inst => rs'[s].completed = rs[s].completed
  PROVE  WrongPath'
<1>1. \A p \in Window : /\ RuuAt(p) \in Stations /\ rs'[RuuAt(p)].recover_inst = rs[RuuAt(p)].recover_inst
                        /\ rs'[RuuAt(p)].spec_mode = rs[RuuAt(p)].spec_mode
                        /\ rs[RuuAt(p)].recover_inst => rs'[RuuAt(p)].completed = rs[RuuAt(p)].completed
  BY InFlightIs DEF TextKept, SameText
<1>2. Branches' = Branches
  BY <1>1, WindowSame DEF Branches
<1> QED
  BY <1>1, <1>2, WindowSame DEF WrongPath

-----------------------------------------------------------------------------
\* Steps that leave the stations alone, and what they mean for the rest of the invariant.

\* The instructions in the window are as far as they were, or further.
LEMMA FlaggedKept ==
  ASSUME RsTyped, TextKept, WindowKept, StateKept, Flagged,
         \A s \in Stations, k \in 1 .. 3 : rs'[s].idep_ready[k] = rs[s].idep_ready[k]
  PROVE  Flagged'
<1>1. \A s \in Stations : OPERANDS_READY(s)' <=> OPERANDS_READY(s)
  BY DEF OPERANDS_READY
<1>2. \A s \in Stations : (IsLoad(rs[s].op))' <=> IsLoad(rs[s].op)
  BY DEF IsLoad, TextKept, SameText
<1>3. \A s \in Stations : SameState(rs'[s], rs[s])
  BY DEF StateKept
<1> QED
  BY <1>1, <1>2, <1>3, WindowSame DEF Flagged, SameState

-----------------------------------------------------------------------------
\* What the steps that keep the window do to the parts of the invariant.

ReadyKept == \A s \in Stations, k \in 1 .. 3 : rs[s].idep_ready[k] => rs'[s].idep_ready[k]

\* The chains are as they were.
LEMMA ChainsSame ==
  ASSUME TypeOK, RsTyped, TagsKept, ChainsKept, WindowKept, LinkInv(rs, InFlight)
  PROVE  LinkInv(rs, InFlight)'
<1> DEFINE off == [x \in Stations \X (1 .. 2) |-> 0]
<1>0. rs \in [Stations -> Station] /\ rs' \in [Stations -> Station] /\ Stations' = Stations
  BY DEF TypeOK, RsTyped
<1>1. \A s \in Stations : rs'[s].odep_list = rs[s].odep_list /\ rs'[s].idep_ready = rs[s].idep_ready
                          /\ rs'[s].tag = rs[s].tag
  BY DEF ChainsKept, SameChains, TagsKept
<1>2. ASSUME NEW s \in Stations, NEW i \in 1 .. 2, NEW j \in DOMAIN rs[s].odep_list[i]
      PROVE  /\ LinkAt(rs', s, i, j) = LinkAt(rs, s, i, j)
             /\ LinkAt(rs, s, i, j).rs \in Stations
             /\ rs'[LinkAt(rs, s, i, j).rs].tag = rs[LinkAt(rs, s, i, j).rs].tag
             /\ rs'[LinkAt(rs, s, i, j).rs].idep_ready = rs[LinkAt(rs, s, i, j).rs].idep_ready
  <2>1. LinkAt(rs, s, i, j).rs \in Stations
    BY <1>0, LinkTyped
  <2> QED
    BY <1>1, <2>1 DEF LinkAt
<1>3. SubChains(rs, rs', off)
  <2> SUFFICES ASSUME NEW s \in Stations, NEW i \in 1 .. 2, NEW j \in Nat, Waits(rs', s, i, j)
               PROVE  /\ j + off[<<s, i>>] \in Nat /\ Waits(rs, s, i, j + off[<<s, i>>])
                      /\ LinkAt(rs', s, i, j) = LinkAt(rs, s, i, j + off[<<s, i>>])
    BY DEF SubChains
  <2>1. off[<<s, i>>] = 0 /\ j + 0 = j
    OBVIOUS
  <2>2. j \in DOMAIN rs[s].odep_list[i] /\ LinkAt(rs', s, i, j).tag = rs'[LinkAt(rs', s, i, j).rs].tag
    BY <1>1 DEF Waits
  <2>3. Waits(rs, s, i, j) /\ LinkAt(rs', s, i, j) = LinkAt(rs, s, i, j)
    BY <1>2, <2>2 DEF Waits
  <2> QED
    BY <2>1, <2>3
<1>4. off \in [Stations \X (1 .. 2) -> Int]
  OBVIOUS
<1> HIDE DEF off
<1>5. Wanted(rs', InFlight)
  <2> SUFFICES ASSUME NEW s \in Stations, NEW i \in 1 .. 2, NEW j \in Nat, Waits(rs', s, i, j)
               PROVE  LET l == LinkAt(rs', s, i, j)
                      IN  l.rs \in InFlight /\ ~ rs'[l.rs].idep_ready[l.opnum]
    BY DEF Wanted
  <2>1. j \in DOMAIN rs[s].odep_list[i] /\ LinkAt(rs', s, i, j).tag = rs'[LinkAt(rs', s, i, j).rs].tag
    BY <1>1 DEF Waits
  <2>2. Waits(rs, s, i, j) /\ LinkAt(rs', s, i, j) = LinkAt(rs, s, i, j)
    BY <1>2, <2>1 DEF Waits
  <2> QED
    BY <1>2, <2>1, <2>2 DEF LinkInv, Wanted
<1>6. Alone(rs')
  BY <1>3, <1>4, AloneSub DEF LinkInv
<1>7. PastChains(rs')
  <2> SUFFICES ASSUME NEW s \in Stations, NEW i \in 1 .. 2, NEW j \in DOMAIN rs'[s].odep_list[i]
               PROVE  LinkAt(rs', s, i, j).tag <= rs'[LinkAt(rs', s, i, j).rs].tag
    BY <1>0 DEF PastChains
  <2>1. j \in DOMAIN rs[s].odep_list[i]
    BY <1>1
  <2> QED
    BY <1>2, <2>1 DEF LinkInv, PastChains
<1> QED
  BY <1>0, <1>5, <1>6, <1>7, WindowSame DEF LinkInv, Wanted, Alone, PastChains

\* Which loads may be on their way.
LoadClear(p) ==
  \A q \in 0 .. LSQ_num - 1 : q < p /\ IsStore(rs[LsqAt(q)].op) =>
    /\ STORE_ADDR_READY(LsqAt(q))
    /\ \/ rs[LsqAt(q)].addr # rs[LsqAt(p)].addr
       \/ OPERANDS_READY(LsqAt(q))
       \/ \E h \in q + 1 .. p - 1 : IsStore(rs[LsqAt(h)].op) /\ rs[LsqAt(h)].addr = rs[LsqAt(q)].addr
OnItsWay(p) == IsLoad(rs[LsqAt(p)].op) /\ (rs[LsqAt(p)].queued \/ rs[LsqAt(p)].issued)

\* MemoryOrder, by places of the LSQ.
LEMMA MemoryOrderIs == MemoryOrder <=> \A p \in 0 .. LSQ_num - 1 : OnItsWay(p) => LoadClear(p)
BY DEF MemoryOrder, LoadClear, OnItsWay

\* A load that lsq_refresh finds ready has no store of its address before it.
LEMMA LoadReadyClear ==
  ASSUME RingsTyped, NEW p \in 0 .. LSQ_num - 1, LoadReady(p)
  PROVE  LoadClear(p)
<1>0. LSQ_num \in Nat
  BY SizeType DEF RingsTyped
<1> SUFFICES ASSUME NEW q \in 0 .. LSQ_num - 1, q < p, IsStore(rs[LsqAt(q)].op)
             PROVE  /\ STORE_ADDR_READY(LsqAt(q))
                    /\ \/ rs[LsqAt(q)].addr # rs[LsqAt(p)].addr
                       \/ OPERANDS_READY(LsqAt(q))
                       \/ \E h \in q + 1 .. p - 1 : IsStore(rs[LsqAt(h)].op) /\ rs[LsqAt(h)].addr = rs[LsqAt(q)].addr
  BY DEF LoadClear
<1>1. StoreAt(q) /\ q \in 0 .. p /\ q \in 0 .. p - 1
  BY <1>0 DEF StoreAt
<1>2. STORE_ADDR_READY(LsqAt(q))
  BY <1>1 DEF LoadReady, Scanned
<1>3. StdUnknown(q) => UnknownAddr(q, p) # rs[LsqAt(p)].addr
  BY <1>1 DEF LoadReady
<1>4. \/ rs[LsqAt(q)].addr # rs[LsqAt(p)].addr
      \/ OPERANDS_READY(LsqAt(q))
      \/ \E h \in q + 1 .. p - 1 : IsStore(rs[LsqAt(h)].op) /\ rs[LsqAt(h)].addr = rs[LsqAt(q)].addr
  <2> SUFFICES ASSUME ~ OPERANDS_READY(LsqAt(q)), rs[LsqAt(q)].addr = rs[LsqAt(p)].addr
               PROVE  \E h \in q + 1 .. p - 1 : IsStore(rs[LsqAt(h)].op) /\ rs[LsqAt(h)].addr = rs[LsqAt(q)].addr
    OBVIOUS
  <2>1. UnknownAddr(q, p) # rs[LsqAt(q)].addr
    BY <1>1, <1>3 DEF StdUnknown
  <2>2. \E h \in q + 1 .. p - 1 : StoreAt(h) /\ rs[LsqAt(h)].addr = rs[LsqAt(q)].addr
    BY <2>1 DEF UnknownAddr
  <2> QED
    BY <2>2 DEF StoreAt
<1> QED
  BY <1>2, <1>4

\* A step that keeps texts and window keeps the order of loads behind stores.
LEMMA MemoryOrderKept ==
  ASSUME RingsTyped, RsTyped, TextKept, WindowKept, ReadyKept, MemoryOrder,
         \A p \in 0 .. LSQ_num - 1 : OnItsWay(p)' => OnItsWay(p) \/ LoadClear(p)
  PROVE  MemoryOrder'
<1>1. \A p \in 0 .. LSQ_num - 1 : LsqAt(p) \in Stations /\ SameText(rs'[LsqAt(p)], rs[LsqAt(p)])
  BY InFlightIs DEF TextKept
<1>0. LSQ_num \in Nat
  BY SizeType DEF RingsTyped
<1>2. \A p \in 0 .. LSQ_num - 1 :
        /\ STORE_ADDR_READY(LsqAt(p)) => STORE_ADDR_READY(LsqAt(p))'
        /\ OPERANDS_READY(LsqAt(p)) => OPERANDS_READY(LsqAt(p))'
  BY <1>1, WindowSame DEF ReadyKept, STORE_ADDR_READY, OPERANDS_READY
<1>3. \A p \in 0 .. LSQ_num - 1 : /\ rs'[LsqAt(p)].addr = rs[LsqAt(p)].addr
                                  /\ rs'[LsqAt(p)].op = rs[LsqAt(p)].op
  BY <1>1 DEF SameText
<1>4. ASSUME NEW p \in 0 .. LSQ_num - 1, LoadClear(p)
      PROVE  LoadClear(p)'
  <2> SUFFICES ASSUME NEW q \in 0 .. LSQ_num - 1, q < p, IsStore(rs[LsqAt(q)].op)
               PROVE  /\ STORE_ADDR_READY(LsqAt(q))'
                      /\ \/ rs'[LsqAt(q)].addr # rs'[LsqAt(p)].addr
                         \/ OPERANDS_READY(LsqAt(q))'
                         \/ \E h \in q + 1 .. p - 1 : IsStore(rs[LsqAt(h)].op) /\ rs'[LsqAt(h)].addr = rs'[LsqAt(q)].addr
    <3>1. \A q \in 0 .. LSQ_num - 1 : \A h \in q + 1 .. p - 1 : h \in 0 .. LSQ_num - 1
      BY <1>0
    <3> QED
      BY <1>0, <1>3, <3>1, WindowSame DEF LoadClear, IsStore
  <2>1. /\ STORE_ADDR_READY(LsqAt(q))
        /\ \/ rs[LsqAt(q)].addr # rs[LsqAt(p)].addr
           \/ OPERANDS_READY(LsqAt(q))
           \/ \E h \in q + 1 .. p - 1 : IsStore(rs[LsqAt(h)].op) /\ rs[LsqAt(h)].addr = rs[LsqAt(q)].addr
    BY <1>4 DEF LoadClear
  <2>2. \A h \in q + 1 .. p - 1 : h \in 0 .. LSQ_num - 1
    BY <1>0
  <2> QED
    BY <1>2, <1>3, <2>1, <2>2
<1>5. \A p \in 0 .. LSQ_num - 1 : OnItsWay(p) => LoadClear(p)
  BY MemoryOrderIs
<1>6. \A p \in 0 .. LSQ_num - 1 : OnItsWay(p)' => LoadClear(p)'
  BY <1>4, <1>5
<1>7. (MemoryOrder <=> \A p \in 0 .. LSQ_num - 1 : OnItsWay(p) => LoadClear(p))'
  BY MemoryOrderIs, PTL
<1> QED
  BY <1>6, <1>7, WindowSame

-----------------------------------------------------------------------------
\* The lists of links.

ReadyCount(s) == CountOf(ready_queue, s, rs[s].tag) + CountOf(node, s, rs[s].tag)
EventCount(s) == CountOf(event_queue, s, rs[s].tag)
UnderWay(s)   == rs[s].issued /\ ~ rs[s].completed
AllPast == PastTags(event_queue) /\ PastTags(ready_queue) /\ PastTags(node)
Lists == Flagged /\ Counted /\ AllPast /\ LinkInv(rs, InFlight) /\ MemoryOrder

\* Lists is the conjunction of its five parts.
LEMMA ListsAre == Lists <=> Flagged /\ Counted /\ Tagged /\ Chained /\ MemoryOrder
BY DEF Lists, AllPast, LinkInv, Tagged, Chained

\* Counted, by the numbers of links in the ready lists and in the event queue.
LEMMA CountedIs ==
  Counted <=> \A s \in Stations : /\ ReadyCount(s) = One(InWindow(s) /\ rs[s].queued)
                                  /\ EventCount(s) = One(InWindow(s) /\ UnderWay(s))
<1>1. \A s \in Stations : InWindow(s) /\ UnderWay(s) <=> InWindow(s) /\ rs[s].issued /\ ~ rs[s].completed
  BY DEF UnderWay
<1> QED
  BY <1>1 DEF Counted, ReadyCount, EventCount, One

\* The queues are lists of links, and the stations have their fields.
LEMMA QueuesTyped ==
  ASSUME TypeOK
  PROVE  /\ event_queue \in Seq(EventLinks) /\ ready_queue \in Seq(ReadyLinks) /\ node \in Seq(ReadyLinks)
         /\ rs \in [Stations -> Station]
         /\ \A s \in Stations : /\ rs[s] \in Station /\ rs[s].tag \in Nat /\ rs[s].seq \in Nat
                                /\ rs[s].queued \in BOOLEAN /\ rs[s].issued \in BOOLEAN
                                /\ rs[s].completed \in BOOLEAN
<1>1. rs \in [Stations -> Station]
  BY DEF TypeOK
<1>2. ASSUME NEW s \in Stations
      PROVE  /\ rs[s] \in Station /\ rs[s].tag \in Nat /\ rs[s].seq \in Nat
             /\ rs[s].queued \in BOOLEAN /\ rs[s].issued \in BOOLEAN /\ rs[s].completed \in BOOLEAN
  BY <1>1 DEF Station
<1>3. /\ event_queue \in Seq(EventLinks) /\ ready_queue \in Seq(ReadyLinks) /\ node \in Seq(ReadyLinks)
  BY DEF TypeOK, EventLinks
<1> QED
  BY <1>1, <1>2, <1>3

\* The numbers of links are natural.
LEMMA CountTyped ==
  ASSUME TypeOK, NEW s, NEW t
  PROVE  /\ CountOf(event_queue, s, t) \in Nat /\ CountOf(ready_queue, s, t) \in Nat
         /\ CountOf(node, s, t) \in Nat
BY QueuesTyped, CountType

\* The links of a list stay in the past.
LEMMA PastKept ==
  ASSUME NEW L, \A e \in L : e.rs \in Stations /\ e.tag \in Nat, NEW q \in Seq(L), PastTags(q), NEW r,
         \A s \in Stations : rs[s].tag \in Nat /\ rs'[s].tag \in Nat /\ rs[s].tag <= rs'[s].tag,
         \A i \in DOMAIN r : \/ r[i].tag <= rs'[r[i].rs].tag
                             \/ \E j \in DOMAIN q : r[i].rs = q[j].rs /\ r[i].tag = q[j].tag
  PROVE  \A i \in DOMAIN r : r[i].tag <= rs'[r[i].rs].tag
<1> SUFFICES ASSUME NEW i \in DOMAIN r, NEW j \in DOMAIN q, r[i].rs = q[j].rs, r[i].tag = q[j].tag
             PROVE  r[i].tag <= rs'[r[i].rs].tag
  OBVIOUS
<1>1. q[j] \in L
  OBVIOUS
<1>2. q[j].rs \in Stations /\ q[j].tag \in Nat
  BY <1>1
<1>3. q[j].tag <= rs[q[j].rs].tag
  BY DEF PastTags
<1> HIDE DEF PastTags
<1> QED
  BY <1>2, <1>3

LinkTypes(L) == \A e \in L : e.rs \in Stations /\ e.tag \in Nat
\* Both kinds of link have a station and a tag.
LEMMA TwoLinkTypes == LinkTypes(ReadyLinks) /\ LinkTypes(EventLinks)
BY DEF LinkTypes, ReadyLinks, EventLinks

\* In the past after a step: every link is an old one, or has the tag of its station.
LEMMA PastAfter ==
  ASSUME NEW L, LinkTypes(L), NEW q \in Seq(L), PastTags(q), NEW r,
         \A s \in Stations : rs[s].tag \in Nat /\ rs'[s].tag \in Nat /\ rs[s].tag <= rs'[s].tag,
         \A i \in DOMAIN r : \/ r[i].rs \in Stations /\ r[i].tag = rs[r[i].rs].tag
                             \/ \E j \in DOMAIN q : r[i] = q[j]
  PROVE  \A i \in DOMAIN r : r[i].tag <= rs'[r[i].rs].tag
<1>1. \A i \in DOMAIN r : \/ r[i].tag <= rs'[r[i].rs].tag
                          \/ \E j \in DOMAIN q : r[i].rs = q[j].rs /\ r[i].tag = q[j].tag
  OBVIOUS
<1> QED
  BY <1>1, PastKept DEF LinkTypes

\* A link that has the tag of its station counts.
LEMMA HeadCounts ==
  ASSUME NEW L, NEW q \in Seq(L), q # <<>>, NEW s
  PROVE  /\ Head(q).tag = rs[Head(q).rs].tag =>
              CountOf(q, s, rs[s].tag) = CountOf(Tail(q), s, rs[s].tag) + One(s = Head(q).rs)
         /\ Head(q).tag # rs[Head(q).rs].tag =>
              CountOf(q, s, rs[s].tag) = CountOf(Tail(q), s, rs[s].tag)
         /\ CountOf(Tail(q), s, rs[s].tag) \in Nat /\ CountOf(q, s, rs[s].tag) \in Nat
         /\ \A i \in DOMAIN Tail(q) : \E j \in DOMAIN q : Tail(q)[i] = q[j]
<1>1. /\ CountOf(q, s, rs[s].tag) =
           CountOf(Tail(q), s, rs[s].tag) + One(Head(q).rs = s /\ Head(q).tag = rs[s].tag)
      /\ CountOf(Tail(q), s, rs[s].tag) \in Nat /\ Tail(q) \in Seq(L)
  BY CountTail
<1>2. CountOf(q, s, rs[s].tag) \in Nat
  BY CountType
<1>3. \A i \in DOMAIN Tail(q) : \E j \in DOMAIN q : Tail(q)[i] = q[j]
  <2>1. /\ Len(q) \in Nat \ {0} /\ DOMAIN q = 1 .. Len(q) /\ DOMAIN Tail(q) = 1 .. Len(q) - 1
        /\ \A i \in 1 .. Len(q) - 1 : Tail(q)[i] = q[i + 1]
    BY HeadTailProperties, EmptySeq, LenProperties
  <2> QED
    BY <2>1
<1>4. CASE Head(q).tag = rs[Head(q).rs].tag
  <2>1. Head(q).rs = s /\ Head(q).tag = rs[s].tag <=> s = Head(q).rs
    BY <1>4
  <2> QED
    BY <1>1, <1>2, <1>3, <1>4, <2>1 DEF One
<1>5. CASE Head(q).tag # rs[Head(q).rs].tag
  <2>1. ~ (Head(q).rs = s /\ Head(q).tag = rs[s].tag)
    BY <1>5
  <2> QED
    BY <1>1, <1>2, <1>3, <1>5, <2>1 DEF One
<1> QED
  BY <1>4, <1>5

-----------------------------------------------------------------------------
\* Steps that keep the chains, and the lists.

\* A step that changes the flags of stations and the queues to match keeps the lists.
LEMMA StateLists ==
  ASSUME TypeOK, Lists, RsTyped, TextKept, TagsKept, ChainsKept, WindowKept, Flagged', AllPast',
         \A s \in Stations : /\ ReadyCount(s)' = One(InWindow(s) /\ rs'[s].queued)
                             /\ EventCount(s)' = One(InWindow(s) /\ UnderWay(s)'),
         \A p \in 0 .. LSQ_num - 1 : OnItsWay(p)' => OnItsWay(p) \/ LoadClear(p)
  PROVE  Lists'
<1>1. LinkInv(rs, InFlight)'
  BY ChainsSame DEF Lists
<1>2. ReadyKept
  BY DEF ReadyKept, ChainsKept, SameChains
<1>3. MemoryOrder'
  BY <1>2, MemoryOrderKept, RingsAreTyped DEF Lists
<1>4. Counted'
  <2>1. (Counted <=> \A s \in Stations : /\ ReadyCount(s) = One(InWindow(s) /\ rs[s].queued)
                                         /\ EventCount(s) = One(InWindow(s) /\ UnderWay(s)))'
    BY CountedIs, PTL
  <2> QED
    BY <2>1, WindowSame DEF One
<1> QED
  BY <1>1, <1>3, <1>4 DEF Lists

\* A step that leaves the stations alone and drops stale links only keeps the lists.
LEMMA QuietLists ==
  ASSUME TypeOK, Lists, rs' = rs, WindowKept, AllPast',
         \A s \in Stations : ReadyCount(s)' = ReadyCount(s) /\ EventCount(s)' = EventCount(s)
  PROVE  Lists'
<1>1. RsTyped /\ TextKept /\ TagsKept /\ StateKept /\ ChainsKept
  BY RsKept DEF WindowKept
<1>2. Flagged'
  BY <1>1, FlaggedKept DEF Lists, ChainsKept, SameChains
<1>3. \A s \in Stations : /\ ReadyCount(s)' = One(InWindow(s) /\ rs'[s].queued)
                          /\ EventCount(s)' = One(InWindow(s) /\ UnderWay(s)')
  <2>1. \A s \in Stations : UnderWay(s)' <=> UnderWay(s)
    BY DEF UnderWay
  <2> QED
    BY <2>1, CountedIs DEF Lists, One
<1>4. \A p \in 0 .. LSQ_num - 1 : OnItsWay(p)' => OnItsWay(p)
  BY WindowSame DEF OnItsWay, IsLoad
<1> QED
  BY <1>1, <1>2, <1>3, <1>4, StateLists

TagsGrow == \A s \in Stations : rs[s].tag \in Nat /\ rs'[s].tag \in Nat /\ rs[s].tag <= rs'[s].tag
\* A tag that is kept or raised by one has grown.
LEMMA TagsDoGrow ==
  ASSUME TypeOK, RsTyped, \A s \in Stations : rs'[s].tag \in {rs[s].tag, rs[s].tag + 1}
  PROVE  TagsGrow
<1>1. \A s \in Stations : rs[s].tag \in Nat
  BY QueuesTyped
<1> QED
  BY <1>1 DEF TagsGrow

\* A list that is unchanged, or a part of what it was, stays in the past.
LEMMA QueuePast ==
  ASSUME TypeOK, TagsGrow, AllPast, 
         NEW r, \A i \in DOMAIN r : \/ r[i].rs \in Stations /\ r[i].tag = rs[r[i].rs].tag
                                    \/ \E j \in DOMAIN event_queue : r[i] = event_queue[j]
                                    \/ \E j \in DOMAIN ready_queue : r[i] = ready_queue[j]
                                    \/ \E j \in DOMAIN node : r[i] = node[j]
  PROVE  \A i \in DOMAIN r : r[i].tag <= rs'[r[i].rs].tag
<1>1. /\ event_queue \in Seq(EventLinks) /\ ready_queue \in Seq(ReadyLinks) /\ node \in Seq(ReadyLinks)
  BY QueuesTyped
<1>2. ASSUME NEW L, LinkTypes(L), NEW q \in Seq(L), PastTags(q), NEW j \in DOMAIN q
      PROVE  q[j].tag <= rs'[q[j].rs].tag
  BY <1>2, PastAfter DEF TagsGrow
<1>3. /\ \A j \in DOMAIN event_queue : event_queue[j].tag <= rs'[event_queue[j].rs].tag
      /\ \A j \in DOMAIN ready_queue : ready_queue[j].tag <= rs'[ready_queue[j].rs].tag
      /\ \A j \in DOMAIN node : node[j].tag <= rs'[node[j].rs].tag
  BY <1>1, <1>2, TwoLinkTypes DEF AllPast
<1> SUFFICES ASSUME NEW i \in DOMAIN r
             PROVE  r[i].tag <= rs'[r[i].rs].tag
  OBVIOUS
<1>4. CASE r[i].rs \in Stations /\ r[i].tag = rs[r[i].rs].tag
  BY <1>4 DEF TagsGrow
<1> QED
  BY <1>3, <1>4

\* Tags that grow leave the lists that lose links in the past.
LEMMA PastSame ==
  ASSUME TypeOK, TagsGrow, AllPast
  PROVE  /\ event_queue' = event_queue => PastTags(event_queue)'
         /\ ready_queue' = ready_queue => PastTags(ready_queue)'
         /\ node' = node => PastTags(node)'
         /\ event_queue # <<>> /\ event_queue' = Tail(event_queue) => PastTags(event_queue)'
         /\ node # <<>> /\ node' = Tail(node) => PastTags(node)'
         /\ ready_queue' = <<>> => PastTags(ready_queue)'
<1>0. /\ event_queue \in Seq(EventLinks) /\ ready_queue \in Seq(ReadyLinks) /\ node \in Seq(ReadyLinks)
  BY QueuesTyped
<1>1. /\ event_queue' = event_queue => PastTags(event_queue)'
      /\ ready_queue' = ready_queue => PastTags(ready_queue)'
      /\ node' = node => PastTags(node)'
  BY QueuePast DEF PastTags
<1>2. ASSUME event_queue # <<>>, event_queue' = Tail(event_queue)
      PROVE  PastTags(event_queue)'
  <2>1. \A i \in DOMAIN event_queue' : \E j \in DOMAIN event_queue : event_queue'[i] = event_queue[j]
    BY <1>0, <1>2, HeadCounts
  <2> QED
    BY <2>1, QueuePast DEF PastTags
<1>3. ASSUME node # <<>>, node' = Tail(node)
      PROVE  PastTags(node)'
  <2>1. \A i \in DOMAIN node' : \E j \in DOMAIN node : node'[i] = node[j]
    BY <1>0, <1>3, HeadCounts
  <2> QED
    BY <2>1, QueuePast DEF PastTags
<1>4. ready_queue' = <<>> => PastTags(ready_queue)'
  BY DEF PastTags
<1> QED
  BY <1>1, <1>2, <1>3, <1>4

\* Tags that stay have not fallen.
LEMMA KeptGrow ==
  ASSUME TypeOK, RsTyped, TagsKept
  PROVE  TagsGrow
BY TagsDoGrow DEF TagsKept

\* Steps that change no list.
LEMMA StillLists ==
  ASSUME TypeOK, Lists, rs' = rs, WindowKept, UNCHANGED <<event_queue, ready_queue, node>>
  PROVE  Lists'
<1>1. TagsGrow
  BY RsKept, KeptGrow DEF WindowKept
<1>2. AllPast'
  BY <1>1, PastSame DEF AllPast, Lists
<1>3. \A s \in Stations : ReadyCount(s)' = ReadyCount(s) /\ EventCount(s)' = EventCount(s)
  BY DEF ReadyCount, EventCount
<1> QED
  BY <1>2, <1>3, QuietLists

\* A squashed event keeps the ready lists, the event queue and the links in agreement
\* with the stations.
LEMMA StaleEventLists ==
  ASSUME TypeOK, Lists, StaleEvent
  PROVE  Lists'
<1>0. /\ rs' = rs /\ WindowKept /\ event_queue # <<>> /\ event_queue' = Tail(event_queue)
      /\ ready_queue' = ready_queue /\ node' = node
      /\ Head(event_queue).tag # rs[Head(event_queue).rs].tag
  BY DEF StaleEvent, WindowKept, windowVars, EventDue, RSLINK_VALID
<1>1. TagsGrow
  BY <1>0, RsKept, KeptGrow DEF WindowKept
<1>2. AllPast'
  BY <1>0, <1>1, PastSame DEF AllPast, Lists
<1>3. event_queue \in Seq(EventLinks)
  BY QueuesTyped
<1>4. \A s \in Stations : ReadyCount(s)' = ReadyCount(s) /\ EventCount(s)' = EventCount(s)
  BY <1>0, <1>3, HeadCounts DEF ReadyCount, EventCount
<1> QED
  BY <1>0, <1>2, <1>4, QuietLists

\* A squashed candidate keeps the ready lists, the event queue and the links in
\* agreement with the stations.
LEMMA StaleNodeLists ==
  ASSUME TypeOK, Lists, StaleNode
  PROVE  Lists'
<1>0. /\ rs' = rs /\ WindowKept /\ node # <<>> /\ node' = Tail(node)
      /\ ready_queue' = ready_queue /\ event_queue' = event_queue
      /\ Head(node).tag # rs[Head(node).rs].tag
  BY DEF StaleNode, issueRest, WindowKept, windowVars, RSLINK_VALID
<1>1. TagsGrow
  BY <1>0, RsKept, KeptGrow DEF WindowKept
<1>2. AllPast'
  BY <1>0, <1>1, PastSame DEF AllPast, Lists
<1>3. node \in Seq(ReadyLinks)
  BY QueuesTyped
<1>4. \A s \in Stations : ReadyCount(s)' = ReadyCount(s) /\ EventCount(s)' = EventCount(s)
  BY <1>0, <1>3, HeadCounts DEF ReadyCount, EventCount
<1> QED
  BY <1>0, <1>2, <1>4, QuietLists

\* A candidate that finds no unit keeps the ready lists, the event queue and the links
\* in agreement with the stations.
LEMMA RequeueLists ==
  ASSUME TypeOK, Lists, Requeue
  PROVE  Lists'
<1> DEFINE c == Candidate
<1>0. /\ rs' = rs /\ WindowKept /\ node # <<>> /\ node' = Tail(node)
      /\ ready_queue' = readyq_enqueue(ready_queue, c, rs[c]) /\ event_queue' = event_queue
      /\ Head(node).tag = rs[Head(node).rs].tag /\ c = Head(node).rs /\ c \in Stations
  BY HeadOfNode DEF Requeue, issueRest, WindowKept, windowVars, RSLINK_VALID, Candidate
<1> HIDE DEF c
<1>1. TagsGrow
  BY <1>0, RsKept, KeptGrow DEF WindowKept
<1>2. node \in Seq(ReadyLinks) /\ ready_queue \in Seq(ReadyLinks) /\ rs[c].tag \in Nat /\ rs[c].seq \in Nat
  BY <1>0, QueuesTyped
<1>3. PICK e \in ReadyLinks : /\ e.rs = c /\ e.tag = rs[c].tag
                              /\ OneMore(ReadyLinks, ready_queue, ready_queue', e)
  BY <1>0, <1>2, ReadyEnqueued
<1>4. PastTags(ready_queue)'
  <2>1. \A i \in DOMAIN ready_queue' : \/ ready_queue'[i].rs \in Stations 
                                          /\ ready_queue'[i].tag = rs[ready_queue'[i].rs].tag
                                       \/ \E j \in DOMAIN ready_queue : ready_queue'[i] = ready_queue[j]
    BY <1>0, <1>3 DEF OneMore
  <2> QED
    BY <1>1, <2>1, QueuePast DEF PastTags, Lists
<1>5. AllPast'
  BY <1>0, <1>1, <1>4, PastSame DEF AllPast, Lists
<1>6. ASSUME NEW s \in Stations
      PROVE  ReadyCount(s)' = ReadyCount(s) /\ EventCount(s)' = EventCount(s)
  <2> DEFINE t == rs[s].tag
  <2>1. CountOf(node, s, t) = CountOf(node', s, t) + One(s = c)
    BY <1>0, <1>2, HeadCounts
  <2>2. CountOf(ready_queue', s, t) = CountOf(ready_queue, s, t) + One(e.rs = s /\ e.tag = t)
    BY <1>3 DEF OneMore
  <2>3. One(e.rs = s /\ e.tag = t) = One(s = c)
    BY <1>3 DEF One
  <2>4. /\ CountOf(node, s, t) \in Nat /\ CountOf(node', s, t) \in Nat 
        /\ CountOf(ready_queue, s, t) \in Nat /\ One(s = c) \in Nat
    BY <1>0, <1>2, HeadCounts, CountType DEF One
  <2>5. ReadyCount(s) = CountOf(ready_queue, s, t) + CountOf(node, s, t)
        /\ ReadyCount(s)' = CountOf(ready_queue', s, t) + CountOf(node', s, t)
        /\ EventCount(s)' = EventCount(s)
    BY <1>0 DEF ReadyCount, EventCount
  <2> QED
    BY <2>1, <2>2, <2>3, <2>4, <2>5
<1> QED
  BY <1>0, <1>5, <1>6, QuietLists

\* The end of a cycle keeps the ready lists, the event queue and the links in agreement
\* with the stations.
LEMMA NextCycleLists ==
  ASSUME TypeOK, Lists, NextCycle
  PROVE  Lists'
<1>0. /\ rs' = rs /\ WindowKept /\ node' = node /\ ready_queue' = ready_queue
      /\ event_queue' = [i \in DOMAIN event_queue |-> [event_queue[i] EXCEPT !.when = @ - 1]]
  BY DEF NextCycle, WindowKept, windowVars
<1>1. TagsGrow
  BY <1>0, RsKept, KeptGrow DEF WindowKept
<1>2. event_queue \in Seq(EventLinks)
  BY QueuesTyped
<1>3. \A i \in DOMAIN event_queue : event_queue[i] \in EventLinks
  BY <1>2
<1>4. /\ DOMAIN event_queue' = DOMAIN event_queue
      /\ \A i \in DOMAIN event_queue : /\ event_queue'[i].rs = event_queue[i].rs
                                       /\ event_queue'[i].tag = event_queue[i].tag
  BY <1>0, <1>3 DEF EventLinks
<1>5. PastTags(event_queue)'
  <2>1. \A i \in DOMAIN event_queue : event_queue[i].tag <= rs[event_queue[i].rs].tag
    BY DEF Lists, AllPast, PastTags
  <2> QED
    BY <1>0, <1>4, <2>1 DEF PastTags
<1>6. AllPast'
  BY <1>0, <1>1, <1>5, PastSame DEF AllPast, Lists
<1>7. ASSUME NEW s \in Stations
      PROVE  ReadyCount(s)' = ReadyCount(s) /\ EventCount(s)' = EventCount(s)
  <2>1. Places(event_queue', s, rs[s].tag) = Places(event_queue, s, rs[s].tag)
    BY <1>4 DEF Places
  <2> QED
    BY <1>0, <2>1 DEF ReadyCount, EventCount, CountOf
<1> QED
  BY <1>0, <1>6, <1>7, QuietLists

-----------------------------------------------------------------------------
\* The station whose event occurs is under way.
LEMMA EventIs ==
  ASSUME TypeOK, Counted, NEW b \in Stations, Completes(b)
  PROVE  /\ InWindow(b) /\ rs[b].issued /\ ~ rs[b].completed
         /\ event_queue # <<>> /\ event_queue' = Tail(event_queue)
         /\ \A s \in Stations : /\ CountOf(event_queue', s, rs[s].tag) \in Nat
                                /\ EventCount(s) = CountOf(event_queue', s, rs[s].tag) + One(s = b)
<1>0. /\ event_queue # <<>> /\ event_queue' = Tail(event_queue)
      /\ Head(event_queue).tag = rs[Head(event_queue).rs].tag /\ b = Head(event_queue).rs
  BY DEF Completes, EventDue, RSLINK_VALID
<1>1. event_queue \in Seq(EventLinks)
  BY QueuesTyped
<1>2. \A s \in Stations : /\ CountOf(event_queue', s, rs[s].tag) \in Nat
                          /\ EventCount(s) = CountOf(event_queue', s, rs[s].tag) + One(s = b)
  BY <1>0, <1>1, HeadCounts DEF EventCount
<1>3. EventCount(b) # 0
  BY <1>2 DEF One
<1>4. EventCount(b) = One(InWindow(b) /\ UnderWay(b))
  BY CountedIs
<1>5. InWindow(b) /\ UnderWay(b)
  BY <1>3, <1>4 DEF One
<1> QED
  BY <1>0, <1>2, <1>5 DEF UnderWay

\* ruu_writeback of an instruction keeps the ready lists, the event queue and the links
\* in agreement with the stations.
LEMMA WritebackLists ==
  ASSUME TypeOK, Lists, NEW b \in Stations, Writeback(b)
  PROVE  Lists'
<1>0. WindowKept /\ node' = node /\ ready_queue' = ready_queue /\ Completes(b)
  BY DEF Writeback, WindowKept, windowVars
<1>1. /\ RsTyped /\ TextKept /\ TagsKept /\ ChainsKept
      /\ \A s \in Stations : /\ rs'[s].queued = rs[s].queued /\ rs'[s].issued = rs[s].issued
                             /\ (rs'[s].completed <=> rs[s].completed \/ s = b)
  BY WritebackEffect
<1>2. /\ InWindow(b) /\ rs[b].issued /\ ~ rs[b].completed
      /\ event_queue # <<>> /\ event_queue' = Tail(event_queue)
      /\ \A s \in Stations : /\ CountOf(event_queue', s, rs[s].tag) \in Nat
                             /\ EventCount(s) = CountOf(event_queue', s, rs[s].tag) + One(s = b)
  BY <1>0, EventIs DEF Lists
<1>3. TagsGrow
  BY <1>1, KeptGrow
<1>4. AllPast'
  BY <1>0, <1>2, <1>3, PastSame DEF AllPast, Lists
<1>5. \A s \in Stations : (IsLoad(rs[s].op))' = IsLoad(rs[s].op) /\ OPERANDS_READY(s)' = OPERANDS_READY(s)
  BY <1>1 DEF TextKept, SameText, ChainsKept, SameChains, IsLoad, OPERANDS_READY
<1>6. Flagged'
  BY <1>0, <1>1, <1>2, <1>5, WindowSame DEF Flagged, Lists
<1>7. \A s \in Stations : rs'[s].tag = rs[s].tag
  BY <1>1 DEF TagsKept
<1>8. ASSUME NEW s \in Stations
      PROVE  /\ ReadyCount(s)' = One(InWindow(s) /\ rs'[s].queued)
             /\ EventCount(s)' = One(InWindow(s) /\ UnderWay(s)')
  <2>1. ReadyCount(s)' = ReadyCount(s) /\ EventCount(s)' = CountOf(event_queue', s, rs[s].tag)
    BY <1>0, <1>7 DEF ReadyCount, EventCount
  <2>2. ReadyCount(s) = One(InWindow(s) /\ rs[s].queued) /\ EventCount(s) = One(InWindow(s) /\ UnderWay(s))
    BY CountedIs DEF Lists
  <2>3. EventCount(s) = EventCount(s)' + One(s = b) /\ EventCount(s)' \in Nat
    BY <1>2, <2>1
  <2>4. CASE s = b
    <3>1. UnderWay(s) /\ ~ UnderWay(s)' /\ InWindow(s)
      BY <1>1, <1>2, <2>4 DEF UnderWay
    <3> QED
      BY <1>1, <2>1, <2>2, <2>3, <2>4, <3>1 DEF One
  <2>5. CASE s # b
    <3>1. UnderWay(s)' <=> UnderWay(s)
      BY <1>1, <2>5 DEF UnderWay
    <3> QED
      BY <1>1, <2>1, <2>2, <2>3, <2>5, <3>1 DEF One
  <2> QED
    BY <2>4, <2>5
<1>9. \A p \in 0 .. LSQ_num - 1 : OnItsWay(p)' => OnItsWay(p)
  <2>1. \A p \in 0 .. LSQ_num - 1 : LsqAt(p) \in Stations /\ LsqAt(p)' = LsqAt(p)
    BY <1>0, WindowSame, RingsAreTyped, InFlightIs
  <2> QED
    BY <1>1, <1>5, <2>1 DEF OnItsWay
<1> QED
  BY <1>0, <1>1, <1>4, <1>6, <1>8, <1>9, StateLists

-----------------------------------------------------------------------------
\* The instruction that ruu_issue looks at is queued.
LEMMA CandidateIs ==
  ASSUME TypeOK, Lists, node # <<>>, RSLINK_VALID(Head(node)), node' = Tail(node)
  PROVE  /\ Candidate \in Stations /\ InWindow(Candidate) /\ rs[Candidate].queued
         /\ ~ rs[Candidate].issued /\ ~ rs[Candidate].completed /\ OPERANDS_READY(Candidate)
         /\ \A s \in Stations :
              /\ CountOf(node', s, rs[s].tag) \in Nat /\ CountOf(ready_queue, s, rs[s].tag) \in Nat
              /\ ReadyCount(s) = CountOf(ready_queue, s, rs[s].tag) + CountOf(node', s, rs[s].tag)
                                   + One(s = Candidate)
<1> DEFINE c == Candidate
<1>0. c \in Stations /\ c = Head(node).rs /\ Head(node).tag = rs[Head(node).rs].tag
  BY HeadOfNode DEF Candidate, RSLINK_VALID
<1>1. node \in Seq(ReadyLinks) /\ ready_queue \in Seq(ReadyLinks)
  BY QueuesTyped
<1> HIDE DEF c
<1>2. \A s \in Stations :
              /\ CountOf(node', s, rs[s].tag) \in Nat
              /\ CountOf(node, s, rs[s].tag) = CountOf(node', s, rs[s].tag) + One(s = c)
  BY <1>0, <1>1, HeadCounts
<1>3. \A s \in Stations : CountOf(ready_queue, s, rs[s].tag) \in Nat /\ One(s = c) \in Nat
  BY <1>1, CountType DEF One
<1>4. \A s \in Stations : ReadyCount(s) = CountOf(ready_queue, s, rs[s].tag) + CountOf(node', s, rs[s].tag)
                                   + One(s = c)
  BY <1>2, <1>3 DEF ReadyCount
<1>5. ReadyCount(c) # 0
  BY <1>0, <1>2, <1>3, <1>4 DEF One
<1>6. ReadyCount(c) = One(InWindow(c) /\ rs[c].queued)
  BY <1>0, CountedIs DEF Lists
<1>7. InWindow(c) /\ rs[c].queued
  BY <1>5, <1>6 DEF One
<1>8. ~ rs[c].issued /\ ~ rs[c].completed /\ OPERANDS_READY(c)
  BY <1>0, <1>7 DEF Lists, Flagged
<1> QED
  BY <1>0, <1>2, <1>3, <1>4, <1>7, <1>8 DEF c

\* An instruction that starts moves from the ready list to the event queue.
LEMMA IssueLists ==
  ASSUME TypeOK, Lists, node # <<>>, RSLINK_VALID(Head(node)), node' = Tail(node), WindowKept,
         ready_queue' = ready_queue, NEW done \in BOOLEAN,
         rs' = IF done THEN [rs EXCEPT ![Candidate].queued = FALSE, ![Candidate].issued = TRUE, ![Candidate].completed = TRUE]
                       ELSE [rs EXCEPT ![Candidate].queued = FALSE, ![Candidate].issued = TRUE],
         done => event_queue' = event_queue,
         ~ done => \E lat \in Int : event_queue' = eventq_queue_event(Candidate, lat)
  PROVE  Lists'
<1> DEFINE c == Candidate
<1>1. /\ c \in Stations /\ InWindow(c) /\ rs[c].queued
      /\ ~ rs[c].issued /\ ~ rs[c].completed /\ OPERANDS_READY(c)
      /\ \A s \in Stations :
           /\ CountOf(node', s, rs[s].tag) \in Nat /\ CountOf(ready_queue, s, rs[s].tag) \in Nat
           /\ ReadyCount(s) = CountOf(ready_queue, s, rs[s].tag) + CountOf(node', s, rs[s].tag) + One(s = c)
  BY CandidateIs
<1>2. /\ RsTyped /\ TextKept /\ TagsKept /\ ChainsKept
      /\ \A s \in Stations :
           /\ (rs'[s].queued <=> rs[s].queued /\ s # c) /\ (rs'[s].issued <=> rs[s].issued \/ s = c)
           /\ (rs'[s].completed <=> rs[s].completed \/ (done /\ s = c))
  BY <1>1, IssueEffect DEF WindowKept
<1> HIDE DEF c
<1>3. TagsGrow
  BY <1>2, KeptGrow
<1>4. event_queue \in Seq(EventLinks) /\ \A s \in Stations : rs[s].tag \in Nat
  BY QueuesTyped
<1>5. /\ \A s \in Stations : CountOf(event_queue', s, rs[s].tag) = EventCount(s) + One(~ done /\ s = c)
      /\ PastTags(event_queue)'
  <2>1. CASE done
    <3>1. event_queue' = event_queue /\ \A s \in Stations : EventCount(s) \in Nat /\ One(~ done /\ s = c) = 0
      BY <1>4, <2>1, CountType DEF EventCount, One
    <3>2. PastTags(event_queue)'
      BY <1>3, <3>1, PastSame DEF Lists
    <3> QED
      BY <3>1, <3>2 DEF EventCount
  <2>2. CASE ~ done
    <3>1. PICK lat \in Int : event_queue' = eventq_queue_event(c, lat)
      BY <2>2 DEF c
    <3>2. PICK e \in EventLinks : /\ e.rs = c /\ e.tag = rs[c].tag
                                  /\ OneMore(EventLinks, event_queue, event_queue', e)
      BY <1>1, <1>4, <3>1, EventQueued
    <3>3. PastTags(event_queue)'
      <4>1. \A i \in DOMAIN event_queue' : \/ event_queue'[i].rs \in Stations 
                                              /\ event_queue'[i].tag = rs[event_queue'[i].rs].tag
                                           \/ \E j \in DOMAIN event_queue : event_queue'[i] = event_queue[j]
        BY <1>1, <3>2 DEF OneMore
      <4> QED
        BY <1>3, <4>1, QueuePast DEF PastTags, Lists
    <3>4. ASSUME NEW s \in Stations
          PROVE  CountOf(event_queue', s, rs[s].tag) = EventCount(s) + One(~ done /\ s = c)
      <4>1. One(e.rs = s /\ e.tag = rs[s].tag) = One(~ done /\ s = c)
        BY <2>2, <3>2 DEF One
      <4> QED
        BY <3>2, <4>1 DEF OneMore, EventCount
    <3> QED
      BY <3>3, <3>4
  <2> QED
    BY <2>1, <2>2
<1>6. AllPast'
  BY <1>3, <1>5, PastSame DEF AllPast, Lists
<1>7. \A s \in Stations : (IsLoad(rs[s].op))' = IsLoad(rs[s].op) /\ OPERANDS_READY(s)' = OPERANDS_READY(s)
  BY <1>2 DEF TextKept, SameText, ChainsKept, SameChains, IsLoad, OPERANDS_READY
<1>8. Flagged'
  BY <1>1, <1>2, <1>7, WindowSame DEF Flagged, Lists
<1>9. \A s \in Stations : rs'[s].tag = rs[s].tag
  BY <1>2 DEF TagsKept
<1>10. ASSUME NEW s \in Stations
       PROVE  /\ ReadyCount(s)' = One(InWindow(s) /\ rs'[s].queued)
              /\ EventCount(s)' = One(InWindow(s) /\ UnderWay(s)')
  <2>1. /\ ReadyCount(s)' = CountOf(ready_queue, s, rs[s].tag) + CountOf(node', s, rs[s].tag)
        /\ EventCount(s)' = EventCount(s) + One(~ done /\ s = c)
    BY <1>5, <1>9 DEF ReadyCount, EventCount
  <2>2. ReadyCount(s) = One(InWindow(s) /\ rs[s].queued) /\ EventCount(s) = One(InWindow(s) /\ UnderWay(s))
    BY CountedIs DEF Lists
  <2>3. ReadyCount(s) = ReadyCount(s)' + One(s = c) /\ ReadyCount(s)' \in Nat
    BY <1>1, <2>1 DEF One
  <2>4. CASE s = c
    <3>1. ~ UnderWay(s) /\ (UnderWay(s)' <=> ~ done) /\ InWindow(s) /\ rs[s].queued /\ ~ rs'[s].queued
      BY <1>1, <1>2, <2>4 DEF UnderWay
    <3> QED
      BY <2>1, <2>2, <2>3, <2>4, <3>1 DEF One
  <2>5. CASE s # c
    <3>1. (UnderWay(s)' <=> UnderWay(s)) /\ (rs'[s].queued <=> rs[s].queued)
      BY <1>2, <2>5 DEF UnderWay
    <3> QED
      BY <2>1, <2>2, <2>3, <2>5, <3>1 DEF One
  <2> QED
    BY <2>4, <2>5
<1>11. \A p \in 0 .. LSQ_num - 1 : OnItsWay(p)' => OnItsWay(p)
  <2>1. \A p \in 0 .. LSQ_num - 1 : LsqAt(p) \in Stations /\ LsqAt(p)' = LsqAt(p)
    BY WindowSame, RingsAreTyped, InFlightIs
  <2> QED
    BY <1>1, <1>2, <1>7, <2>1 DEF OnItsWay
<1> QED
  BY <1>2, <1>6, <1>8, <1>10, <1>11, StateLists

-----------------------------------------------------------------------------
\* lsq_refresh puts every load that is ready on the list once.

\* The list of the ready loads has one link to each, in the order of their places.
LEMMA LoadsListed ==
  ASSUME TypeOK, NEW f \in [1 .. Cardinality(ReadyLoads) -> ReadyLoads],
         \A i, j \in DOMAIN f : i < j => f[i] > f[j],
         NEW L, L = [i \in DOMAIN f |-> [rs |-> LsqAt(f[i]), tag |-> rs[LsqAt(f[i])].tag, seq |-> rs[LsqAt(f[i])].seq]]
  PROVE  /\ L \in Seq(ReadyLinks) /\ Len(L) = Cardinality(ReadyLoads)
         /\ \A i \in DOMAIN L : L[i].rs \in Stations /\ L[i].tag = rs[L[i].rs].tag
         /\ \A s \in Stations : CountOf(L, s, rs[s].tag) = One(\E p \in ReadyLoads : s = LsqAt(p))
<1> DEFINE m == Cardinality(ReadyLoads)
<1>0. RingsTyped /\ LSQ_num \in Nat
  BY RingsAreTyped, SizeType DEF RingsTyped
<1>1. ReadyLoads \subseteq 0 .. LSQ_num - 1
  BY DEF ReadyLoads
<1>2. IsFiniteSet(ReadyLoads) /\ m \in Nat
  <2>1. IsFiniteSet(0 .. LSQ_num - 1)
    BY <1>0, FS_Interval
  <2> QED
    BY <1>1, <2>1, FS_Subset, FS_CardinalityType
<1> HIDE DEF m
<1>3. DOMAIN f = 1 .. m /\ f \in [1 .. m -> ReadyLoads]
  BY DEF m
<1>4. \A i, j \in 1 .. m : f[i] = f[j] => i = j
  <2> SUFFICES ASSUME NEW i \in 1 .. m, NEW j \in 1 .. m, f[i] = f[j], i # j
               PROVE  FALSE
    OBVIOUS
  <2>1. i < j \/ j < i
    BY <1>2
  <2>2. f[i] > f[j] \/ f[j] > f[i]
    BY <1>3, <2>1
  <2>a. \A p \in ReadyLoads : p \in Int
    BY <1>1
  <2>3. f[i] \in Int /\ f[j] \in Int
    BY <2>a, <1>3
  <2> QED
    BY <2>2, <2>3
<1>5. \A p \in ReadyLoads : \E i \in 1 .. m : f[i] = p
  <2>1. f \in Injection(1 .. m, ReadyLoads)
    BY <1>3, <1>4, Fun_IsInj
  <2>2. Cardinality(1 .. m) = m
    BY <1>2, FS_Interval
  <2>3. f \in Surjection(1 .. m, ReadyLoads)
    BY <1>2, <2>1, <2>2, FS_Injection DEF m
  <2> QED
    BY <2>3 DEF Surjection
<1>6. \A i \in 1 .. m : f[i] \in ReadyLoads /\ LsqAt(f[i]) \in Stations
  BY <1>0, <1>1, <1>3, InFlightIs
<1>7. DOMAIN L = 1 .. m /\ L \in [1 .. m -> ReadyLinks]
  <2>1. \A i \in 1 .. m : rs[LsqAt(f[i])].tag \in Nat /\ rs[LsqAt(f[i])].seq \in Nat
    BY <1>6, QueuesTyped
  <2> QED
    BY <1>3, <1>6, <2>1 DEF ReadyLinks
<1>8. L \in Seq(ReadyLinks)
  <2>1. L \in [1 .. m -> ReadyLinks] /\ m \in Nat
    BY <1>2, <1>7
  <2> QED
    BY ONLY <2>1, SeqDef
<1>9. \A i \in 1 .. m : L[i].rs = LsqAt(f[i]) /\ L[i].tag = rs[LsqAt(f[i])].tag
  BY <1>3
<1>10. ASSUME NEW s \in Stations
       PROVE  CountOf(L, s, rs[s].tag) = One(\E p \in ReadyLoads : s = LsqAt(p))
  <2>0. \A i : i \in Places(L, s, rs[s].tag) <=> i \in 1 .. m /\ LsqAt(f[i]) = s
    BY <1>7, <1>9 DEF Places
  <2>1. CASE \E p \in ReadyLoads : s = LsqAt(p)
    <3>1. PICK p \in ReadyLoads : s = LsqAt(p)
      BY <2>1
    <3>2. PICK i \in 1 .. m : f[i] = p
      BY <1>5
    <3>3. ASSUME NEW j \in 1 .. m, LsqAt(f[j]) = s
          PROVE  j = i
      <4>1. f[j] \in 0 .. LSQ_size - 1 /\ p \in 0 .. LSQ_size - 1
        BY <1>0, <1>1, <1>6, InFlightIs
      <4>2. Pos(LsqAt(f[j])) = f[j] /\ Pos(LsqAt(p)) = p
        BY <1>0, <4>1, Slots
      <4>3. f[j] = p
        BY <3>1, <3>3, <4>2
      <4> QED
        BY <1>4, <3>2, <4>3
    <3>4. Places(L, s, rs[s].tag) = {i}
      BY <2>0, <3>1, <3>2, <3>3
    <3> QED
      BY <2>1, <3>4, FS_Singleton DEF CountOf, One
  <2>2. CASE ~ \E p \in ReadyLoads : s = LsqAt(p)
    <3>1. Places(L, s, rs[s].tag) = {}
      BY <1>6, <2>0, <2>2
    <3> QED
      BY <2>2, <3>1, FS_EmptySet DEF CountOf, One
  <2> QED
    BY <2>1, <2>2
<1>11. \A i \in DOMAIN L : L[i].rs \in Stations /\ L[i].tag = rs[L[i].rs].tag
  BY <1>6, <1>7, <1>9
<1>12. Len(L) = Cardinality(ReadyLoads)
  BY <1>2, <1>7, <1>8 DEF m
<1> QED
  BY <1>8, <1>10, <1>11, <1>12

\* lsq_refresh puts the ready loads in front of the candidates of this cycle.
LEMMA RefreshQueues ==
  ASSUME TypeOK, Refresh
  PROVE  \E L \in Seq(ReadyLinks) :
           /\ node' = L \o ready_queue /\ ready_queue' = <<>> /\ Len(L) = Cardinality(ReadyLoads)
           /\ \A i \in DOMAIN L : L[i].rs \in Stations /\ L[i].tag = rs[L[i].rs].tag
           /\ \A s \in Stations : CountOf(L, s, rs[s].tag) = One(\E p \in ReadyLoads : s = LsqAt(p))
<1>1. PICK f \in [1 .. Cardinality(ReadyLoads) -> ReadyLoads] :
        /\ \A i, j \in DOMAIN f : i < j => f[i] > f[j]
        /\ node' = [i \in DOMAIN f |-> [rs |-> LsqAt(f[i]), tag |-> rs[LsqAt(f[i])].tag, seq |-> rs[LsqAt(f[i])].seq]]
                     \o ready_queue
        /\ ready_queue' = <<>>
  BY DEF Refresh, ReadyLoads
<1> QED
  BY <1>1, LoadsListed

\* lsq_refresh keeps the ready lists, the event queue and the links in agreement with
\* the stations.
LEMMA RefreshLists ==
  ASSUME TypeOK, Lists, node = <<>>, Refresh
  PROVE  Lists'
<1>0. WindowKept /\ event_queue' = event_queue
  BY DEF Refresh, WindowKept, windowVars
<1>1. /\ RsTyped /\ TextKept /\ TagsKept /\ ChainsKept
      /\ \A s \in Stations :
           /\ (rs'[s].queued <=> rs[s].queued \/ \E p \in ReadyLoads : s = LsqAt(p))
           /\ rs'[s].issued = rs[s].issued /\ rs'[s].completed = rs[s].completed
  BY RefreshEffect
<1>2. PICK L \in Seq(ReadyLinks) :
           /\ node' = L \o ready_queue /\ ready_queue' = <<>>
           /\ \A i \in DOMAIN L : L[i].rs \in Stations /\ L[i].tag = rs[L[i].rs].tag
           /\ \A s \in Stations : CountOf(L, s, rs[s].tag) = One(\E p \in ReadyLoads : s = LsqAt(p))
  BY RefreshQueues
<1>3. TagsGrow
  BY <1>1, KeptGrow
<1>4. ready_queue \in Seq(ReadyLinks)
  BY QueuesTyped
<1>5. PastTags(node)'
  <2>1. /\ DOMAIN node' = 1 .. Len(L) + Len(ready_queue)
        /\ \A i \in 1 .. Len(L) + Len(ready_queue) :
             node'[i] = IF i <= Len(L) THEN L[i] ELSE ready_queue[i - Len(L)]
        /\ Len(L) \in Nat /\ Len(ready_queue) \in Nat /\ DOMAIN L = 1 .. Len(L)
        /\ DOMAIN ready_queue = 1 .. Len(ready_queue)
    <3>1. L \o ready_queue \in Seq(ReadyLinks) /\ Len(L \o ready_queue) = Len(L) + Len(ready_queue)
      BY <1>4, ConcatProperties
    <3> QED
      BY <1>2, <1>4, <3>1, ConcatProperties, LenProperties
  <2>2. ASSUME NEW i \in DOMAIN node'
        PROVE  \/ node'[i].rs \in Stations /\ node'[i].tag = rs[node'[i].rs].tag
               \/ \E j \in DOMAIN ready_queue : node'[i] = ready_queue[j]
    <3>1. CASE i <= Len(L)
      <4>1. i \in DOMAIN L /\ node'[i] = L[i]
        BY <2>1, <3>1
      <4> QED
        BY <1>2, <4>1
    <3>2. CASE ~ (i <= Len(L))
      <4>1. i - Len(L) \in DOMAIN ready_queue /\ node'[i] = ready_queue[i - Len(L)]
        BY <2>1, <3>2
      <4> QED
        BY <4>1
    <3> QED
      BY <3>1, <3>2
  <2> QED
    BY <1>3, <2>2, QueuePast DEF PastTags, Lists
<1>6. AllPast'
  BY <1>0, <1>2, <1>3, <1>5, PastSame DEF AllPast, Lists
<1>7. \A s \in Stations : (IsLoad(rs[s].op))' = IsLoad(rs[s].op) /\ OPERANDS_READY(s)' = OPERANDS_READY(s)
  BY <1>1 DEF TextKept, SameText, ChainsKept, SameChains, IsLoad, OPERANDS_READY
<1>8. \A p \in ReadyLoads : /\ p \in 0 .. LSQ_num - 1 /\ LoadReady(p)
                            /\ ~ rs[LsqAt(p)].queued /\ ~ rs[LsqAt(p)].issued /\ ~ rs[LsqAt(p)].completed
                            /\ OPERANDS_READY(LsqAt(p))
                            /\ LsqAt(p) \in Stations /\ InWindow(LsqAt(p)) /\ Pos(LsqAt(p)) = p
  BY RingsAreTyped, InFlightIs, Slots DEF ReadyLoads, LoadReady
<1>9. Flagged'
  BY <1>0, <1>1, <1>7, <1>8, WindowSame DEF Flagged, Lists
<1>10. \A s \in Stations : rs'[s].tag = rs[s].tag
  BY <1>1 DEF TagsKept
<1>11. ASSUME NEW s \in Stations
       PROVE  /\ ReadyCount(s)' = One(InWindow(s) /\ rs'[s].queued)
              /\ EventCount(s)' = One(InWindow(s) /\ UnderWay(s)')
  <2> DEFINE t == rs[s].tag
  <2>1. /\ ReadyCount(s)' = CountOf(ready_queue', s, t) + CountOf(node', s, t)
        /\ EventCount(s)' = EventCount(s) /\ ReadyCount(s) = CountOf(ready_queue, s, t) + CountOf(node, s, t)
    BY <1>0, <1>10 DEF ReadyCount, EventCount
  <2>2. ReadyCount(s) = One(InWindow(s) /\ rs[s].queued) /\ EventCount(s) = One(InWindow(s) /\ UnderWay(s))
    BY CountedIs DEF Lists
  <2>3. CountOf(ready_queue', s, t) = 0 /\ CountOf(node, s, t) = 0
    <3>1. <<>> \in Seq(ReadyLinks) /\ DOMAIN (<<>>) = {}
      OBVIOUS
    <3>2. CountOf(<<>>, s, t) = 0
      BY <3>1, CountSome
    <3> QED
      BY <1>2, <3>2
  <2>4. CountOf(node', s, t) = CountOf(L, s, t) + CountOf(ready_queue, s, t)
    BY <1>2, <1>4, CountConcat
  <2>5. CountOf(ready_queue, s, t) \in Nat /\ CountOf(L, s, t) \in Nat
    BY <1>4, CountType
  <2>6. CountOf(L, s, t) = One(\E p \in ReadyLoads : s = LsqAt(p))
    BY <1>2
  <2> DEFINE g == One(\E p \in ReadyLoads : s = LsqAt(p))
  <2> HIDE DEF t, g
  <2>a. CountOf(L, s, t) = g
    BY <2>6 DEF g
  <2>b. ReadyCount(s)' = ReadyCount(s) + g
    BY <2>1, <2>3, <2>4, <2>5, <2>a
  <2>7. ReadyCount(s)' = ReadyCount(s) + One(\E p \in ReadyLoads : s = LsqAt(p))
    BY <2>b DEF g
  <2>8. CASE \E p \in ReadyLoads : s = LsqAt(p)
    <3>1. InWindow(s) /\ ~ rs[s].queued /\ rs'[s].queued
      BY <1>1, <1>8, <2>8
    <3>2. (UnderWay(s)' <=> UnderWay(s))
      BY <1>1 DEF UnderWay
    <3> QED
      BY <2>1, <2>2, <2>7, <2>8, <3>1, <3>2 DEF One
  <2>9. CASE ~ \E p \in ReadyLoads : s = LsqAt(p)
    <3>1. (UnderWay(s)' <=> UnderWay(s)) /\ (rs'[s].queued <=> rs[s].queued)
      BY <1>1, <2>9 DEF UnderWay
    <3> QED
      BY <2>1, <2>2, <2>7, <2>9, <3>1 DEF One
  <2> QED
    BY <2>8, <2>9
<1>12. \A p \in 0 .. LSQ_num - 1 : OnItsWay(p)' => OnItsWay(p) \/ LoadClear(p)
  <2>1. \A p \in 0 .. LSQ_num - 1 : LsqAt(p) \in Stations /\ LsqAt(p)' = LsqAt(p) /\ Pos(LsqAt(p)) = p
    BY <1>0, WindowSame, RingsAreTyped, InFlightIs, Slots
  <2>2. \A p \in ReadyLoads : LoadClear(p)
    BY <1>8, LoadReadyClear, RingsAreTyped
  <2> SUFFICES ASSUME NEW p \in 0 .. LSQ_num - 1, OnItsWay(p)', ~ OnItsWay(p)
               PROVE  LoadClear(p)
    OBVIOUS
  <2>3. PICK q \in ReadyLoads : LsqAt(p) = LsqAt(q)
    BY <1>1, <1>7, <2>1 DEF OnItsWay
  <2>4. p = q
    BY <1>8, <2>1, <2>3
  <2> QED
    BY <2>2, <2>4
<1> QED
  BY <1>0, <1>1, <1>6, <1>9, <1>11, <1>12, StateLists

-----------------------------------------------------------------------------
\* Chains from which links are taken, and stations that are squashed or retired.

\* A step whose chains lose their heads, or all, keeps the links sound.
LEMMA ChainsCut ==
  ASSUME TypeOK, RsTyped, LinkInv(rs, InFlight), NEW off \in [Stations \X (1 .. 2) -> {0, 1}],
         \A s \in Stations, i \in 1 .. 2 : \A j \in DOMAIN rs'[s].odep_list[i] :
           /\ j + off[<<s, i>>] \in DOMAIN rs[s].odep_list[i]
           /\ LinkAt(rs', s, i, j) = LinkAt(rs, s, i, j + off[<<s, i>>]),
         \A s \in Stations : rs'[s].tag \in {rs[s].tag, rs[s].tag + 1},
         \A s \in Stations, i \in 1 .. 2, j \in Nat :
           LET m == j + off[<<s, i>>]
               l == LinkAt(rs, s, i, m)
           IN  /\ j \in DOMAIN rs'[s].odep_list[i] /\ Waits(rs, s, i, m)
               /\ l.rs \in InFlight /\ ~ rs[l.rs].idep_ready[l.opnum]
               /\ rs'[l.rs].tag = rs[l.rs].tag
               => l.rs \in InFlight' /\ ~ rs'[l.rs].idep_ready[l.opnum]
  PROVE  LinkInv(rs, InFlight)'
<1>0. rs \in [Stations -> Station] /\ rs' \in [Stations -> Station] /\ Stations' = Stations
      /\ \A s \in Stations : rs[s].tag \in Nat
  BY QueuesTyped DEF RsTyped
<1>1. ASSUME NEW s \in Stations, NEW i \in 1 .. 2, NEW j \in DOMAIN rs'[s].odep_list[i]
      PROVE  LET m == j + off[<<s, i>>]
                 l == LinkAt(rs, s, i, m)
             IN  /\ m \in Nat /\ m \in DOMAIN rs[s].odep_list[i] /\ l.rs \in Stations /\ l.tag \in Nat
                 /\ l.tag <= rs[l.rs].tag /\ LinkAt(rs', s, i, j) = l
                 /\ rs[l.rs].tag \in Nat /\ rs'[l.rs].tag \in {rs[l.rs].tag, rs[l.rs].tag + 1}
  <2> DEFINE m == j + off[<<s, i>>]
             l == LinkAt(rs, s, i, m)
  <2>1. m \in DOMAIN rs[s].odep_list[i] /\ LinkAt(rs', s, i, j) = l
    OBVIOUS
  <2> HIDE DEF m
  <2>2. m \in Nat /\ l.rs \in Stations /\ l.tag \in Nat
    BY <1>0, <2>1, LinkTyped
  <2>3. l.tag <= rs[l.rs].tag
    BY <2>1 DEF LinkInv, PastChains
  <2>4. rs[l.rs].tag \in Nat /\ rs'[l.rs].tag \in {rs[l.rs].tag, rs[l.rs].tag + 1}
    BY <1>0, <2>2
  <2> HIDE DEF l
  <2>5. /\ m \in Nat /\ m \in DOMAIN rs[s].odep_list[i] /\ l.rs \in Stations /\ l.tag \in Nat
        /\ l.tag <= rs[l.rs].tag /\ LinkAt(rs', s, i, j) = l
        /\ rs[l.rs].tag \in Nat /\ rs'[l.rs].tag \in {rs[l.rs].tag, rs[l.rs].tag + 1}
    BY <2>1, <2>2, <2>3, <2>4
  <2> QED
    BY <2>5 DEF l, m
<1>2. ASSUME NEW s \in Stations, NEW i \in 1 .. 2, NEW j \in Nat, Waits(rs', s, i, j)
      PROVE  LET m == j + off[<<s, i>>]
                 l == LinkAt(rs, s, i, m)
             IN  /\ j \in DOMAIN rs'[s].odep_list[i]
                 /\ m \in Nat /\ Waits(rs, s, i, m) /\ LinkAt(rs', s, i, j) = l
                 /\ rs'[l.rs].tag = rs[l.rs].tag
  <2> DEFINE m == j + off[<<s, i>>]
             l == LinkAt(rs, s, i, m)
  <2>0. Waits(rs', s, i, j)
    BY <1>2
  <2>1. j \in DOMAIN rs'[s].odep_list[i] /\ LinkAt(rs', s, i, j).tag = rs'[LinkAt(rs', s, i, j).rs].tag
    BY ONLY <2>0 DEF Waits
  <2>2. /\ m \in Nat /\ m \in DOMAIN rs[s].odep_list[i] /\ l.rs \in Stations /\ l.tag \in Nat
        /\ l.tag <= rs[l.rs].tag /\ LinkAt(rs', s, i, j) = l
        /\ rs[l.rs].tag \in Nat /\ rs'[l.rs].tag \in {rs[l.rs].tag, rs[l.rs].tag + 1}
    BY <1>1, <2>1
  <2>a. m \in DOMAIN rs[s].odep_list[i] /\ l = LinkAt(rs, s, i, m)
    BY <2>2
  <2> HIDE DEF m, l
  <2>3. l.tag = rs'[l.rs].tag
    BY <2>1, <2>2
  <2>4. rs'[l.rs].tag = rs[l.rs].tag /\ l.tag = rs[l.rs].tag
    <3>1. /\ rs[l.rs].tag \in Nat /\ rs'[l.rs].tag \in {rs[l.rs].tag, rs[l.rs].tag + 1}
          /\ l.tag <= rs[l.rs].tag
      BY ONLY <2>2
    <3>2. rs'[l.rs].tag = rs[l.rs].tag
      BY ONLY <2>3, <3>1
    <3> QED
      BY ONLY <2>3, <3>2
  <2>5. Waits(rs, s, i, m)
    BY <2>a, <2>4 DEF Waits
  <2> QED
    BY <2>1, <2>2, <2>4, <2>5 DEF m, l
<1>3. SubChains(rs, rs', off)
  BY <1>2 DEF SubChains
<1>4. Alone(rs')
  <2>1. off \in [Stations \X (1 .. 2) -> Int]
    OBVIOUS
  <2> QED
    BY <1>3, <2>1, AloneSub DEF LinkInv
<1>5. Wanted(rs', InFlight')
  <2> SUFFICES ASSUME NEW s \in Stations, NEW i \in 1 .. 2, NEW j \in Nat, Waits(rs', s, i, j)
               PROVE  LET l == LinkAt(rs', s, i, j)
                      IN  l.rs \in InFlight' /\ ~ rs'[l.rs].idep_ready[l.opnum]
    BY DEF Wanted
  <2> DEFINE m == j + off[<<s, i>>]
             l == LinkAt(rs, s, i, m)
  <2>1. /\ j \in DOMAIN rs'[s].odep_list[i]
        /\ m \in Nat /\ Waits(rs, s, i, m) /\ LinkAt(rs', s, i, j) = l
        /\ rs'[l.rs].tag = rs[l.rs].tag
    BY <1>2
  <2>2. l.rs \in InFlight /\ ~ rs[l.rs].idep_ready[l.opnum]
    BY <2>1 DEF LinkInv, Wanted
  <2>3. l.rs \in InFlight' /\ ~ rs'[l.rs].idep_ready[l.opnum]
    BY <2>1, <2>2
  <2> QED
    BY <2>1, <2>3
<1>6. PastChains(rs')
  <2> SUFFICES ASSUME NEW s \in Stations, NEW i \in 1 .. 2, NEW j \in DOMAIN rs'[s].odep_list[i]
               PROVE  LinkAt(rs', s, i, j).tag <= rs'[LinkAt(rs', s, i, j).rs].tag
    BY <1>0 DEF PastChains
  <2> DEFINE m == j + off[<<s, i>>]
             l == LinkAt(rs, s, i, m)
  <2>1. /\ l.tag \in Nat /\ l.tag <= rs[l.rs].tag /\ LinkAt(rs', s, i, j) = l
        /\ rs[l.rs].tag \in Nat /\ rs'[l.rs].tag \in {rs[l.rs].tag, rs[l.rs].tag + 1}
    BY <1>1
  <2> HIDE DEF l
  <2> QED
    BY <2>1
<1> QED
  BY <1>0, <1>4, <1>5, <1>6 DEF LinkInv, Wanted, Alone, PastChains

-----------------------------------------------------------------------------
\* A result is handed to one consumer.

\* ruu_writeback queues the consumer that has all its operands.
LEMMA WakeQueue ==
  ASSUME TypeOK, Wake, wb \in Stations
  PROVE  /\ ready_queue' = IF WakeQueues THEN readyq_enqueue(ready_queue, WakeLink.rs, rs[WakeLink.rs])
                           ELSE ready_queue
         /\ free_links' = IF WakeQueues THEN free_links ELSE free_links + 1
<1> DEFINE l == WakeLink
           e == /\ RSLINK_VALID(l)
                /\ (\A k \in 1 .. 3 : [rs[l.rs].idep_ready EXCEPT ![l.opnum] = TRUE][k])
                /\ QueuedWhenReady(l.rs)
<1>1. l.rs \in Stations /\ l.opnum \in 1 .. 3
  BY WakeTyped
<1>2. rs[l.rs] \in Station /\ rs[l.rs].idep_ready \in [1 .. 3 -> BOOLEAN]
  BY <1>1 DEF TypeOK, Station
<1>3. \A k \in 1 .. 3 : [rs[l.rs].idep_ready EXCEPT ![l.opnum] = TRUE][k] <=> rs[l.rs].idep_ready[k] \/ k = l.opnum
  BY <1>1, <1>2
<1>4. e <=> WakeQueues
  BY <1>3 DEF WakeQueues, WakeReady
<1>5. /\ ready_queue' = IF e THEN readyq_enqueue(ready_queue, l.rs, rs[l.rs]) ELSE ready_queue
      /\ free_links' = IF e THEN free_links ELSE free_links + 1
  BY DEF Wake, WakeIndex, WakeLink
<1> QED
  BY <1>4, <1>5

\* The consumer that a valid link names still misses the operand.
LEMMA WakeConsumer ==
  ASSUME TypeOK, Lists, Wake, wb \in InFlight, rs[wb].completed
  PROVE  /\ wb \in Stations /\ WakeLink.rs \in Stations /\ WakeLink.opnum \in 1 .. 3
         /\ RSLINK_VALID(WakeLink) =>
              /\ WakeLink.rs \in InFlight /\ InWindow(WakeLink.rs) /\ WakeLink.rs # wb
              /\ ~ rs[WakeLink.rs].idep_ready[WakeLink.opnum]
              /\ Waits(rs, wb, WakeIndex, 1) /\ WakeLink = LinkAt(rs, wb, WakeIndex, 1)
              /\ ~ rs[WakeLink.rs].queued /\ ~ rs[WakeLink.rs].issued /\ ~ rs[WakeLink.rs].completed
<1>1. wb \in Stations
  BY InFlightIs, RingsAreTyped
<1>2. /\ WakeIndex \in 1 .. 2 /\ WakeLink \in Links_ /\ rs[wb].odep_list[WakeIndex] # <<>>
      /\ WakeLink.rs \in Stations /\ WakeLink.opnum \in 1 .. 3
      /\ WakeLink = LinkAt(rs, wb, WakeIndex, 1)
  BY <1>1, WakeTyped DEF LinkAt
<1>3. 1 \in DOMAIN rs[wb].odep_list[WakeIndex]
  <2>1. rs[wb] \in Station
    BY <1>1 DEF TypeOK
  <2>2. rs[wb].odep_list[WakeIndex] \in Seq(Links_)
    BY <1>2, <2>1, ChainOf
  <2> QED
    BY <1>2, <2>2, EmptySeq, LenProperties
<1>4. ASSUME RSLINK_VALID(WakeLink)
      PROVE  Waits(rs, wb, WakeIndex, 1) /\ WakeLink.rs \in InFlight
             /\ ~ rs[WakeLink.rs].idep_ready[WakeLink.opnum]
  <2>1. Waits(rs, wb, WakeIndex, 1)
    BY <1>2, <1>3, <1>4 DEF Waits, RSLINK_VALID
  <2>2. 1 \in Nat
    OBVIOUS
  <2> QED
    BY <1>1, <1>2, <2>1, <2>2 DEF Lists, LinkInv, Wanted
<1>5. ASSUME RSLINK_VALID(WakeLink)
      PROVE  /\ InWindow(WakeLink.rs) /\ WakeLink.rs # wb
             /\ ~ rs[WakeLink.rs].queued /\ ~ rs[WakeLink.rs].issued /\ ~ rs[WakeLink.rs].completed
  <2>1. InWindow(WakeLink.rs) /\ InWindow(wb)
    BY <1>4, <1>5 DEF InFlight
  <2>2. ~ OPERANDS_READY(WakeLink.rs)
    BY <1>2, <1>4, <1>5 DEF OPERANDS_READY
  <2>3. /\ ~ rs[WakeLink.rs].queued /\ ~ rs[WakeLink.rs].issued /\ ~ rs[WakeLink.rs].completed
    BY <1>2, <2>1, <2>2 DEF Lists, Flagged
  <2> QED
    BY <2>1, <2>3
<1> QED
  BY <1>1, <1>2, <1>4, <1>5

\* A broadcast keeps the links sound: the one it takes is the only one to its operand.
LEMMA WakeChains ==
  ASSUME TypeOK, Lists, Wake, wb \in InFlight, rs[wb].completed
  PROVE  LinkInv(rs, InFlight)'
<1> DEFINE off == [z \in Stations \X (1 .. 2) |-> IF z = <<wb, WakeIndex>> THEN 1 ELSE 0]
           x == WakeLink.rs
           k == WakeLink.opnum
<1>1. /\ wb \in Stations /\ x \in Stations /\ k \in 1 .. 3
      /\ RSLINK_VALID(WakeLink) =>
              /\ x \in InFlight /\ x # wb
              /\ ~ rs[x].idep_ready[k]
              /\ Waits(rs, wb, WakeIndex, 1) /\ WakeLink = LinkAt(rs, wb, WakeIndex, 1)
  BY WakeConsumer
<1>2. /\ RsTyped /\ TagsKept
      /\ \A s \in Stations, m \in 1 .. 3 :
           rs'[s].idep_ready[m] <=> rs[s].idep_ready[m] \/ (RSLINK_VALID(WakeLink) /\ s = x /\ m = k)
      /\ \A s \in Stations, i \in 1 .. 2 :
           rs'[s].odep_list[i] = IF s = wb /\ i = WakeIndex THEN Tail(rs[s].odep_list[i])
                                 ELSE rs[s].odep_list[i]
  BY <1>1, WakeEffect
<1>3. WakeIndex \in 1 .. 2 /\ rs[wb].odep_list[WakeIndex] # <<>>
  BY <1>1, WakeTyped
<1>4. rs \in [Stations -> Station]
  BY DEF TypeOK
<1>5. InFlight' = InFlight
  BY WindowSame DEF Wake, WindowKept, windowVars
<1>6. LinkInv(rs, InFlight)
  BY DEF Lists
<1>7. off \in [Stations \X (1 .. 2) -> {0, 1}]
  OBVIOUS
<1>a. \A s \in Stations, i \in 1 .. 2 : off[<<s, i>>] = IF s = wb /\ i = WakeIndex THEN 1 ELSE 0
  OBVIOUS
<1> HIDE DEF off, x, k
<1>8. ASSUME NEW s \in Stations, NEW i \in 1 .. 2, NEW j \in DOMAIN rs'[s].odep_list[i]
      PROVE  /\ j \in Nat /\ j >= 1
             /\ j + off[<<s, i>>] \in DOMAIN rs[s].odep_list[i]
             /\ LinkAt(rs', s, i, j) = LinkAt(rs, s, i, j + off[<<s, i>>])
  <2> DEFINE q == rs[s].odep_list[i]
  <2>1. q \in Seq(Links_)
    BY <1>4, ChainOf
  <2>2. DOMAIN q = 1 .. Len(q) /\ Len(q) \in Nat
    BY <2>1, LenProperties
  <2>3. CASE s = wb /\ i = WakeIndex
    <3>1. rs'[s].odep_list[i] = Tail(q) /\ off[<<s, i>>] = 1 /\ q # <<>>
      BY <1>2, <1>3, <1>a, <2>3
    <3>2. /\ DOMAIN Tail(q) = 1 .. Len(q) - 1 /\ \A m \in 1 .. Len(q) - 1 : Tail(q)[m] = q[m + 1]
      <4> HIDE DEF q
      <4> QED
        BY <2>1, <3>1, HeadTailProperties, LenProperties
    <3>3. j \in 1 .. Len(q) - 1
      BY <3>1, <3>2
    <3>4. j \in Nat /\ j >= 1 /\ j + 1 \in DOMAIN q /\ Tail(q)[j] = q[j + 1]
      BY <2>2, <3>2, <3>3
    <3> QED
      BY <3>1, <3>4 DEF LinkAt
  <2>4. CASE ~ (s = wb /\ i = WakeIndex)
    <3>1. rs'[s].odep_list[i] = q /\ off[<<s, i>>] = 0
      BY <1>2, <1>a, <2>4
    <3>2. j \in Nat /\ j >= 1 /\ j + 0 = j /\ j \in DOMAIN q
      BY <2>2, <3>1
    <3> QED
      BY <3>1, <3>2 DEF LinkAt
  <2> QED
    BY <2>3, <2>4
<1>9. ASSUME NEW s \in Stations, NEW i \in 1 .. 2, NEW j \in Nat, j \in DOMAIN rs'[s].odep_list[i],
             Waits(rs, s, i, j + off[<<s, i>>]),
             ~ rs[LinkAt(rs, s, i, j + off[<<s, i>>]).rs].idep_ready[LinkAt(rs, s, i, j + off[<<s, i>>]).opnum]
      PROVE  ~ rs'[LinkAt(rs, s, i, j + off[<<s, i>>]).rs].idep_ready[LinkAt(rs, s, i, j + off[<<s, i>>]).opnum]
  <2> DEFINE m == j + off[<<s, i>>]
             l == LinkAt(rs, s, i, m)
  <2>1. m \in DOMAIN rs[s].odep_list[i] /\ j >= 1 /\ Waits(rs, s, i, m) /\ ~ rs[l.rs].idep_ready[l.opnum]
    BY <1>8, <1>9
  <2> HIDE DEF m
  <2>2. m \in Nat /\ l.rs \in Stations /\ l.opnum \in 1 .. 3
    BY <1>4, <2>1, LinkTyped
  <2>3. ~ (RSLINK_VALID(WakeLink) /\ l.rs = x /\ l.opnum = k)
    <3> SUFFICES ASSUME RSLINK_VALID(WakeLink), l.rs = x, l.opnum = k
                 PROVE  FALSE
      OBVIOUS
    <3>1. Waits(rs, wb, WakeIndex, 1) /\ LinkAt(rs, wb, WakeIndex, 1).rs = l.rs
          /\ LinkAt(rs, wb, WakeIndex, 1).opnum = l.opnum
      BY <1>1 DEF x, k
    <3>2. s = wb /\ i = WakeIndex /\ m = 1
      <4>1. 1 \in Nat
        OBVIOUS
      <4>2. Alone(rs)
        BY <1>6 DEF LinkInv
      <4> QED
        BY <1>1, <1>3, <2>1, <2>2, <3>1, <4>1, <4>2 DEF Alone
    <3>3. m = j + 1
      BY <1>a, <3>2 DEF m
    <3> QED
      BY <2>1, <3>2, <3>3
  <2>4. ~ rs'[l.rs].idep_ready[l.opnum]
    BY <1>2, <2>1, <2>2, <2>3
  <2> QED
    BY <2>4 DEF m
<1>10. \A s \in Stations : rs'[s].tag \in {rs[s].tag, rs[s].tag + 1}
  BY <1>2 DEF TagsKept
<1>11. \A s \in Stations, i \in 1 .. 2 : \A j \in DOMAIN rs'[s].odep_list[i] :
         /\ j + off[<<s, i>>] \in DOMAIN rs[s].odep_list[i]
         /\ LinkAt(rs', s, i, j) = LinkAt(rs, s, i, j + off[<<s, i>>])
  BY <1>8
<1>12. \A s \in Stations, i \in 1 .. 2, j \in Nat :
           LET m == j + off[<<s, i>>]
               l == LinkAt(rs, s, i, m)
           IN  /\ j \in DOMAIN rs'[s].odep_list[i] /\ Waits(rs, s, i, m)
               /\ l.rs \in InFlight /\ ~ rs[l.rs].idep_ready[l.opnum]
               /\ rs'[l.rs].tag = rs[l.rs].tag
               => l.rs \in InFlight' /\ ~ rs'[l.rs].idep_ready[l.opnum]
  <2> TAKE s \in Stations, i \in 1 .. 2, j \in Nat
  <2> DEFINE m == j + off[<<s, i>>]
             l == LinkAt(rs, s, i, m)
  <2>1. SUFFICES ASSUME j \in DOMAIN rs'[s].odep_list[i], Waits(rs, s, i, m), l.rs \in InFlight,
                        ~ rs[l.rs].idep_ready[l.opnum]
                 PROVE  l.rs \in InFlight' /\ ~ rs'[l.rs].idep_ready[l.opnum]
    BY Zenon
  <2> QED
    BY <1>5, <1>9, <2>1
<1> QED
  BY <1>2, <1>6, <1>7, <1>11, <1>10, <1>12, ChainsCut

\* A broadcast of ruu_writeback keeps the ready lists, the event queue and the links in
\* agreement with the stations.
LEMMA WakeLists ==
  ASSUME TypeOK, Lists, Kinds, Wake, wb \in InFlight, rs[wb].completed
  PROVE  Lists'
<1> DEFINE x == WakeLink.rs
           k == WakeLink.opnum
           v == RSLINK_VALID(WakeLink)
<1>0. WindowKept /\ event_queue' = event_queue /\ node' = node
  BY DEF Wake, WindowKept, windowVars
<1>1. /\ wb \in Stations /\ x \in Stations /\ k \in 1 .. 3
      /\ v => /\ x \in InFlight /\ InWindow(x) /\ x # wb
              /\ ~ rs[x].idep_ready[k]
              /\ ~ rs[x].queued /\ ~ rs[x].issued /\ ~ rs[x].completed
  BY WakeConsumer
<1>2. /\ RsTyped /\ TextKept /\ TagsKept
      /\ \A s \in Stations :
           /\ rs'[s].issued = rs[s].issued /\ rs'[s].completed = rs[s].completed
           /\ (rs'[s].queued <=> rs[s].queued \/ (WakeQueues /\ s = x))
      /\ \A s \in Stations, m \in 1 .. 3 :
           rs'[s].idep_ready[m] <=> rs[s].idep_ready[m] \/ (v /\ s = x /\ m = k)
  BY <1>1, WakeEffect
<1>3. WakeQueues => /\ v /\ (x[1] = "LSQ" => IsStore(rs[x].op))
                    /\ \A m \in 1 .. 3 : rs[x].idep_ready[m] \/ m = k
  BY DEF WakeQueues, WakeReady, QueuedWhenReady
<1>4. (v /\ (\A m \in 1 .. 3 : rs[x].idep_ready[m] \/ m = k) /\ ~ WakeQueues) => x[1] = "LSQ" /\ ~ IsStore(rs[x].op)
  BY DEF WakeQueues, WakeReady, QueuedWhenReady
<1> HIDE DEF x, k, v
<1>5. LinkInv(rs, InFlight)'
  BY WakeChains
<1>6. TagsGrow
  BY <1>2, KeptGrow
<1>7. \A s \in Stations : (IsLoad(rs[s].op))' = IsLoad(rs[s].op)
  BY <1>2 DEF TextKept, SameText, IsLoad
<1>8. \A s \in Stations : /\ OPERANDS_READY(s) => OPERANDS_READY(s)'
                          /\ OPERANDS_READY(s)' => \/ OPERANDS_READY(s)
                                                   \/ v /\ s = x /\ \A m \in 1 .. 3 : rs[x].idep_ready[m] \/ m = k
  BY <1>2 DEF OPERANDS_READY
<1>9. \A s \in Stations : WakeQueues /\ s = x => OPERANDS_READY(s)'
  BY <1>2, <1>3 DEF OPERANDS_READY
<1>10. Flagged'
  <2>1. ASSUME NEW s \in Stations, InWindow(s)
        PROVE  /\ rs'[s].queued => ~ rs'[s].issued
               /\ rs'[s].completed => rs'[s].issued
               /\ rs'[s].queued \/ rs'[s].issued => OPERANDS_READY(s)'
    <3>1. /\ rs[s].queued => ~ rs[s].issued
          /\ rs[s].completed => rs[s].issued
          /\ rs[s].queued \/ rs[s].issued => OPERANDS_READY(s)
      BY <2>1 DEF Lists, Flagged
    <3>2. CASE WakeQueues /\ s = x
      BY <1>1, <1>2, <1>3, <1>9, <3>1, <3>2
    <3>3. CASE ~ (WakeQueues /\ s = x)
      BY <1>2, <1>8, <3>1, <3>3
    <3> QED
      BY <3>2, <3>3
  <2>2. ASSUME NEW s \in Stations, InWindow(s), OPERANDS_READY(s)', ~ rs'[s].queued, ~ rs'[s].issued
        PROVE  s[1] = "LSQ" /\ IsLoad(rs[s].op)
    <3>1. CASE OPERANDS_READY(s)
      BY <1>2, <2>2, <3>1 DEF Lists, Flagged
    <3>2. CASE ~ OPERANDS_READY(s)
      <4>1. v /\ s = x /\ \A m \in 1 .. 3 : rs[x].idep_ready[m] \/ m = k
        BY <1>8, <2>2, <3>2
      <4>2. x[1] = "LSQ" /\ ~ IsStore(rs[x].op)
        BY <1>2, <1>4, <2>2, <4>1
      <4>3. IsMem(rs[x].op) /\ rs[x].op \in DOMAIN OpTable
        BY <1>1, <2>2, <4>1, <4>2 DEF Kinds, TypeOK, Station
      <4>4. IsLoad(rs[x].op)
        BY <4>2, <4>3, Zenon, SMT DEF IsLoad, IsStore, IsMem, MD_OP_FLAGS, OpTable
      <4> QED
        BY <4>1, <4>2, <4>4
    <3> QED
      BY <3>1, <3>2
  <2> QED
    BY <1>0, <1>7, <2>1, <2>2, WindowSame DEF Flagged
<1>11. \A s \in Stations : rs'[s].tag = rs[s].tag /\ rs[s].tag \in Nat /\ rs[s].seq \in Nat
  BY <1>2, QueuesTyped DEF TagsKept
<1>12. ready_queue \in Seq(ReadyLinks)
  BY QueuesTyped
<1>13. /\ PastTags(ready_queue)'
       /\ \A s \in Stations : CountOf(ready_queue', s, rs[s].tag) = CountOf(ready_queue, s, rs[s].tag) + One(WakeQueues /\ s = x)
  <2>1. CASE WakeQueues
    <3>1. ready_queue' = readyq_enqueue(ready_queue, x, rs[x])
      BY <1>1, <2>1, WakeQueue DEF x
    <3>2. PICK e \in ReadyLinks : /\ e.rs = x /\ e.tag = rs[x].tag
                                  /\ OneMore(ReadyLinks, ready_queue, ready_queue', e)
      BY <1>1, <1>11, <1>12, <3>1, ReadyEnqueued
    <3>3. PastTags(ready_queue)'
      <4>1. \A i \in DOMAIN ready_queue' : \/ ready_queue'[i].rs \in Stations 
                                              /\ ready_queue'[i].tag = rs[ready_queue'[i].rs].tag
                                           \/ \E j \in DOMAIN ready_queue : ready_queue'[i] = ready_queue[j]
        BY <1>1, <3>2 DEF OneMore
      <4> QED
        BY <1>6, <4>1, QueuePast DEF PastTags, Lists
    <3>4. ASSUME NEW s \in Stations
          PROVE  CountOf(ready_queue', s, rs[s].tag) = CountOf(ready_queue, s, rs[s].tag) + One(WakeQueues /\ s = x)
      <4>1. One(e.rs = s /\ e.tag = rs[s].tag) = One(WakeQueues /\ s = x)
        BY <2>1, <3>2 DEF One
      <4> QED
        BY <3>2, <4>1 DEF OneMore
    <3> QED
      BY <3>3, <3>4
  <2>2. CASE ~ WakeQueues
    <3>1. ready_queue' = ready_queue
      BY <1>1, <2>2, WakeQueue
    <3>2. PastTags(ready_queue)'
      BY <1>6, <3>1, PastSame DEF Lists
    <3>3. \A s \in Stations : CountOf(ready_queue, s, rs[s].tag) \in Nat
      BY <1>12, CountType
    <3> QED
      BY <2>2, <3>1, <3>2, <3>3 DEF One
  <2> QED
    BY <2>1, <2>2
<1>14. AllPast'
  BY <1>0, <1>6, <1>13, PastSame DEF AllPast, Lists
<1>15. ASSUME NEW s \in Stations
       PROVE  /\ ReadyCount(s)' = One(InWindow(s) /\ rs'[s].queued)
              /\ EventCount(s)' = One(InWindow(s) /\ UnderWay(s)')
  <2> DEFINE g == One(WakeQueues /\ s = x)
  <2>1. /\ ReadyCount(s)' = CountOf(ready_queue', s, rs[s].tag) + CountOf(node, s, rs[s].tag)
        /\ ReadyCount(s) = CountOf(ready_queue, s, rs[s].tag) + CountOf(node, s, rs[s].tag)
        /\ EventCount(s)' = EventCount(s)
    BY <1>0, <1>11 DEF ReadyCount, EventCount
  <2>2. ReadyCount(s) = One(InWindow(s) /\ rs[s].queued) /\ EventCount(s) = One(InWindow(s) /\ UnderWay(s))
    BY CountedIs DEF Lists
  <2>3. CountOf(ready_queue', s, rs[s].tag) = CountOf(ready_queue, s, rs[s].tag) + g /\ g \in Nat
    BY <1>13 DEF One
  <2>4. CountOf(ready_queue, s, rs[s].tag) \in Nat /\ CountOf(node, s, rs[s].tag) \in Nat
    BY CountTyped
  <2>5. g = IF WakeQueues /\ s = x THEN 1 ELSE 0
    BY DEF One
  <2> HIDE DEF g
  <2>6. ReadyCount(s)' = ReadyCount(s) + g
    BY <2>1, <2>3, <2>4
  <2>7. UnderWay(s)' <=> UnderWay(s)
    BY <1>2 DEF UnderWay
  <2>8. CASE WakeQueues /\ s = x
    <3>1. InWindow(s) /\ ~ rs[s].queued /\ rs'[s].queued
      BY <1>1, <1>2, <1>3, <2>8
    <3> QED
      BY <2>1, <2>2, <2>5, <2>6, <2>7, <2>8, <3>1 DEF One
  <2>9. CASE ~ (WakeQueues /\ s = x)
    <3>1. rs'[s].queued <=> rs[s].queued
      BY <1>2, <2>9
    <3> QED
      BY <2>1, <2>2, <2>5, <2>6, <2>7, <2>9, <3>1 DEF One
  <2> QED
    BY <2>8, <2>9
<1>16. Counted'
  <2>1. (Counted <=> \A s \in Stations : /\ ReadyCount(s) = One(InWindow(s) /\ rs[s].queued)
                                         /\ EventCount(s) = One(InWindow(s) /\ UnderWay(s)))'
    BY CountedIs, PTL
  <2> QED
    BY <1>0, <1>15, <2>1, WindowSame DEF One
<1>17. MemoryOrder'
  <2>1. ReadyKept
    BY <1>2 DEF ReadyKept
  <2>2. \A p \in 0 .. LSQ_num - 1 : OnItsWay(p)' => OnItsWay(p)
    <3>1. \A p \in 0 .. LSQ_num - 1 : LsqAt(p) \in Stations /\ LsqAt(p)' = LsqAt(p) /\ LsqAt(p)[1] = "LSQ"
      BY <1>0, WindowSame, RingsAreTyped, InFlightIs, Slots
    <3>2. \A o \in DOMAIN OpTable : ~ (IsLoad(o) /\ IsStore(o))
      BY DEF IsLoad, IsStore, MD_OP_FLAGS, OpTable
    <3>3. \A s \in Stations : rs[s].op \in DOMAIN OpTable
      BY DEF TypeOK, Station
    <3> QED
      BY <1>2, <1>3, <1>7, <3>1, <3>2, <3>3 DEF OnItsWay
  <2> QED
    BY <1>0, <1>2, <2>1, <2>2, MemoryOrderKept, RingsAreTyped DEF Lists
<1> QED
  BY <1>5, <1>10, <1>14, <1>16, <1>17 DEF Lists

-----------------------------------------------------------------------------
\* Retirement: ruu_commit.

\* The head of the RUU leaves, and its access with it.
Mem == rs[RuuHead].ea_comp

\* What ruu_commit does to heads and numbers: the LSQ loses its head with an access.
LEMMA CommitNumbers ==
  ASSUME TypeOK, Accesses, Commit
  PROVE  /\ Mem \in BOOLEAN /\ RUU_num \in Nat /\ LSQ_num \in Nat /\ RUU_num > 0
         /\ (Mem <=> 0 \in Agens) /\ (Mem => LSQ_num > 0)
         /\ RUU_num' = RUU_num - 1 /\ LSQ_num' = LSQ_num - One(Mem)
         /\ RUU_head' = Res(RUU_head + 1, RUU_size)
         /\ LSQ_head' = IF Mem THEN Res(LSQ_head + 1, LSQ_size) ELSE LSQ_head
         /\ code' = code /\ config' = config /\ RUU_tail' = RUU_tail /\ LSQ_tail' = LSQ_tail
<1>1. RingsTyped
  BY RingsAreTyped
<1>2. RuuAt(0) = RuuHead /\ RuuHead \in Stations
  BY <1>1, Slots
<1>3. Mem \in BOOLEAN /\ RUU_num \in Nat /\ LSQ_num \in Nat /\ RUU_num > 0
  <2>1. rs[RuuHead] \in Station /\ RUU_num > 0
    BY <1>2 DEF TypeOK, Commit, CanCommit
  <2>2. RUU_num \in Nat /\ LSQ_num \in Nat
    BY <1>1, AgensAre
  <2> QED
    BY <2>1, <2>2 DEF Station, Mem
<1>4. Mem <=> 0 \in Agens
  BY <1>1, <1>2, <1>3, AgensAre DEF Mem
<1>5. Mem => LSQ_num > 0
  BY <1>1, <1>3, <1>4, AccessPlace
<1> QED
  BY <1>3, <1>4, <1>5 DEF Commit, Mem, One, Res

\* ruu_commit moves every place down and takes what it retires out of the window.
LEMMA CommitWindow ==
  ASSUME TypeOK, Accesses, Commit
  PROVE  /\ RingsTyped' /\ Stations' = Stations /\ LSQ_size' = LSQ_size
         /\ \A p \in 0 .. RUU_size - 1 : RuuAt(p)' = RuuAt(p + 1)
         /\ \A p \in 0 .. LSQ_size - 1 : LsqAt(p)' = LsqAt(p + One(Mem))
         /\ \A s \in Stations : InWindow(s)' <=> InWindow(s) /\ s \notin Gone
         /\ Gone \subseteq InFlight
         /\ Rings => Rings'
<1>1. RingsTyped
  BY RingsAreTyped
<1>2. /\ RUU_size \in Nat \ {0} /\ LSQ_size \in Nat \ {0} /\ LSQ_size' = LSQ_size
      /\ RUU_head \in 0 .. RUU_size - 1 /\ LSQ_head \in 0 .. LSQ_size - 1
      /\ RUU_num \in 0 .. RUU_size /\ LSQ_num \in 0 .. LSQ_size
  BY <1>1, SizeType, CommitNumbers, StationsKept DEF RingsTyped
<1>3. /\ RUU_head' \in 0 .. RUU_size - 1
      /\ \A i \in 0 .. RUU_size - 1 : i # RUU_head => Res(i - RUU_head', RUU_size) = Res(i - RUU_head, RUU_size) - 1
      /\ Res(RUU_head - RUU_head', RUU_size) = RUU_size - 1
      /\ Res(RUU_head - RUU_head, RUU_size) = 0
      /\ \A p \in 0 .. RUU_size - 1 : Res(RUU_head' + p, RUU_size) = Res(RUU_head + (p + 1), RUU_size)
  <2>1. RUU_head' = Res(RUU_head + 1, RUU_size)
    BY CommitNumbers
  <2> QED
    BY <1>2, <2>1, RingShift
<1>4. Mem => 
      /\ LSQ_head' \in 0 .. LSQ_size - 1
      /\ \A i \in 0 .. LSQ_size - 1 : i # LSQ_head => Res(i - LSQ_head', LSQ_size) = Res(i - LSQ_head, LSQ_size) - 1
      /\ Res(LSQ_head - LSQ_head', LSQ_size) = LSQ_size - 1
      /\ Res(LSQ_head - LSQ_head, LSQ_size) = 0
      /\ \A p \in 0 .. LSQ_size - 1 : Res(LSQ_head' + p, LSQ_size) = Res(LSQ_head + (p + 1), LSQ_size)
  <2>1. Mem => LSQ_head' = Res(LSQ_head + 1, LSQ_size)
    BY CommitNumbers
  <2> QED
    BY <1>2, <2>1, RingShift
<1>5. RingsTyped'
  BY <1>1, <1>2, <1>3, <1>4, CommitNumbers DEF RingsTyped, One
<1>6. \A p \in 0 .. RUU_size - 1 : RuuAt(p)' = RuuAt(p + 1)
  BY <1>3 DEF RuuAt, Res
<1>7. \A p \in 0 .. LSQ_size - 1 : LsqAt(p)' = LsqAt(p + One(Mem))
  <2>1. CASE Mem
    BY <1>2, <1>4, <2>1 DEF LsqAt, Res, One
  <2>2. CASE ~ Mem
    BY <1>2, <2>2, CommitNumbers DEF LsqAt, One
  <2> QED
    BY <2>1, <2>2
<1>8. \A s \in Stations : \/ /\ s[1] = "RUU" /\ s[2] \in 0 .. RUU_size - 1 /\ (s = RuuHead <=> s[2] = RUU_head)
                             /\ s # LsqHead
                             /\ InWindow(s) <=> Res(s[2] - RUU_head, RUU_size) < RUU_num
                             /\ InWindow(s)' <=> Res(s[2] - RUU_head', RUU_size) < RUU_num'
                          \/ /\ s[1] = "LSQ" /\ s[2] \in 0 .. LSQ_size - 1 /\ (s = LsqHead <=> s[2] = LSQ_head)
                             /\ s # RuuHead
                             /\ InWindow(s) <=> Res(s[2] - LSQ_head, LSQ_size) < LSQ_num
                             /\ InWindow(s)' <=> Res(s[2] - LSQ_head', LSQ_size) < LSQ_num'
  BY <1>2 DEF Stations, InWindow, Pos, Res, RuuHead, LsqHead
<1>9. ASSUME NEW s \in Stations
      PROVE  InWindow(s)' <=> InWindow(s) /\ s \notin Gone
  <2>1. Res(s[2] - RUU_head, RUU_size) \in Int /\ Res(s[2] - LSQ_head, LSQ_size) \in Int
    BY <1>2, <1>8 DEF Res
  <2>2. CASE s[1] = "RUU"
    <3>1. s \in Gone <=> s[2] = RUU_head
      BY <1>8, <2>2 DEF Gone
    <3> QED
      BY <1>2, <1>3, <1>8, <2>1, <2>2, <3>1, CommitNumbers
  <2>3. CASE s[1] = "LSQ"
    <3>1. s \in Gone <=> Mem /\ s[2] = LSQ_head
      BY <1>8, <2>3 DEF Gone, Mem
    <3> QED
      <4>1. /\ LSQ_num \in 0 .. LSQ_size /\ LSQ_size \in Nat
            /\ Mem => LSQ_num' = LSQ_num - 1 /\ LSQ_num > 0
            /\ ~ Mem => LSQ_num' = LSQ_num /\ LSQ_head' = LSQ_head
        BY <1>2, CommitNumbers DEF One
      <4>2. CASE Mem
        <5>1. /\ InWindow(s) <=> Res(s[2] - LSQ_head, LSQ_size) < LSQ_num
              /\ InWindow(s)' <=> Res(s[2] - LSQ_head', LSQ_size) < LSQ_num'
              /\ s[2] \in 0 .. LSQ_size - 1
          BY <1>8, <2>3
        <5>2. CASE s[2] = LSQ_head
          BY <1>4, <3>1, <4>1, <4>2, <5>1, <5>2
        <5>3. CASE s[2] # LSQ_head
          BY <1>4, <2>1, <3>1, <4>1, <4>2, <5>1, <5>3
        <5> QED
          BY <5>2, <5>3
      <4>3. CASE ~ Mem
        BY <1>8, <2>3, <3>1, <4>1, <4>3
      <4> QED
        BY <4>2, <4>3
  <2> QED
    BY <1>8, <2>2, <2>3
<1>10. Gone \subseteq InFlight
  <2>1. /\ RuuAt(0) = RuuHead /\ LsqAt(0) = LsqHead
        /\ RuuAt(0) \in InFlight /\ (Mem => LsqAt(0) \in InFlight)
    BY <1>1, Slots, InFlightIs, CommitNumbers DEF Window
  <2> QED
    BY <2>1 DEF Gone, Mem
<1>11. Rings => Rings'
  <2> SUFFICES ASSUME Rings PROVE Rings'
    OBVIOUS
  <2>1. RUU_tail' = Res(RUU_head' + RUU_num', RUU_size)
    <3>1. RUU_num - 1 \in 0 .. RUU_size - 1 /\ (RUU_num - 1) + 1 = RUU_num
      BY <1>2, CommitNumbers
    <3> QED
      BY <1>3, <3>1, CommitNumbers DEF Rings, Res
  <2>2. LSQ_tail' = Res(LSQ_head' + LSQ_num', LSQ_size)
    <3>1. CASE Mem
      <4>1. LSQ_num - 1 \in 0 .. LSQ_size - 1 /\ (LSQ_num - 1) + 1 = LSQ_num /\ LSQ_num' = LSQ_num - 1
        BY <1>2, <3>1, CommitNumbers DEF One
      <4> QED
        BY <1>4, <3>1, <4>1, CommitNumbers DEF Rings, Res
    <3>2. CASE ~ Mem
      BY <1>2, <3>2, CommitNumbers DEF Rings, Res, One
    <3> QED
      BY <3>1, <3>2
  <2> QED
    BY <1>2, <2>1, <2>2 DEF Rings, Res
<1> QED
  BY <1>2, <1>5, <1>6, <1>7, <1>9, <1>10, <1>11, StationsKept, CommitNumbers

\* Steps that move the window.

\* The entries that are left are of the kinds they were.
LEMMA KindsShrink ==
  ASSUME RsTyped, TextKept, Kinds, \A s \in Stations : InWindow(s)' => InWindow(s)
  PROVE  Kinds'
<1>1. ASSUME NEW s \in Stations
      PROVE  /\ s[1] = "RUU" => ~ IsMem(rs'[s].op)
             /\ s[1] = "LSQ" => ~ rs'[s].ea_comp /\ ~ rs'[s].recover_inst
             /\ s[1] = "LSQ" /\ InWindow(s)' => IsMem(rs'[s].op)
             /\ InWindow(s)' /\ IsStore(rs'[s].op) => rs'[s].onames = <<NA, NA>>
  BY <1>1 DEF Kinds, TextKept, SameText
<1> QED
  BY <1>1 DEF RsTyped, Kinds, IsMem, IsStore

\* The address computations, and what their accesses are, after a step.
LEMMA AgensNext ==
  ASSUME RUU_num' \in Nat
  PROVE  /\ Agens' \subseteq Nat
         /\ \A p \in Nat : p \in Agens' <=> p < RUU_num' /\ rs'[RuuAt(p)'].ea_comp
<1>1. Window' = 0 .. RUU_num' - 1
  BY DEF Window
<1>2. \A p : p \in Agens' <=> p \in Window' /\ rs'[RuuAt(p)'].ea_comp
  BY DEF Agens
<1>3. \A p \in Window' : p \in Nat
  BY <1>1
<1>4. ASSUME NEW p \in Nat
      PROVE  p \in Window' <=> p < RUU_num'
  <2>1. PICK m \in Nat : m = RUU_num'
    OBVIOUS
  <2>2. p \in 0 .. m - 1 <=> p < m
    OBVIOUS
  <2> QED
    BY <1>1, <2>1, <2>2
<1> QED
  BY <1>2, <1>3, <1>4

\* An address computation and its access match after they moved together.
LEMMA MatchesMoved ==
  ASSUME TextKept, NEW p, NEW k, NEW q, NEW m, RuuAt(p)' = RuuAt(q), LsqAt(k)' = LsqAt(m),
         RuuAt(q) \in Stations, LsqAt(m) \in Stations, Matches(q, m)
  PROVE  Matches(p, k)'
<1>1. SameText(rs'[RuuAt(q)], rs[RuuAt(q)]) /\ SameText(rs'[LsqAt(m)], rs[LsqAt(m)])
  BY DEF TextKept
<1> QED
  BY <1>1 DEF Matches, SameText, IsMem

\* What shows that the LSQ holds the accesses after a step, by ranks.
LEMMA AccessesNext ==
  ASSUME RUU_num' \in Nat, RankIn(Agens', RUU_num') = LSQ_num',
         \A p \in Nat, k \in Nat : p \in Agens' /\ k = RankIn(Agens', p) => Matches(p, k)',
         \A k \in 0 .. LSQ_num' - 1 : \E p \in Agens' : RankIn(Agens', p) = k
  PROVE  Accesses'
<1>1. \A p \in Agens' : p \in Nat /\ RankIn(Agens', p) \in Nat
  BY AgensNext, BelowFinite
<1>2. \A p \in Agens' : Matches(p, RankIn(Agens, p))'
  <2> TAKE p \in Agens'
  <2>1. PICK k \in Nat : k = RankIn(Agens', p)
    BY <1>1
  <2>2. Matches(p, k)'
    BY <1>1, <2>1
  <2> QED
    BY <2>1, <2>2 DEF Matches, LsqAt
<1> QED
  BY <1>2 DEF Accesses

\* Nothing comes before place 0.
LEMMA RankZero ==
  ASSUME NEW A, A \subseteq Nat
  PROVE  RankIn(A, 0) = 0
<1>1. \A q : ~ (q \in Below(A, 0))
  <2>1. \A q : q \in Below(A, 0) => q \in Nat /\ q < 0
    BY BelowIs
  <2> QED
    BY <2>1
<1>2. Below(A, 0) = {}
  BY <1>1, Zenon
<1> QED
  BY <1>2, FS_EmptySet DEF RankIn

\* ruu_commit keeps the accesses of the LSQ in the order of their address computations.
LEMMA CommitAccesses ==
  ASSUME TypeOK, Accesses, Commit
  PROVE  Accesses'
<1> DEFINE d == One(Mem)
<1>1. RingsTyped /\ RsTyped /\ TextKept
  BY RingsAreTyped, CommitEffect
<1>2. /\ RUU_num \in Nat /\ LSQ_num \in Nat /\ RUU_num > 0 /\ d \in {0, 1} /\ (d = 1 <=> 0 \in Agens)
      /\ d = One(0 \in Agens)
      /\ (d = 1 => LSQ_num > 0) /\ RUU_num' = RUU_num - 1 /\ LSQ_num' = LSQ_num - d
  BY CommitNumbers DEF One
<1>3. RUU_num' \in Nat /\ LSQ_num' \in Nat
  BY <1>2
<1>4. /\ \A p \in 0 .. RUU_size - 1 : RuuAt(p)' = RuuAt(p + 1)
      /\ \A p \in 0 .. LSQ_size - 1 : LsqAt(p)' = LsqAt(p + d)
  BY CommitWindow
<1>5. /\ RUU_num <= RUU_size /\ LSQ_num <= LSQ_size /\ RUU_size \in Nat /\ LSQ_size \in Nat
  BY <1>1, SizeType DEF RingsTyped
<1> HIDE DEF d
<1>6. /\ Agens \subseteq Nat /\ \A p \in Nat : p \in Agens <=> p < RUU_num /\ rs[RuuAt(p)].ea_comp
  BY <1>1, AgensAre
<1>7. /\ Agens' \subseteq Nat /\ \A p \in Nat : p \in Agens' <=> p < RUU_num' /\ rs'[RuuAt(p)'].ea_comp
  BY <1>3, AgensNext
<1>8. ASSUME NEW p \in Nat
      PROVE  p \in Agens' <=> p + 1 \in Agens
  <2>1. p < RUU_num' <=> p + 1 < RUU_num
    BY <1>2
  <2>2. CASE p + 1 < RUU_num
    <3>1. p + 1 \in Window /\ p \in 0 .. RUU_size - 1 /\ p + 1 \in Nat
      BY <1>2, <1>5, <2>2 DEF Window
    <3>2. RuuAt(p + 1) \in Stations
      BY <1>1, <3>1, InFlightIs
    <3>3. rs'[RuuAt(p + 1)].ea_comp = rs[RuuAt(p + 1)].ea_comp
      BY <1>1, <3>2 DEF TextKept, SameText
    <3> QED
      BY <1>4, <1>6, <1>7, <2>1, <3>1, <3>3
  <2>3. CASE ~ (p + 1 < RUU_num)
    BY <1>6, <1>7, <2>1, <2>3
  <2> QED
    BY <2>2, <2>3
<1>9. \A p \in Nat : RankIn(Agens', p) = RankIn(Agens, p + 1) - d
  BY <1>2, <1>6, <1>7, <1>8, RankShift
<1>10. \A p \in Nat : RankIn(Agens, p) \in Nat /\ RankIn(Agens', p) \in Nat
  BY <1>6, <1>7, BelowFinite
<1>11. RankIn(Agens', RUU_num') = LSQ_num'
  <2>1. RUU_num' + 1 = RUU_num
    BY <1>2
  <2>2. RankIn(Agens', RUU_num') = RankIn(Agens, RUU_num) - d
    BY <1>3, <1>9, <2>1
  <2> QED
    BY <1>2, <2>2 DEF Accesses
<1>12. ASSUME NEW p \in Nat, NEW k \in Nat, p \in Agens', k = RankIn(Agens', p)
       PROVE  Matches(p, k)'
  <2>1. p + 1 \in Agens /\ k + d = RankIn(Agens, p + 1) /\ k + d \in Nat
    BY <1>2, <1>8, <1>9, <1>10, <1>12
  <2>2. k + d \in 0 .. LSQ_num - 1 /\ p + 1 \in Window /\ Matches(p + 1, k + d)
    BY <1>1, <2>1, AccessPlace DEF Accesses
  <2>3. p \in 0 .. RUU_size - 1 /\ k \in 0 .. LSQ_size - 1
    BY <1>2, <1>5, <2>2 DEF Window
  <2>4. RuuAt(p + 1) \in Stations /\ LsqAt(k + d) \in Stations
    BY <1>1, <2>2, InFlightIs
  <2>5. RuuAt(p)' = RuuAt(p + 1) /\ LsqAt(k)' = LsqAt(k + d)
    BY <1>4, <2>3
  <2> QED
    BY <1>1, <2>2, <2>4, <2>5, MatchesMoved
<1>13. ASSUME NEW k \in 0 .. LSQ_num' - 1
       PROVE  \E p \in Agens' : RankIn(Agens', p) = k
  <2>1. k + d \in 0 .. LSQ_num - 1 /\ k \in Nat
    BY <1>2
  <2>2. PICK q \in Agens : RankIn(Agens, q) = k + d
    BY <2>1 DEF Accesses
  <2>3. q \in Nat /\ q # 0
    <3>1. q \in Nat
      BY <1>6
    <3>2. q = 0 => RankIn(Agens, q) = 0 /\ d = 1
      BY <1>2, <1>6, RankZero
    <3> QED
      BY <2>1, <2>2, <3>1, <3>2
  <2>4. q - 1 \in Nat /\ (q - 1) + 1 = q
    BY <2>3
  <2>5. q - 1 \in Agens' /\ RankIn(Agens', q - 1) = k
    BY <1>2, <1>8, <1>9, <2>1, <2>2, <2>4
  <2> QED
    BY <2>5
<1> QED
  BY <1>3, <1>11, <1>12, <1>13, AccessesNext

\* ruu_commit keeps the wrong path at the tail of the window.
LEMMA CommitWrongPath ==
  ASSUME TypeOK, Accesses, WrongPath, Commit
  PROVE  WrongPath'
<1>1. RingsTyped /\ RsTyped /\ TextKept /\ StateKept
  BY RingsAreTyped, CommitEffect
<1>2. RUU_num \in Nat /\ RUU_num > 0 /\ RUU_num' = RUU_num - 1
  BY CommitNumbers
<1>3. \A p \in 0 .. RUU_size - 1 : RuuAt(p)' = RuuAt(p + 1)
  BY CommitWindow
<1>4. RUU_num <= RUU_size /\ RUU_size \in Nat
  BY <1>1, SizeType DEF RingsTyped
<1>5. spec_mode' = spec_mode /\ use_spec_cv' = use_spec_cv
  BY DEF Commit, cvVars, specVars
<1>6. ASSUME NEW p \in Window'
      PROVE  /\ p \in Nat /\ p + 1 \in Window
             /\ rs'[RuuAt(p)'].recover_inst = rs[RuuAt(p + 1)].recover_inst
             /\ rs'[RuuAt(p)'].completed = rs[RuuAt(p + 1)].completed
             /\ rs'[RuuAt(p)'].spec_mode = rs[RuuAt(p + 1)].spec_mode
  <2>1. p \in Nat /\ p + 1 \in Window /\ p \in 0 .. RUU_size - 1
    BY <1>2, <1>4 DEF Window
  <2>2. RuuAt(p + 1) \in Stations
    BY <1>1, <2>1, InFlightIs
  <2> QED
    BY <1>1, <1>3, <2>1, <2>2 DEF TextKept, SameText, StateKept, SameState
<1>7. \A p \in Nat : p + 1 \in Window => p \in Window'
  BY <1>2 DEF Window
<1>8. \A p : p \in Branches' <=> p \in Window' /\ rs'[RuuAt(p)'].recover_inst /\ ~ rs'[RuuAt(p)'].completed
  BY DEF Branches
<1>9. \A p \in Nat : p \in Branches' <=> p + 1 \in Branches
  BY <1>6, <1>7, <1>8 DEF Branches
<1>10. 0 \notin Branches
  <2>1. RuuAt(0) = RuuHead
    BY <1>1, Slots
  <2> QED
    BY <2>1 DEF Branches, Commit, CanCommit
<1>11. (\E b \in Nat : b \in Branches) <=> \E b \in Nat : b \in Branches'
  <2>1. ASSUME NEW b \in Nat, b \in Branches
        PROVE  \E c \in Nat : c \in Branches'
    <3>1. b - 1 \in Nat /\ (b - 1) + 1 = b
      BY <1>10, <2>1
    <3> QED
      BY <1>9, <2>1, <3>1
  <2> QED
    BY <1>9, <2>1
<1>12. \A b \in Branches', p \in Window' : rs'[RuuAt(p)'].spec_mode <=> p > b
  <2> TAKE b \in Branches', p \in Window'
  <2>1. b \in Nat /\ p \in Nat
    BY <1>6, <1>8
  <2>2. rs[RuuAt(p + 1)].spec_mode <=> p + 1 > b + 1
    BY <1>6, <1>9, <2>1 DEF WrongPath
  <2> QED
    BY <1>6, <2>1, <2>2
<1>13. ~ spec_mode' => use_spec_cv' = {} /\ \A p \in Window' : ~ rs'[RuuAt(p)'].spec_mode
  BY <1>5, <1>6 DEF WrongPath
<1> QED
  BY <1>5, <1>11, <1>12, <1>13 DEF WrongPath

\* The order of the memory accesses, when they move d places.
LEMMA MemoryOrderMoved ==
  ASSUME LSQ_num \in Nat, LSQ_num' \in Nat, NEW d \in Nat, MemoryOrder,
         \A p \in 0 .. LSQ_num' - 1 : OnItsWay(p)' => p + d \in 0 .. LSQ_num - 1 /\ OnItsWay(p + d),
         \A p \in 0 .. LSQ_num' - 1 : p + d \in 0 .. LSQ_num - 1 =>
           /\ LsqAt(p)' = LsqAt(p + d) /\ SameText(rs'[LsqAt(p + d)], rs[LsqAt(p + d)])
           /\ \A k \in 1 .. 3 : rs[LsqAt(p + d)].idep_ready[k] => rs'[LsqAt(p + d)].idep_ready[k]
  PROVE  MemoryOrder'
<1>0. PICK m \in Nat : m = LSQ_num'
  OBVIOUS
<1>1. ASSUME NEW p \in 0 .. LSQ_num' - 1, p + d \in 0 .. LSQ_num - 1
      PROVE  /\ rs'[LsqAt(p)'].op = rs[LsqAt(p + d)].op /\ rs'[LsqAt(p)'].addr = rs[LsqAt(p + d)].addr
             /\ STORE_ADDR_READY(LsqAt(p + d)) => rs'[LsqAt(p)'].idep_ready[2]
             /\ OPERANDS_READY(LsqAt(p + d)) => \A k \in 1 .. 3 : rs'[LsqAt(p)'].idep_ready[k]
  <2>1. /\ LsqAt(p)' = LsqAt(p + d) /\ SameText(rs'[LsqAt(p + d)], rs[LsqAt(p + d)])
        /\ \A k \in 1 .. 3 : rs[LsqAt(p + d)].idep_ready[k] => rs'[LsqAt(p + d)].idep_ready[k]
    BY <1>1
  <2> QED
    BY <2>1 DEF SameText, STORE_ADDR_READY, OPERANDS_READY
<1>2. ASSUME NEW p \in 0 .. LSQ_num' - 1, OnItsWay(p)'
      PROVE  LoadClear(p)'
  <2>1. p + d \in 0 .. LSQ_num - 1 /\ LoadClear(p + d)
    BY <1>2, MemoryOrderIs
  <2> SUFFICES ASSUME NEW q \in 0 .. LSQ_num' - 1, q < p, IsStore(rs'[LsqAt(q)'].op)
               PROVE  /\ rs'[LsqAt(q)'].idep_ready[2]
                      /\ \/ rs'[LsqAt(q)'].addr # rs'[LsqAt(p)'].addr
                         \/ \A k \in 1 .. 3 : rs'[LsqAt(q)'].idep_ready[k]
                         \/ \E h \in q + 1 .. p - 1 : IsStore(rs'[LsqAt(h)'].op) /\ rs'[LsqAt(h)'].addr = rs'[LsqAt(q)'].addr
    BY DEF LoadClear, STORE_ADDR_READY, OPERANDS_READY, IsStore
  <2>2. q + d \in 0 .. LSQ_num - 1 /\ q + d < p + d
    BY <2>1
  <2>3. /\ STORE_ADDR_READY(LsqAt(q + d))
        /\ \/ rs[LsqAt(q + d)].addr # rs[LsqAt(p + d)].addr
           \/ OPERANDS_READY(LsqAt(q + d))
           \/ \E h \in (q + d) + 1 .. (p + d) - 1 :
                IsStore(rs[LsqAt(h)].op) /\ rs[LsqAt(h)].addr = rs[LsqAt(q + d)].addr
    <3>1. IsStore(rs[LsqAt(q + d)].op)
      BY <1>1, <2>2
    <3> QED
      BY <2>1, <2>2, <3>1 DEF LoadClear
  <2>4. CASE \E h \in (q + d) + 1 .. (p + d) - 1 :
                IsStore(rs[LsqAt(h)].op) /\ rs[LsqAt(h)].addr = rs[LsqAt(q + d)].addr
    <3>0. p + d \in 0 .. LSQ_num - 1
      BY <2>1
    <3>1. PICK h \in (q + d) + 1 .. (p + d) - 1 :
                IsStore(rs[LsqAt(h)].op) /\ rs[LsqAt(h)].addr = rs[LsqAt(q + d)].addr
      BY <2>4
    <3>2. /\ h - d \in q + 1 .. p - 1 /\ h - d \in 0 .. LSQ_num' - 1 /\ (h - d) + d = h
          /\ h \in 0 .. LSQ_num - 1
      <4>1. p \in 0 .. m - 1 /\ q \in 0 .. m - 1
        BY <1>0
      <4>2. /\ h - d \in q + 1 .. p - 1 /\ h - d \in 0 .. m - 1 /\ (h - d) + d = h
            /\ h \in 0 .. LSQ_num - 1
        BY ONLY m \in Nat, d \in Nat, LSQ_num \in Nat, <3>0, <4>1, q < p,
                h \in (q + d) + 1 .. (p + d) - 1
      <4> QED
        BY <1>0, <4>2
    <3>3. PICK g \in q + 1 .. p - 1 : g \in 0 .. LSQ_num' - 1 /\ g + d = h
      BY <3>2
    <3>4. IsStore(rs'[LsqAt(g)'].op) /\ rs'[LsqAt(g)'].addr = rs'[LsqAt(q)'].addr
      BY <1>1, <2>2, <3>1, <3>2, <3>3
    <3> QED
      BY <1>1, <2>2, <2>3, <3>4
  <2> QED
    BY <1>1, <2>1, <2>2, <2>3, <2>4
<1>3. (MemoryOrder <=> \A p \in 0 .. LSQ_num - 1 : OnItsWay(p) => LoadClear(p))'
  BY MemoryOrderIs, PTL
<1> QED
  BY <1>2, <1>3

\* No list has a link to a station that carries the tag it will have next.
LEMMA NextTagCounts ==
  ASSUME TypeOK, AllPast, NEW s \in Stations
  PROVE  /\ CountOf(ready_queue, s, rs[s].tag + 1) = 0 /\ CountOf(node, s, rs[s].tag + 1) = 0
         /\ CountOf(event_queue, s, rs[s].tag + 1) = 0
<1> DEFINE t == rs[s].tag + 1
<1>1. rs[s].tag \in Nat
  BY QueuesTyped
<1>2. ASSUME NEW L, LinkTypes(L), NEW q \in Seq(L), PastTags(q)
      PROVE  CountOf(q, s, t) = 0
  <2>1. \A i \in DOMAIN q : q[i] \in L
    BY <1>2, ElementOfSeq, LenProperties
  <2>2. ASSUME NEW i \in DOMAIN q, q[i].rs = s, q[i].tag = t
        PROVE  FALSE
    <3>1. q[i].tag <= rs[s].tag /\ q[i].tag \in Nat
      BY <1>2, <2>1, <2>2 DEF PastTags, LinkTypes
    <3> QED
      BY <1>1, <2>2, <3>1
  <2> HIDE DEF t
  <2> QED
    BY <2>2, CountSome
<1> QED
  BY <1>2, QueuesTyped, TwoLinkTypes DEF AllPast

\* ruu_commit keeps the ready lists, the event queue and the links in agreement with the
\* stations.
LEMMA CommitLists ==
  ASSUME TypeOK, Accesses, Lists, Commit
  PROVE  Lists'
<1>1. RingsTyped /\ RsTyped /\ TextKept /\ StateKept /\ ChainsKept /\ rs \in [Stations -> Station]
  BY RingsAreTyped, CommitEffect DEF TypeOK
<1>2. /\ \A s \in Stations : InWindow(s)' <=> InWindow(s) /\ s \notin Gone
      /\ Stations' = Stations
  BY CommitWindow
<1>3. \A s \in Stations : rs'[s].tag = IF s \in Gone THEN rs[s].tag + 1 ELSE rs[s].tag
  BY CommitEffect
<1>4. UNCHANGED <<event_queue, ready_queue, node>>
  BY DEF Commit, queueVars
<1>5. TagsGrow
  BY <1>1, <1>3, TagsDoGrow
<1>6. AllPast'
  BY <1>4, <1>5, PastSame DEF Lists, AllPast
<1>7. \A s \in Stations, k \in 1 .. 3 : rs'[s].idep_ready[k] = rs[s].idep_ready[k]
  BY <1>1 DEF ChainsKept, SameChains
<1>8. \A s \in Stations : OPERANDS_READY(s)' <=> OPERANDS_READY(s)
  BY <1>7 DEF OPERANDS_READY
<1>9. Flagged'
  BY <1>1, <1>2, <1>8 DEF Flagged, Lists, TextKept, SameText, StateKept, SameState, IsLoad
<1>10. Counted'
  <2>1. ASSUME NEW s \in Stations
        PROVE  /\ ReadyCount(s)' = One(InWindow(s)' /\ rs'[s].queued)
               /\ EventCount(s)' = One(InWindow(s)' /\ UnderWay(s)')
    <3>1. /\ ReadyCount(s) = One(InWindow(s) /\ rs[s].queued)
          /\ EventCount(s) = One(InWindow(s) /\ UnderWay(s))
      BY CountedIs DEF Lists
    <3>2. (UnderWay(s)' <=> UnderWay(s)) /\ (rs'[s].queued <=> rs[s].queued)
      BY <1>1 DEF UnderWay, StateKept, SameState
    <3>3. CASE s \in Gone
      <4>1. ReadyCount(s)' = 0 /\ EventCount(s)' = 0
        <5>1. ReadyCount(s)' = CountOf(ready_queue, s, rs[s].tag + 1) + CountOf(node, s, rs[s].tag + 1)
              /\ EventCount(s)' = CountOf(event_queue, s, rs[s].tag + 1)
          BY <1>3, <1>4, <3>3 DEF ReadyCount, EventCount
        <5> QED
          BY <5>1, NextTagCounts DEF Lists
      <4> QED
        BY <1>2, <3>3, <4>1 DEF One
    <3>4. CASE s \notin Gone
      <4>1. ReadyCount(s)' = ReadyCount(s) /\ EventCount(s)' = EventCount(s)
        BY <1>3, <1>4, <3>4 DEF ReadyCount, EventCount
      <4> QED
        BY <1>2, <3>1, <3>2, <3>4, <4>1 DEF One
    <3> QED
      BY <3>3, <3>4
  <2>2. (Counted <=> \A s \in Stations : /\ ReadyCount(s) = One(InWindow(s) /\ rs[s].queued)
                                         /\ EventCount(s) = One(InWindow(s) /\ UnderWay(s)))'
    BY CountedIs, PTL
  <2> QED
    BY <1>2, <2>1, <2>2 DEF One
<1>11. LinkInv(rs, InFlight)'
  <2> DEFINE off == [z \in Stations \X (1 .. 2) |-> 0]
  <2>1. off \in [Stations \X (1 .. 2) -> {0, 1}]
    OBVIOUS
  <2>2. \A s \in Stations, i \in 1 .. 2 : off[<<s, i>>] = 0
    OBVIOUS
  <2> HIDE DEF off
  <2>3. \A s \in Stations, i \in 1 .. 2 : \A j \in DOMAIN rs'[s].odep_list[i] :
          /\ j + off[<<s, i>>] \in DOMAIN rs[s].odep_list[i]
          /\ LinkAt(rs', s, i, j) = LinkAt(rs, s, i, j + off[<<s, i>>])
    <3> TAKE s \in Stations, i \in 1 .. 2
    <3> TAKE j \in DOMAIN rs'[s].odep_list[i]
    <3>1. rs'[s].odep_list[i] = rs[s].odep_list[i]
      BY <1>1 DEF ChainsKept, SameChains
    <3>2. j \in Nat
      BY <1>1, <3>1, LinkTyped
    <3>3. j + off[<<s, i>>] = j
      <4>1. off[<<s, i>>] = 0
        BY <2>2
      <4> QED
        BY <3>2, <4>1
    <3> QED
      BY <3>1, <3>3 DEF LinkAt
  <2>4. \A s \in Stations : rs'[s].tag \in {rs[s].tag, rs[s].tag + 1}
    BY <1>3
  <2>5. \A s \in Stations, i \in 1 .. 2, j \in Nat :
           LET m == j + off[<<s, i>>]
               l == LinkAt(rs, s, i, m)
           IN  /\ j \in DOMAIN rs'[s].odep_list[i] /\ Waits(rs, s, i, m)
               /\ l.rs \in InFlight /\ ~ rs[l.rs].idep_ready[l.opnum]
               /\ rs'[l.rs].tag = rs[l.rs].tag
               => l.rs \in InFlight' /\ ~ rs'[l.rs].idep_ready[l.opnum]
    <3> TAKE s \in Stations, i \in 1 .. 2, j \in Nat
    <3> DEFINE m == j + off[<<s, i>>]
               l == LinkAt(rs, s, i, m)
    <3>1. SUFFICES ASSUME Waits(rs, s, i, m), l.rs \in InFlight, ~ rs[l.rs].idep_ready[l.opnum],
                          rs'[l.rs].tag = rs[l.rs].tag
                   PROVE  l.rs \in InFlight' /\ ~ rs'[l.rs].idep_ready[l.opnum]
      BY Zenon
    <3>2. m \in DOMAIN rs[s].odep_list[i]
      BY <3>1 DEF Waits
    <3>3. l.rs \in Stations /\ l.opnum \in 1 .. 3
      BY <1>1, <3>2, LinkTyped
    <3>4. ~ rs'[l.rs].idep_ready[l.opnum]
      BY <1>7, <3>1, <3>3
    <3>5. l.rs \notin Gone
      <4>1. rs[l.rs].tag \in Nat
        BY <1>1, <3>3 DEF Station
      <4> SUFFICES ASSUME l.rs \in Gone PROVE FALSE
        OBVIOUS
      <4>2. rs'[l.rs].tag = rs[l.rs].tag + 1
        BY <1>3, <3>3
      <4> QED
        BY <3>1, <4>1, <4>2
    <3>6. l.rs \in InFlight'
      BY <1>1, <1>2, <3>1, <3>3, <3>5, InFlightIs DEF InFlight
    <3> QED
      BY <3>4, <3>6
  <2> QED
    BY <1>1, <2>1, <2>3, <2>4, <2>5, ChainsCut DEF Lists
<1>12. MemoryOrder'
  <2> DEFINE d == One(Mem)
  <2>1. LSQ_num \in Nat /\ LSQ_num' \in Nat /\ d \in Nat /\ LSQ_num' = LSQ_num - d
    BY CommitNumbers DEF One
  <2>2. LSQ_num <= LSQ_size /\ LSQ_size \in Nat
    BY <1>1, SizeType DEF RingsTyped
  <2>3. \A p \in 0 .. LSQ_size - 1 : LsqAt(p)' = LsqAt(p + d)
    BY CommitWindow
  <2> HIDE DEF d
  <2>4. ASSUME NEW p \in 0 .. LSQ_num' - 1
        PROVE  /\ p + d \in 0 .. LSQ_num - 1 /\ LsqAt(p)' = LsqAt(p + d) /\ LsqAt(p + d) \in Stations
    <3>1. p + d \in 0 .. LSQ_num - 1 /\ p \in 0 .. LSQ_size - 1
      BY <2>1, <2>2
    <3> QED
      BY <1>1, <2>3, <3>1, InFlightIs
  <2>5. \A p \in 0 .. LSQ_num' - 1 : OnItsWay(p)' => p + d \in 0 .. LSQ_num - 1 /\ OnItsWay(p + d)
    BY <1>1, <2>4 DEF OnItsWay, TextKept, SameText, StateKept, SameState, IsLoad
  <2>6. \A p \in 0 .. LSQ_num' - 1 : p + d \in 0 .. LSQ_num - 1 =>
           /\ LsqAt(p)' = LsqAt(p + d) /\ SameText(rs'[LsqAt(p + d)], rs[LsqAt(p + d)])
           /\ \A k \in 1 .. 3 : rs[LsqAt(p + d)].idep_ready[k] => rs'[LsqAt(p + d)].idep_ready[k]
    BY <1>1, <1>7, <2>4 DEF TextKept
  <2> QED
    BY <2>1, <2>5, <2>6, MemoryOrderMoved DEF Lists
<1> QED
  BY <1>6, <1>9, <1>10, <1>11, <1>12 DEF Lists

-----------------------------------------------------------------------------
\* Recovery from a mispredicted branch: ruu_recover.

\* The branch that ruu_recover is called for is the only mispredicted one, and exactly
\* what is behind it is on the wrong path.
LEMMA RecoverIs ==
  ASSUME TypeOK, Kinds, WrongPath, Counted, NEW b \in Stations, Recover(b)
  PROVE  /\ b[1] = "RUU" /\ InWindow(b) /\ RuuAt(Pos(b)) = b /\ Pos(b) \in Window /\ Pos(b) \in Nat
         /\ Pos(b) < RUU_num /\ Pos(b) \in 0 .. RUU_size - 1
         /\ spec_mode /\ rs[b].issued /\ ~ rs[b].completed
         /\ \A p \in Window : rs[RuuAt(p)].spec_mode <=> p > Pos(b)
         /\ \A p \in Branches : p = Pos(b)
<1>1. RingsTyped
  BY RingsAreTyped
<1>2. Completes(b) /\ rs[b].recover_inst
  BY DEF Recover
<1>3. InWindow(b) /\ rs[b].issued /\ ~ rs[b].completed
  BY <1>2, EventIs
<1>4. b[1] = "RUU" /\ Pos(b) \in 0 .. RUU_size - 1 /\ RuuAt(Pos(b)) = b
  BY <1>1, <1>2, Slots DEF Kinds
<1>5. Pos(b) < RUU_num
  BY <1>1, <1>3, <1>4, InFlightIs
<1>6. RUU_num \in Nat
  BY <1>1, AgensAre
<1>7. Pos(b) \in Nat /\ Pos(b) \in Window
  BY <1>4, <1>5, <1>6 DEF Window
<1>8. Pos(b) \in Branches
  BY <1>2, <1>3, <1>4, <1>7 DEF Branches
<1>9. spec_mode /\ \A p \in Window : rs[RuuAt(p)].spec_mode <=> p > Pos(b)
  BY <1>7, <1>8 DEF WrongPath
<1>10. ASSUME NEW p \in Branches
       PROVE  p = Pos(b)
  <2>1. p \in Window /\ p \in Nat
    BY <1>6 DEF Branches, Window
  <2>2. rs[RuuAt(p)].spec_mode <=> p > p
    BY <2>1 DEF WrongPath
  <2>3. rs[RuuAt(Pos(b))].spec_mode <=> Pos(b) > p
    BY <1>7, <2>1 DEF WrongPath
  <2>4. ~ (p > Pos(b)) /\ ~ (Pos(b) > Pos(b))
    BY <1>7, <1>9, <2>1, <2>2
  <2>5. ~ (Pos(b) > p)
    BY <1>7, <1>9, <2>3, <2>4
  <2> QED
    BY <1>7, <2>1, <2>4, <2>5
<1> QED
  BY <1>3, <1>4, <1>5, <1>7, <1>9, <1>10

\* The address computations behind the branch are those behind its rank.
LEMMA SquashedRank ==
  ASSUME RingsTyped, NEW b \in Stations, b[1] = "RUU", Pos(b) \in Nat, Pos(b) < RUU_num
  PROVE  /\ SquashedMem(b) \in Nat
         /\ RankIn(Agens, RUU_num) = RankIn(Agens, Pos(b) + 1) + SquashedMem(b)
<1> DEFINE B == Pos(b)
           S == {s \in SquashedRuu(b) : rs[s].ea_comp}
           T == {p \in Agens : p > B}
           A == Below(Agens, B + 1)
<1>1. /\ Agens \subseteq Nat /\ RUU_num \in Nat
      /\ \A p \in Nat : p \in Agens <=> p < RUU_num /\ rs[RuuAt(p)].ea_comp
      /\ Below(Agens, RUU_num) = Agens
  BY AgensAre
<1>2. B \in Nat /\ B + 1 \in Nat
  OBVIOUS
<1>3. \A s : s \in S <=> s \in Stations /\ s[1] = "RUU" /\ InWindow(s) /\ Pos(s) > B /\ rs[s].ea_comp
  BY DEF SquashedRuu
<1>4. \A p : p \in T <=> p \in Agens /\ p > B
  OBVIOUS
<1>5. \A p : p \in A <=> p \in Agens /\ p \in Nat /\ p < B + 1
  BY <1>1, <1>2, BelowIs
<1>6. SquashedMem(b) = Cardinality(S)
  BY DEF SquashedMem
<1>7. RankIn(Agens, RUU_num) = Cardinality(Agens) /\ RankIn(Agens, B + 1) = Cardinality(A)
  BY <1>1 DEF RankIn
<1>8. IsFiniteSet(Agens)
  BY <1>1, BelowFinite
<1> HIDE DEF S, T, A, B
<1>9. /\ \A p \in Agens : p \in Nat /\ p < RUU_num
      /\ A \subseteq Agens /\ T \subseteq Agens
  BY <1>1, <1>4, <1>5
<1>10. A \cup T = Agens /\ A \cap T = {}
  <2>1. \A p : p \in A \cup T <=> p \in Agens
    BY <1>2, <1>4, <1>5, <1>9
  <2>2. \A p : ~ (p \in A \cap T)
    BY <1>2, <1>4, <1>5
  <2> QED
    BY <2>1, <2>2, Zenon
<1>11. IsFiniteSet(A) /\ IsFiniteSet(T)
  BY <1>8, <1>9, FS_Subset
<1>12. /\ Cardinality(A \cup T) = Cardinality(A) + Cardinality(T) - Cardinality(A \cap T)
       /\ Cardinality(A) \in Nat /\ Cardinality(T) \in Nat
  BY <1>11, FS_Union, FS_CardinalityType
<1>13. Cardinality(Agens) = Cardinality(A) + Cardinality(T)
  <2>1. Cardinality(A \cap T) = 0
    BY <1>10, FS_EmptySet
  <2>2. Cardinality(Agens) = Cardinality(A) + Cardinality(T) - Cardinality(A \cap T)
    BY <1>10, <1>12, Zenon
  <2> QED
    BY <1>12, <2>1, <2>2
<1>14. Cardinality(S) = Cardinality(T)
  <2> DEFINE f == [p \in T |-> RuuAt(p)]
  <2>1. ASSUME NEW p \in T
        PROVE  p \in Window /\ p \in 0 .. RUU_size - 1 /\ RuuAt(p) \in S /\ Pos(RuuAt(p)) = p
    <3>1. p \in Nat /\ p < RUU_num /\ rs[RuuAt(p)].ea_comp /\ p > B
      BY <1>1, <1>4, <1>9
    <3>2. p \in Window
      BY <1>1, <3>1 DEF Window
    <3>3. p \in 0 .. RUU_size - 1 /\ InWindow(RuuAt(p))
      BY <3>2, InFlightIs
    <3>4. RuuAt(p) \in Stations /\ RuuAt(p)[1] = "RUU" /\ Pos(RuuAt(p)) = p
      BY <3>3, Slots
    <3> QED
      BY <1>3, <3>1, <3>2, <3>3, <3>4
  <2>2. ASSUME NEW s \in S
        PROVE  Pos(s) \in T /\ RuuAt(Pos(s)) = s
    <3>1. s \in Stations /\ s[1] = "RUU" /\ InWindow(s) /\ Pos(s) > B /\ rs[s].ea_comp
      BY <1>3
    <3>2. Pos(s) \in 0 .. RUU_size - 1 /\ RuuAt(Pos(s)) = s
      BY <3>1, Slots
    <3>3. Pos(s) < RUU_num
      BY <3>1, InFlightIs
    <3>4. Pos(s) \in Nat
      BY <3>2
    <3> QED
      BY <1>1, <1>4, <3>1, <3>2, <3>3, <3>4
  <2>3. f \in Bijection(T, S)
    <3>1. \A p \in T : f[p] = RuuAt(p)
      OBVIOUS
    <3>2. f \in [T -> S]
      BY <2>1
    <3> HIDE DEF f
    <3>3. \A p, q \in T : f[p] = f[q] => p = q
      BY <2>1, <3>1
    <3>4. \A s \in S : \E p \in T : f[p] = s
      BY <2>2, <3>1
    <3> QED
      BY <3>2, <3>3, <3>4, Fun_IsBij
  <2> QED
    BY <1>11, <2>3, FS_Bijection DEF ExistsBijection
<1> QED
  BY <1>6, <1>7, <1>12, <1>13, <1>14 DEF B

\* What recovery does to tails and numbers: the LSQ is cut at the rank of the branch.
LEMMA RecoverNumbers ==
  ASSUME TypeOK, Kinds, WrongPath, Counted, Accesses, NEW b \in Stations, Recover(b)
  PROVE  /\ RUU_num' = Pos(b) + 1 /\ RUU_head' = RUU_head /\ LSQ_head' = LSQ_head
         /\ SquashedMem(b) \in 0 .. LSQ_num /\ LSQ_num' = LSQ_num - SquashedMem(b)
         /\ LSQ_num' = RankIn(Agens, Pos(b) + 1) /\ LSQ_num' \in Nat /\ RUU_num' \in Nat
         /\ RUU_tail' = Res(b[2] + 1, RUU_size) /\ LSQ_tail' = Res(LSQ_tail - SquashedMem(b), LSQ_size)
         /\ code' = code /\ config' = config
         /\ RUU_num \in Nat /\ LSQ_num \in Nat
<1>1. RingsTyped
  BY RingsAreTyped
<1>2. b[1] = "RUU" /\ Pos(b) \in Nat /\ Pos(b) < RUU_num
  BY RecoverIs
<1>3. /\ SquashedMem(b) \in Nat
      /\ RankIn(Agens, RUU_num) = RankIn(Agens, Pos(b) + 1) + SquashedMem(b)
  BY <1>1, <1>2, SquashedRank
<1>4. Agens \subseteq Nat /\ RUU_num \in Nat /\ LSQ_num \in Nat
  BY <1>1, AgensAre
<1>5. RankIn(Agens, Pos(b) + 1) \in Nat
  <2>1. Pos(b) + 1 \in Nat
    BY <1>2
  <2> QED
    BY <1>4, <2>1, BelowFinite
<1>6. RankIn(Agens, RUU_num) = LSQ_num
  BY DEF Accesses
<1>7. /\ RUU_num' = Pos(b) + 1 /\ RUU_head' = RUU_head /\ LSQ_head' = LSQ_head
      /\ LSQ_num' = LSQ_num - SquashedMem(b)
      /\ RUU_tail' = Res(b[2] + 1, RUU_size) /\ LSQ_tail' = Res(LSQ_tail - SquashedMem(b), LSQ_size)
      /\ code' = code /\ config' = config
  BY DEF Recover, Res
<1>8. SquashedMem(b) \in 0 .. LSQ_num /\ LSQ_num - SquashedMem(b) = RankIn(Agens, Pos(b) + 1)
  BY <1>3, <1>4, <1>5, <1>6
<1>9. Pos(b) + 1 \in Nat
  BY <1>2
<1> QED
  BY <1>4, <1>5, <1>7, <1>8, <1>9

\* Recovery keeps every place and takes what it squashes out of the window.
LEMMA RecoverWindow ==
  ASSUME TypeOK, Kinds, WrongPath, Counted, Accesses, NEW b \in Stations, Recover(b)
  PROVE  /\ RingsTyped' /\ Stations' = Stations /\ LSQ_size' = LSQ_size
         /\ \A p : RuuAt(p)' = RuuAt(p) /\ LsqAt(p)' = LsqAt(p)
         /\ \A s \in Stations : InWindow(s)' <=> InWindow(s) /\ s \notin Squashed(b)
         /\ b \notin Squashed(b)
         /\ Rings => Rings'
<1>1. RingsTyped
  BY RingsAreTyped
<1>2. /\ RUU_size \in Nat \ {0} /\ LSQ_size \in Nat \ {0} /\ LSQ_size' = LSQ_size /\ Stations' = Stations
      /\ RUU_head \in 0 .. RUU_size - 1 /\ LSQ_head \in 0 .. LSQ_size - 1
      /\ RUU_num \in 0 .. RUU_size /\ LSQ_num \in 0 .. LSQ_size
  BY <1>1, SizeType, RecoverNumbers, StationsKept DEF RingsTyped
<1> DEFINE B == Pos(b)
           d == SquashedMem(b)
<1>3. /\ b[1] = "RUU" /\ B \in Nat /\ B < RUU_num /\ b = RuuAt(B) /\ InWindow(b)
  BY RecoverIs
<1>4. /\ RUU_num' = B + 1 /\ RUU_head' = RUU_head /\ LSQ_head' = LSQ_head
      /\ d \in 0 .. LSQ_num /\ LSQ_num' = LSQ_num - d
      /\ RUU_tail' = Res(b[2] + 1, RUU_size) /\ LSQ_tail' = Res(LSQ_tail - d, LSQ_size)
      /\ code' = code /\ config' = config
  BY RecoverNumbers
<1>5. B < RUU_size /\ B \in 0 .. RUU_size /\ b[2] = Res(RUU_head + B, RUU_size)
  BY <1>2, <1>3 DEF RuuAt, Res
<1>6. Squashed(b) = {s \in Stations : s[1] = "RUU" /\ InWindow(s) /\ Pos(s) > B}
                      \cup {s \in Stations : s[1] = "LSQ" /\ InWindow(s) /\ Pos(s) >= LSQ_num - d}
  BY DEF Squashed, SquashedRuu, SquashedLsq
<1> HIDE DEF B, d
<1>7. \A p : RuuAt(p)' = RuuAt(p) /\ LsqAt(p)' = LsqAt(p)
  BY <1>2, <1>4 DEF RuuAt, LsqAt
<1>8. \A s : Pos(s)' = Pos(s)
  BY <1>2, <1>4 DEF Pos
<1>9. ASSUME NEW s \in Stations
      PROVE  InWindow(s)' <=> InWindow(s) /\ s \notin Squashed(b)
  <2>1. s \in Squashed(b) <=> \/ s[1] = "RUU" /\ InWindow(s) /\ Pos(s) > B
                              \/ s[1] = "LSQ" /\ InWindow(s) /\ Pos(s) >= LSQ_num - d
    BY <1>6
  <2>2. /\ \/ s[1] = "RUU" /\ Pos(s) \in Int
           \/ s[1] = "LSQ" /\ Pos(s) \in Int
        /\ s[1] = "RUU" => (InWindow(s) <=> Pos(s) < RUU_num)
        /\ s[1] = "LSQ" => (InWindow(s) <=> Pos(s) < LSQ_num)
    BY <1>1, <1>2, Slots, InFlightIs
  <2>3. /\ s[1] = "RUU" => (InWindow(s)' <=> Pos(s) < RUU_num')
        /\ s[1] = "LSQ" => (InWindow(s)' <=> Pos(s) < LSQ_num')
    BY <1>8 DEF InWindow
  <2>4. CASE s[1] = "RUU"
    BY <1>3, <1>4, <1>2, <2>1, <2>2, <2>3, <2>4
  <2>5. CASE s[1] = "LSQ"
    BY <1>2, <1>4, <2>1, <2>2, <2>3, <2>5
  <2> QED
    BY <2>2, <2>4, <2>5
<1>10. b \notin Squashed(b)
  BY <1>3, <1>6 DEF B
<1>11. /\ RUU_tail' = Res(RUU_head' + RUU_num', RUU_size) /\ RUU_tail' \in 0 .. RUU_size - 1
  <2>1. Res(Res(RUU_head + B, RUU_size) + 1, RUU_size) = Res(RUU_head + (B + 1), RUU_size)
    BY <1>2, <1>5, RingTail
  <2>2. \A i \in 0 .. 2 * RUU_size - 1 : Res(i, RUU_size) \in 0 .. RUU_size - 1
    BY <1>2 DEF Res
  <2>3. RUU_head + (B + 1) \in 0 .. 2 * RUU_size - 1
    BY <1>2, <1>3, <1>5
  <2> QED
    BY <1>4, <1>5, <2>1, <2>2, <2>3
<1>12. LSQ_tail' \in 0 .. LSQ_size - 1
  <2>1. LSQ_tail - d \in Int
    BY <1>1, <1>2, <1>4 DEF RingsTyped
  <2> QED
    BY <1>2, <1>4, <2>1 DEF Res
<1>13. RingsTyped'
  <2>1. RUU_num' \in 0 .. RUU_size /\ LSQ_num' \in 0 .. LSQ_size
    BY <1>2, <1>3, <1>4, <1>5
  <2> QED
    BY <1>1, <1>2, <1>4, <1>11, <1>12, <2>1 DEF RingsTyped
<1>14. Rings => LSQ_tail' = Res(LSQ_head' + LSQ_num', LSQ_size)
  <2>1. Rings => LSQ_tail = Res(LSQ_head + LSQ_num, LSQ_size)
    BY DEF Rings, Res
  <2>2. Res(Res(LSQ_head + LSQ_num, LSQ_size) - d, LSQ_size) = Res(LSQ_head + (LSQ_num - d), LSQ_size)
    BY <1>2, <1>4, RingTail
  <2> QED
    BY <1>4, <2>1, <2>2
<1> QED
  BY <1>2, <1>7, <1>9, <1>10, <1>11, <1>13, <1>14 DEF Rings, Res

\* ruu_recover keeps the accesses of the LSQ in the order of their address computations.
LEMMA RecoverAccesses ==
  ASSUME TypeOK, Kinds, WrongPath, Counted, Accesses, NEW b \in Stations, Recover(b)
  PROVE  Accesses'
<1> DEFINE B == Pos(b)
<1>1. RingsTyped /\ RsTyped /\ TextKept
  BY RingsAreTyped, RecoverEffect
<1>2. /\ RUU_num' = B + 1 /\ LSQ_num' = RankIn(Agens, B + 1) /\ LSQ_num' \in Nat /\ RUU_num' \in Nat
      /\ B \in Nat /\ B < RUU_num
  BY RecoverNumbers, RecoverIs
<1>3. \A p : RuuAt(p)' = RuuAt(p) /\ LsqAt(p)' = LsqAt(p)
  BY RecoverWindow
<1> HIDE DEF B
<1>4. /\ Agens \subseteq Nat /\ RUU_num \in Nat
      /\ \A p \in Nat : p \in Agens <=> p < RUU_num /\ rs[RuuAt(p)].ea_comp
  BY <1>1, AgensAre
<1>5. Agens' \subseteq Nat /\ \A p \in Nat : p \in Agens' <=> p < RUU_num' /\ rs'[RuuAt(p)'].ea_comp
  BY <1>2, AgensNext
<1>6. ASSUME NEW p \in Nat
      PROVE  p \in Agens' <=> p \in Agens /\ p < B + 1
  <2>1. CASE p < B + 1
    <3>1. p < RUU_num /\ p \in Window
      BY <1>2, <1>4, <2>1 DEF Window
    <3>2. RuuAt(p) \in Stations
      BY <1>1, <3>1, InFlightIs
    <3>3. rs'[RuuAt(p)].ea_comp = rs[RuuAt(p)].ea_comp
      BY <1>1, <3>2 DEF TextKept, SameText
    <3> QED
      BY <1>2, <1>3, <1>4, <1>5, <2>1, <3>1, <3>3
  <2>2. CASE ~ (p < B + 1)
    BY <1>2, <1>5, <2>2
  <2> QED
    BY <2>1, <2>2
<1>7. ASSUME NEW p \in Nat, p <= B + 1
      PROVE  RankIn(Agens', p) = RankIn(Agens, p)
  <2>1. \A q \in Nat : q < p => (q \in Agens' <=> q \in Agens)
    BY <1>2, <1>6, <1>7
  <2> QED
    BY <1>4, <1>5, <2>1, RankAgree
<1>8. RankIn(Agens', RUU_num') = LSQ_num'
  BY <1>2, <1>7
<1>9. ASSUME NEW p \in Nat, NEW k \in Nat, p \in Agens', k = RankIn(Agens', p)
      PROVE  Matches(p, k)'
  <2>1. p \in Agens /\ p <= B + 1
    BY <1>2, <1>6, <1>9
  <2>2. k = RankIn(Agens, p)
    BY <1>7, <1>9, <2>1
  <2>3. p \in Window /\ k \in 0 .. LSQ_num - 1 /\ Matches(p, k)
    BY <1>1, <2>1, <2>2, AccessPlace DEF Accesses
  <2>4. RuuAt(p) \in Stations /\ LsqAt(k) \in Stations
    BY <1>1, <2>3, InFlightIs
  <2>5. RuuAt(p)' = RuuAt(p) /\ LsqAt(k)' = LsqAt(k)
    BY <1>3
  <2> QED
    BY <1>1, <2>3, <2>4, <2>5, MatchesMoved
<1>10. ASSUME NEW k \in 0 .. LSQ_num' - 1
       PROVE  \E p \in Agens' : RankIn(Agens', p) = k
  <2>1. k \in Nat /\ k < RankIn(Agens, B + 1)
    <3>1. PICK m \in Nat : m = LSQ_num'
      BY <1>2
    <3>2. k \in 0 .. m - 1
      BY <3>1
    <3>3. k \in Nat /\ k < m
      BY <3>2
    <3> QED
      BY <1>2, <3>1, <3>3
  <2>2. RankIn(Agens, B + 1) <= RankIn(Agens, RUU_num) /\ RankIn(Agens, B + 1) \in Nat
        /\ RankIn(Agens, RUU_num) \in Nat
    <3>1. B + 1 \in Nat /\ B + 1 <= RUU_num
      BY <1>2, <1>4
    <3> QED
      BY <1>4, <3>1, RankMono, BelowFinite
  <2>3. k \in 0 .. LSQ_num - 1
    BY <2>1, <2>2 DEF Accesses
  <2>4. PICK p \in Agens : RankIn(Agens, p) = k
    BY <2>3 DEF Accesses
  <2>5. p \in Nat
    BY <1>4
  <2>6. p < B + 1
    <3>1. ~ (p < B + 1) => RankIn(Agens, B + 1) <= RankIn(Agens, p)
      <4>1. B + 1 \in Nat /\ (~ (p < B + 1) => B + 1 <= p)
        BY <1>2, <2>5
      <4> QED
        BY <1>4, <2>5, <4>1, RankMono
    <3> QED
      BY <1>2, <2>1, <2>2, <2>4, <2>5, <3>1
  <2>7. p \in Agens' /\ RankIn(Agens', p) = k
    BY <1>2, <1>6, <1>7, <2>4, <2>5, <2>6
  <2> QED
    BY <2>7
<1> QED
  BY <1>2, <1>8, <1>9, <1>10, AccessesNext

\* ruu_recover keeps the wrong path at the tail of the window.
LEMMA RecoverWrongPath ==
  ASSUME TypeOK, Kinds, WrongPath, Counted, Accesses, NEW b \in Stations, Recover(b)
  PROVE  WrongPath'
<1> DEFINE B == Pos(b)
<1>1. RingsTyped /\ RsTyped /\ TextKept
  BY RingsAreTyped, RecoverEffect
<1>2. RUU_num' = B + 1 /\ B \in Nat /\ B < RUU_num /\ RUU_num \in Nat
  BY RecoverNumbers, RecoverIs
<1>3. /\ RuuAt(B) = b /\ \A p \in Window : rs[RuuAt(p)].spec_mode <=> p > B
      /\ \A p \in Branches : p = B
  BY RecoverIs
<1>4. \A s \in Stations : rs'[s].completed <=> rs[s].completed \/ (s = b /\ s \notin Squashed(b))
  BY RecoverEffect
<1>5. b \notin Squashed(b) /\ \A p : RuuAt(p)' = RuuAt(p)
  BY RecoverWindow
<1>6. spec_mode' = FALSE /\ use_spec_cv' = {}
  BY DEF Recover
<1> HIDE DEF B
<1>7. ASSUME NEW p \in Window'
      PROVE  p \in Window /\ p \in Nat /\ p <= B /\ RuuAt(p) \in Stations
  <2>1. Window' = 0 .. B
    BY <1>2 DEF Window
  <2>2. p \in Window /\ p \in Nat /\ p <= B
    BY <1>2, <2>1 DEF Window
  <2> QED
    BY <1>1, <2>2, InFlightIs
<1>8. \A p \in Window' : ~ rs'[RuuAt(p)'].spec_mode
  <2> TAKE p \in Window'
  <2>1. ~ rs[RuuAt(p)].spec_mode
    BY <1>2, <1>3, <1>7
  <2> QED
    BY <1>1, <1>5, <1>7, <2>1 DEF TextKept, SameText
<1>9. \A p \in Window' : ~ (rs'[RuuAt(p)'].recover_inst /\ ~ rs'[RuuAt(p)'].completed)
  <2> TAKE p \in Window'
  <2>1. CASE p = B
    BY <1>3, <1>4, <1>5, <2>1
  <2>2. CASE p # B
    <3>1. rs[RuuAt(p)].recover_inst => rs[RuuAt(p)].completed
      BY <1>3, <1>7, <2>2 DEF Branches
    <3> QED
      BY <1>1, <1>4, <1>5, <1>7, <3>1 DEF TextKept, SameText
  <2> QED
    BY <2>1, <2>2
<1>10. Branches' = {}
  BY <1>9 DEF Branches
<1> QED
  BY <1>6, <1>8, <1>10 DEF WrongPath

\* A tag that no link of a list carries is on none of its tails.
LEMMA TailNone ==
  ASSUME NEW S, NEW q \in Seq(S), q # <<>>, NEW s, NEW t, CountOf(q, s, t) = 0
  PROVE  CountOf(Tail(q), s, t) = 0
<1>1. /\ CountOf(q, s, t) = CountOf(Tail(q), s, t) + One(Head(q).rs = s /\ Head(q).tag = t)
      /\ CountOf(Tail(q), s, t) \in Nat
  BY CountTail
<1> DEFINE g == One(Head(q).rs = s /\ Head(q).tag = t)
<1>2. g \in Nat
  BY DEF One
<1> HIDE DEF g
<1> QED
  BY <1>1, <1>2 DEF g

\* Recovery keeps the links sound: what is squashed has no valid link, and no survivor
\* waits for it.
LEMMA RecoverChains ==
  ASSUME TypeOK, Kinds, WrongPath, Accesses, Lists, NEW b \in Stations, Recover(b)
  PROVE  LinkInv(rs, InFlight)'
<1>1. RingsTyped /\ RsTyped /\ rs \in [Stations -> Station]
  BY RingsAreTyped, RecoverEffect DEF TypeOK
<1>2. /\ \A s \in Stations : InWindow(s)' <=> InWindow(s) /\ s \notin Squashed(b)
      /\ Stations' = Stations
  BY RecoverWindow DEF Lists
<1>3. /\ \A s \in Stations : rs'[s].tag = IF s \in Squashed(b) THEN rs[s].tag + 1 ELSE rs[s].tag
      /\ \A s \in Stations, i \in 1 .. 2 :
              rs'[s].odep_list[i] = IF s \in Squashed(b) THEN <<>> ELSE rs[s].odep_list[i]
      /\ \A s \in Stations : rs'[s].idep_ready = rs[s].idep_ready
  BY RecoverEffect
<1> DEFINE off == [z \in Stations \X (1 .. 2) |-> 0]
<1>4. off \in [Stations \X (1 .. 2) -> {0, 1}]
  OBVIOUS
<1>5. \A s \in Stations, i \in 1 .. 2 : off[<<s, i>>] = 0
  OBVIOUS
<1> HIDE DEF off
<1>6. \A s \in Stations, i \in 1 .. 2 : \A j \in DOMAIN rs'[s].odep_list[i] :
        /\ j + off[<<s, i>>] \in DOMAIN rs[s].odep_list[i]
        /\ LinkAt(rs', s, i, j) = LinkAt(rs, s, i, j + off[<<s, i>>])
  <2> TAKE s \in Stations, i \in 1 .. 2
  <2> TAKE j \in DOMAIN rs'[s].odep_list[i]
  <2>0. DOMAIN << >> = {}
    OBVIOUS
  <2>1. rs'[s].odep_list[i] = rs[s].odep_list[i]
    <3>1. CASE s \in Squashed(b)
      BY <1>3, <2>0, <3>1
    <3> QED
      BY <1>3, <3>1
  <2>2. j \in Nat
    BY <1>1, <2>1, LinkTyped
  <2>3. j + off[<<s, i>>] = j
    <3>1. off[<<s, i>>] = 0
      BY <1>5
    <3> QED
      BY <2>2, <3>1
  <2> QED
    BY <2>1, <2>3 DEF LinkAt
<1>7. \A s \in Stations : rs'[s].tag \in {rs[s].tag, rs[s].tag + 1}
  BY <1>3
<1>8. \A s \in Stations, i \in 1 .. 2, j \in Nat :
           LET m == j + off[<<s, i>>]
               l == LinkAt(rs, s, i, m)
           IN  /\ j \in DOMAIN rs'[s].odep_list[i] /\ Waits(rs, s, i, m)
               /\ l.rs \in InFlight /\ ~ rs[l.rs].idep_ready[l.opnum]
               /\ rs'[l.rs].tag = rs[l.rs].tag
               => l.rs \in InFlight' /\ ~ rs'[l.rs].idep_ready[l.opnum]
  <2> TAKE s \in Stations, i \in 1 .. 2, j \in Nat
  <2> DEFINE m == j + off[<<s, i>>]
             l == LinkAt(rs, s, i, m)
  <2>1. SUFFICES ASSUME Waits(rs, s, i, m), l.rs \in InFlight, ~ rs[l.rs].idep_ready[l.opnum],
                        rs'[l.rs].tag = rs[l.rs].tag
                 PROVE  l.rs \in InFlight' /\ ~ rs'[l.rs].idep_ready[l.opnum]
    BY Zenon
  <2>2. m \in DOMAIN rs[s].odep_list[i]
    BY <2>1 DEF Waits
  <2>3. l.rs \in Stations /\ l.opnum \in 1 .. 3
    BY <1>1, <2>2, LinkTyped
  <2>4. ~ rs'[l.rs].idep_ready[l.opnum]
    BY <1>3, <2>1, <2>3
  <2>5. l.rs \notin Squashed(b)
    <3>1. rs[l.rs].tag \in Nat
      BY <1>1, <2>3 DEF Station
    <3>2. l.rs \in Squashed(b) => rs'[l.rs].tag = rs[l.rs].tag + 1
      BY <1>3, <2>3
    <3> HIDE DEF l
    <3> QED
      BY <2>1, <3>1, <3>2
  <2>6. l.rs \in InFlight'
    BY <1>1, <1>2, <2>1, <2>3, <2>5, InFlightIs DEF InFlight
  <2> QED
    BY <2>4, <2>6
<1> QED
  BY <1>1, <1>4, <1>6, <1>7, <1>8, ChainsCut DEF Lists

\* ruu_recover keeps the ready lists, the event queue and the links in agreement with
\* the stations.
LEMMA RecoverLists ==
  ASSUME TypeOK, Kinds, WrongPath, Accesses, Lists, NEW b \in Stations, Recover(b)
  PROVE  Lists'
<1>1. RingsTyped /\ RsTyped /\ TextKept /\ rs \in [Stations -> Station]
  BY RingsAreTyped, RecoverEffect DEF TypeOK
<1>2. /\ \A s \in Stations : InWindow(s)' <=> InWindow(s) /\ s \notin Squashed(b)
      /\ Stations' = Stations /\ b \notin Squashed(b)
  BY RecoverWindow DEF Lists
<1>3. /\ \A s \in Stations :
           /\ rs'[s].queued = rs[s].queued /\ rs'[s].issued = rs[s].issued
           /\ (rs'[s].completed <=> rs[s].completed \/ s = b)
           /\ rs'[s].idep_ready = rs[s].idep_ready
      /\ \A s \in Stations : rs'[s].tag = IF s \in Squashed(b) THEN rs[s].tag + 1 ELSE rs[s].tag
  <2>1. \A s \in Stations :
          /\ rs'[s].queued = rs[s].queued /\ rs'[s].issued = rs[s].issued
          /\ (rs'[s].completed <=> rs[s].completed \/ (s = b /\ s \notin Squashed(b)))
          /\ rs'[s].idep_ready = rs[s].idep_ready
    BY RecoverEffect
  <2> QED
    BY <1>2, <2>1, RecoverEffect
<1>4. /\ event_queue # <<>> /\ event_queue' = Tail(event_queue)
      /\ UNCHANGED <<ready_queue, node>>
      /\ InWindow(b) /\ rs[b].issued /\ ~ rs[b].completed
      /\ \A s \in Stations : /\ CountOf(event_queue', s, rs[s].tag) \in Nat
                             /\ EventCount(s) = CountOf(event_queue', s, rs[s].tag) + One(s = b)
  <2>1. Completes(b) /\ UNCHANGED <<ready_queue, node>>
    BY DEF Recover
  <2> QED
    BY <2>1, EventIs DEF Lists
<1>5. TagsGrow
  BY <1>1, <1>3, TagsDoGrow
<1>6. AllPast'
  BY <1>4, <1>5, PastSame DEF Lists, AllPast
<1>7. \A s \in Stations : OPERANDS_READY(s)' <=> OPERANDS_READY(s)
  BY <1>3 DEF OPERANDS_READY
<1>8. Flagged'
  <2>1. ASSUME NEW s \in Stations, InWindow(s)'
        PROVE  /\ rs'[s].queued => ~ rs'[s].issued
               /\ rs'[s].completed => rs'[s].issued
               /\ rs'[s].queued \/ rs'[s].issued => OPERANDS_READY(s)'
               /\ OPERANDS_READY(s)' /\ ~ rs'[s].queued /\ ~ rs'[s].issued => s[1] = "LSQ" /\ IsLoad(rs'[s].op)
    <3>1. InWindow(s) /\ rs'[s].op = rs[s].op
      BY <1>1, <1>2, <2>1 DEF TextKept, SameText
    <3>2. /\ rs[s].queued => ~ rs[s].issued
          /\ rs[s].completed => rs[s].issued
          /\ rs[s].queued \/ rs[s].issued => OPERANDS_READY(s)
          /\ OPERANDS_READY(s) /\ ~ rs[s].queued /\ ~ rs[s].issued => s[1] = "LSQ" /\ IsLoad(rs[s].op)
      BY <3>1 DEF Lists, Flagged
    <3>3. rs'[s].completed => rs[s].issued
      BY <1>3, <1>4, <3>2
    <3> QED
      BY <1>3, <1>7, <3>1, <3>2, <3>3
  <2> QED
    BY <1>2, <2>1 DEF Flagged, IsLoad
<1>9. Counted'
  <2>1. ASSUME NEW s \in Stations
        PROVE  /\ ReadyCount(s)' = One(InWindow(s)' /\ rs'[s].queued)
               /\ EventCount(s)' = One(InWindow(s)' /\ UnderWay(s)')
    <3>1. /\ ReadyCount(s) = One(InWindow(s) /\ rs[s].queued)
          /\ EventCount(s) = One(InWindow(s) /\ UnderWay(s))
      BY CountedIs DEF Lists
    <3>2. UnderWay(s)' <=> UnderWay(s) /\ s # b
      BY <1>3 DEF UnderWay
    <3>3. CASE s \in Squashed(b)
      <4>1. /\ ReadyCount(s)' = CountOf(ready_queue, s, rs[s].tag + 1) + CountOf(node, s, rs[s].tag + 1)
            /\ EventCount(s)' = CountOf(Tail(event_queue), s, rs[s].tag + 1)
        BY <1>3, <1>4, <3>3 DEF ReadyCount, EventCount
      <4>2. ReadyCount(s)' = 0 /\ EventCount(s)' = 0
        BY <1>4, <4>1, NextTagCounts, TailNone, QueuesTyped DEF Lists
      <4> QED
        BY <1>2, <3>3, <4>2 DEF One
    <3>4. CASE s \notin Squashed(b)
      <4>1. /\ ReadyCount(s)' = ReadyCount(s) /\ EventCount(s)' = CountOf(event_queue', s, rs[s].tag)
        BY <1>3, <1>4, <3>4 DEF ReadyCount, EventCount
      <4>2. ReadyCount(s)' = One(InWindow(s)' /\ rs'[s].queued)
        BY <1>2, <1>3, <3>1, <3>4, <4>1 DEF One
      <4>3. EventCount(s)' = One(InWindow(s)' /\ UnderWay(s)')
        <5>1. EventCount(s) = EventCount(s)' + One(s = b) /\ EventCount(s)' \in Nat
          BY <1>4, <4>1
        <5>2. CASE s = b
          <6>1. InWindow(s) /\ UnderWay(s)
            BY <1>4, <5>2 DEF UnderWay
          <6>2. EventCount(s) = 1 /\ One(s = b) = 1
            BY <3>1, <5>2, <6>1 DEF One
          <6>3. EventCount(s)' = 0
            BY <5>1, <6>2
          <6> QED
            BY <3>2, <5>2, <6>3 DEF One
        <5>3. CASE s # b
          <6>1. One(s = b) = 0
            BY <5>3 DEF One
          <6>2. EventCount(s)' = EventCount(s)
            BY <5>1, <6>1
          <6> QED
            BY <1>2, <3>1, <3>2, <3>4, <5>3, <6>2 DEF One
        <5> QED
          BY <5>2, <5>3
      <4> QED
        BY <4>2, <4>3
    <3> QED
      BY <3>3, <3>4
  <2>2. (Counted <=> \A s \in Stations : /\ ReadyCount(s) = One(InWindow(s) /\ rs[s].queued)
                                         /\ EventCount(s) = One(InWindow(s) /\ UnderWay(s)))'
    BY CountedIs, PTL
  <2> QED
    BY <1>2, <2>1, <2>2 DEF One
<1>10. MemoryOrder'
  <2>1. LSQ_num \in Nat /\ LSQ_num' \in Nat /\ LSQ_num' = LSQ_num - SquashedMem(b)
        /\ SquashedMem(b) \in 0 .. LSQ_num
    BY RecoverNumbers DEF Lists
  <2>2. \A p : LsqAt(p)' = LsqAt(p)
    BY RecoverWindow DEF Lists
  <2>3. ASSUME NEW p \in 0 .. LSQ_num' - 1
        PROVE  p \in Int /\ p + 0 = p /\ p \in 0 .. LSQ_num - 1 /\ LsqAt(p) \in Stations
    <3>1. p \in 0 .. (LSQ_num - SquashedMem(b)) - 1
      BY <2>1
    <3>2. p \in Int /\ p + 0 = p /\ p \in 0 .. LSQ_num - 1
      BY <2>1, <3>1
    <3> QED
      BY <1>1, <3>2, InFlightIs
  <2>4. \A p \in 0 .. LSQ_num' - 1 : OnItsWay(p)' => p + 0 \in 0 .. LSQ_num - 1 /\ OnItsWay(p + 0)
    BY <1>1, <1>3, <2>2, <2>3 DEF OnItsWay, TextKept, SameText, IsLoad
  <2>5. \A p \in 0 .. LSQ_num' - 1 : p + 0 \in 0 .. LSQ_num - 1 =>
           /\ LsqAt(p)' = LsqAt(p + 0) /\ SameText(rs'[LsqAt(p + 0)], rs[LsqAt(p + 0)])
           /\ \A k \in 1 .. 3 : rs[LsqAt(p + 0)].idep_ready[k] => rs'[LsqAt(p + 0)].idep_ready[k]
    BY <1>1, <1>3, <2>2, <2>3 DEF TextKept
  <2> QED
    BY <2>1, <2>4, <2>5, MemoryOrderMoved DEF Lists
<1>11. LinkInv(rs, InFlight)'
  BY RecoverChains
<1> QED
  BY <1>6, <1>8, <1>9, <1>10, <1>11 DEF Lists

-----------------------------------------------------------------------------
\* Dispatch: ruu_dispatch.

\* ruu_dispatch: what an instruction is, and whom its operands wait for.

\* An instruction of the text has an operation, registers and a target.
LEMMA TextTyped ==
  ASSUME TypeOK, NEW pc
  PROVE  /\ InstAt(pc) \in Instrs
         /\ InstAt(pc).op \in DOMAIN OpTable /\ InstAt(pc).out \in [1 .. 2 -> Regs \cup {NA}]
         /\ InstAt(pc).in \in [1 .. 3 -> Regs \cup {NA}] /\ InstAt(pc).target \in Nat
         /\ IsStore(InstAt(pc).op) => InstAt(pc).out = <<NA, NA>>
         /\ \A k \in 1 .. 3 : InstAt(pc).in[k] \in Regs \cup {NA} /\ InstAt(pc).in[k] # DTMP
<1>0. NA \in Named /\ Named \subseteq Regs \cup {NA} /\ DTMP \notin Named
  <2>1. NA # DTMP
    BY SizesAssumption DEF NA, DTMP
  <2> QED
    BY <2>1 DEF Named
<1>1. NOP \in Instrs
  <2>1. /\ NOP.op = "nop" /\ NOP.out = <<NA, NA>> /\ NOP.in = <<NA, NA, NA>> /\ NOP.target = 0
        /\ NOP = [op |-> "nop", out |-> <<NA, NA>>, in |-> <<NA, NA, NA>>, target |-> 0]
    BY DEF NOP
  <2>2. "nop" \in DOMAIN OpTable /\ ~ IsStore("nop")
    BY DEF OpTable, IsStore, MD_OP_FLAGS
  <2>3. <<NA, NA>> \in [1 .. 2 -> Named]
    BY <1>0, SMT
  <2>4. <<NA, NA, NA>> \in [1 .. 3 -> Named]
    BY <1>0, SMT
  <2>5. 0 \in Nat
    OBVIOUS
  <2>6. NOP \in [op : DOMAIN OpTable, out : [1 .. 2 -> Named], in : [1 .. 3 -> Named], target : Nat]
    BY <2>1, <2>2, <2>3, <2>4, <2>5, Zenon
  <2> QED
    BY <2>1, <2>2, <2>6 DEF Instrs
<1>2. code \in Seq(Instrs)
  BY ProgramAssumption DEF TypeOK
<1>3. InstAt(pc) \in Instrs
  BY <1>1, <1>2, ElementOfSeq, LenProperties DEF InstAt, InstOf
<1>4. /\ InstAt(pc).op \in DOMAIN OpTable /\ InstAt(pc).out \in [1 .. 2 -> Named]
      /\ InstAt(pc).in \in [1 .. 3 -> Named] /\ InstAt(pc).target \in Nat
      /\ IsStore(InstAt(pc).op) => InstAt(pc).out = <<NA, NA>>
  BY <1>3 DEF Instrs
<1>5. InstAt(pc).out \in [1 .. 2 -> Regs \cup {NA}] /\ InstAt(pc).in \in [1 .. 3 -> Regs \cup {NA}]
  BY <1>0, <1>4
<1>6. \A k \in 1 .. 3 : InstAt(pc).in[k] \in Named
  BY <1>4
<1> QED
  BY <1>0, <1>3, <1>4, <1>5, <1>6

\* The creator of a register is an output of a station, or none.
LEMMA CreatorTyped ==
  ASSUME CvTypes, NEW r \in Regs \cup {NA}
  PROVE  CreatorOf(r) \in CvEntry
BY DEF CreatorOf, CREATE_VECTOR, CvTypes, CvEntry

\* Chains of which some are dropped, and whose consumers are the same.
LEMMA LinkInvSub ==
  ASSUME NEW st \in [Stations -> Station], NEW st2 \in [Stations -> Station], NEW W, NEW W2, W \subseteq W2,
         \A s \in Stations : st2[s].tag = st[s].tag,
         \A s \in Stations, m \in 1 .. 3 : st2[s].idep_ready[m] = st[s].idep_ready[m],
         \A s \in Stations, i \in 1 .. 2 : st2[s].odep_list[i] \in {st[s].odep_list[i], <<>>},
         LinkInv(st, W)
  PROVE  /\ LinkInv(st2, W2)
         /\ \A x, k : Unlinked(st, x, k) => Unlinked(st2, x, k)
<1> DEFINE off == [z \in Stations \X (1 .. 2) |-> 0]
<1>1. off \in [Stations \X (1 .. 2) -> Int]
  OBVIOUS
<1>2. \A s \in Stations, i \in 1 .. 2 : off[<<s, i>>] = 0
  OBVIOUS
<1> HIDE DEF off
<1>3. ASSUME NEW s \in Stations, NEW i \in 1 .. 2, NEW j \in DOMAIN st2[s].odep_list[i]
      PROVE  /\ j \in DOMAIN st[s].odep_list[i] /\ LinkAt(st2, s, i, j) = LinkAt(st, s, i, j)
             /\ LinkAt(st, s, i, j).rs \in Stations /\ LinkAt(st, s, i, j).opnum \in 1 .. 3 /\ j \in Nat
  <2>0. DOMAIN << >> = {}
    OBVIOUS
  <2>1. st2[s].odep_list[i] = st[s].odep_list[i]
    BY <2>0
  <2>2. j \in DOMAIN st[s].odep_list[i] /\ LinkAt(st2, s, i, j) = LinkAt(st, s, i, j)
    BY <2>1 DEF LinkAt
  <2> QED
    BY <2>2, LinkTyped
<1>4. ASSUME NEW s \in Stations, NEW i \in 1 .. 2, NEW j \in Nat, Waits(st2, s, i, j)
      PROVE  Waits(st, s, i, j) /\ LinkAt(st2, s, i, j) = LinkAt(st, s, i, j)
             /\ LinkAt(st, s, i, j).rs \in Stations /\ LinkAt(st, s, i, j).opnum \in 1 .. 3
  <2>1. j \in DOMAIN st2[s].odep_list[i] /\ LinkAt(st2, s, i, j).tag = st2[LinkAt(st2, s, i, j).rs].tag
    BY <1>4 DEF Waits
  <2>2. /\ j \in DOMAIN st[s].odep_list[i] /\ LinkAt(st2, s, i, j) = LinkAt(st, s, i, j)
        /\ LinkAt(st, s, i, j).rs \in Stations /\ LinkAt(st, s, i, j).opnum \in 1 .. 3
    BY <1>3, <2>1
  <2>3. LinkAt(st, s, i, j).tag = st[LinkAt(st, s, i, j).rs].tag
    BY <2>1, <2>2
  <2> QED
    BY <2>2, <2>3 DEF Waits
<1>5. SubChains(st, st2, off)
  <2> SUFFICES ASSUME NEW s \in Stations, NEW i \in 1 .. 2, NEW j \in Nat, Waits(st2, s, i, j)
               PROVE  /\ j + off[<<s, i>>] \in Nat /\ Waits(st, s, i, j + off[<<s, i>>])
                      /\ LinkAt(st2, s, i, j) = LinkAt(st, s, i, j + off[<<s, i>>])
    BY DEF SubChains
  <2>1. off[<<s, i>>] = 0
    BY <1>2
  <2>2. j + off[<<s, i>>] = j
    BY <2>1
  <2> QED
    BY <1>4, <2>2
<1>6. Alone(st2)
  BY <1>1, <1>5, AloneSub DEF LinkInv
<1>7. \A x, k : Unlinked(st, x, k) => Unlinked(st2, x, k)
  BY <1>5, UnlinkedSub
<1>8. Wanted(st2, W2)
  <2> SUFFICES ASSUME NEW s \in Stations, NEW i \in 1 .. 2, NEW j \in Nat, Waits(st2, s, i, j),
                      NEW l, l = LinkAt(st2, s, i, j)
               PROVE  l.rs \in W2 /\ ~ st2[l.rs].idep_ready[l.opnum]
    BY DEF Wanted
  <2>1. Waits(st, s, i, j) /\ l = LinkAt(st, s, i, j) /\ l.rs \in Stations /\ l.opnum \in 1 .. 3
    BY <1>4
  <2>2. l.rs \in W /\ ~ st[l.rs].idep_ready[l.opnum]
    BY <2>1 DEF LinkInv, Wanted
  <2> QED
    BY <2>1, <2>2
<1>9. PastChains(st2)
  <2> SUFFICES ASSUME NEW s \in Stations, NEW i \in 1 .. 2, NEW j \in DOMAIN st2[s].odep_list[i]
               PROVE  LinkAt(st2, s, i, j).tag <= st2[LinkAt(st2, s, i, j).rs].tag
    BY DEF PastChains
  <2>1. /\ j \in DOMAIN st[s].odep_list[i] /\ LinkAt(st2, s, i, j) = LinkAt(st, s, i, j)
        /\ LinkAt(st, s, i, j).rs \in Stations
    BY <1>3
  <2>2. LinkAt(st, s, i, j).tag <= st[LinkAt(st, s, i, j).rs].tag
    BY <2>1 DEF LinkInv, PastChains
  <2> QED
    BY <2>1, <2>2
<1> QED
  BY <1>6, <1>7, <1>8, <1>9 DEF LinkInv

\* No chain has a valid link to a station that is not in the window.
LEMMA OutsideUnlinked ==
  ASSUME NEW st, NEW W, LinkInv(st, W), NEW x, x \notin W, NEW k
  PROVE  Unlinked(st, x, k)
BY DEF LinkInv, Wanted, Unlinked

-----------------------------------------------------------------------------
\* The window with the new entries at the tails.
RuuTail == <<"RUU", RUU_tail>>
LsqTail == <<"LSQ", LSQ_tail>>
Entering(mem) == {RuuTail} \cup IF mem THEN {LsqTail} ELSE {}
Extended(mem) ==
  /\ mem \in BOOLEAN /\ RUU_num < RUU_size /\ LSQ_num < LSQ_size
  /\ code' = code /\ config' = config /\ RUU_head' = RUU_head /\ LSQ_head' = LSQ_head
  /\ RUU_tail' = Res(RUU_tail + 1, RUU_size) /\ RUU_num' = RUU_num + 1
  /\ LSQ_tail' = IF mem THEN Res(LSQ_tail + 1, LSQ_size) ELSE LSQ_tail
  /\ LSQ_num' = IF mem THEN LSQ_num + 1 ELSE LSQ_num

\* The tails of the rings are free stations.
LEMMA TailsAre ==
  ASSUME RingsTyped, Rings, RUU_num < RUU_size, LSQ_num < LSQ_size
  PROVE  /\ RuuAt(RUU_num) = RuuTail /\ LsqAt(LSQ_num) = LsqTail
         /\ RuuTail \in Stations /\ LsqTail \in Stations
         /\ Pos(RuuTail) = RUU_num /\ Pos(LsqTail) = LSQ_num
         /\ RuuTail \notin InFlight /\ LsqTail \notin InFlight
         /\ RuuTail[1] = "RUU" /\ LsqTail[1] = "LSQ" /\ RuuTail # LsqTail
<1>1. RUU_num \in 0 .. RUU_size - 1 /\ LSQ_num \in 0 .. LSQ_size - 1
  BY SizeType DEF RingsTyped
<1>2. RuuAt(RUU_num) = RuuTail /\ LsqAt(LSQ_num) = LsqTail
  BY DEF RuuAt, LsqAt, RuuTail, LsqTail, Rings
<1>3. /\ RuuTail \in Stations /\ LsqTail \in Stations
      /\ Pos(RuuTail) = RUU_num /\ Pos(LsqTail) = LSQ_num
      /\ RuuTail[1] = "RUU" /\ LsqTail[1] = "LSQ"
  BY <1>1, <1>2, Slots
<1>4. RuuTail \notin InFlight /\ LsqTail \notin InFlight
  BY <1>1, <1>3, InFlightIs
<1> QED
  BY <1>2, <1>3, <1>4

\* ruu_dispatch keeps every place and takes the new entries into the window.
LEMMA ExtendedWindow ==
  ASSUME RingsTyped, Rings, NEW mem, Extended(mem)
  PROVE  /\ RingsTyped' /\ Rings' /\ Stations' = Stations /\ LSQ_size' = LSQ_size
         /\ \A p : RuuAt(p)' = RuuAt(p) /\ LsqAt(p)' = LsqAt(p)
         /\ \A s \in Stations : InWindow(s)' <=> InWindow(s) \/ s \in Entering(mem)
<1>1. /\ RUU_size \in Nat \ {0} /\ LSQ_size \in Nat \ {0} /\ LSQ_size' = LSQ_size /\ Stations' = Stations
      /\ RUU_head \in 0 .. RUU_size - 1 /\ LSQ_head \in 0 .. LSQ_size - 1
      /\ RUU_tail \in 0 .. RUU_size - 1 /\ LSQ_tail \in 0 .. LSQ_size - 1
      /\ RUU_num \in 0 .. RUU_size - 1 /\ LSQ_num \in 0 .. LSQ_size - 1
  BY SizeType, StationsKept DEF RingsTyped, Extended
<1>2. \A p : RuuAt(p)' = RuuAt(p) /\ LsqAt(p)' = LsqAt(p)
  BY <1>1 DEF RuuAt, LsqAt, Extended
<1>3. \A s : Pos(s)' = Pos(s)
  BY <1>1 DEF Pos, Extended
<1>4. /\ RUU_tail = Res(RUU_head + RUU_num, RUU_size) /\ LSQ_tail = Res(LSQ_head + LSQ_num, LSQ_size)
  BY DEF Rings, Res
<1>5. /\ Res(Res(RUU_head + RUU_num, RUU_size) + 1, RUU_size) = Res(RUU_head + (RUU_num + 1), RUU_size)
      /\ Res(Res(LSQ_head + LSQ_num, LSQ_size) + 1, LSQ_size) = Res(LSQ_head + (LSQ_num + 1), LSQ_size)
  <2>1. /\ RUU_num \in 0 .. RUU_size /\ RUU_num < RUU_size
        /\ LSQ_num \in 0 .. LSQ_size /\ LSQ_num < LSQ_size
    BY <1>1
  <2>2. Res(Res(RUU_head + RUU_num, RUU_size) + 1, RUU_size) = Res(RUU_head + (RUU_num + 1), RUU_size)
    BY ONLY <1>1, <2>1, RingTail
  <2>3. Res(Res(LSQ_head + LSQ_num, LSQ_size) + 1, LSQ_size) = Res(LSQ_head + (LSQ_num + 1), LSQ_size)
    BY ONLY <1>1, <2>1, RingTail
  <2> QED
    BY <2>2, <2>3
<1>6. /\ Res(RUU_tail + 1, RUU_size) \in 0 .. RUU_size - 1 /\ Res(LSQ_tail + 1, LSQ_size) \in 0 .. LSQ_size - 1
  BY <1>1 DEF Res
<1>7. RingsTyped'
  <2>1. RUU_num' \in 0 .. RUU_size /\ LSQ_num' \in 0 .. LSQ_size
    BY <1>1 DEF Extended
  <2> QED
    BY <1>1, <1>6, <2>1 DEF Extended, RingsTyped
<1>8. Rings'
  BY <1>1, <1>4, <1>5 DEF Extended, Rings, Res
<1>9. ASSUME NEW s \in Stations
      PROVE  InWindow(s)' <=> InWindow(s) \/ s \in Entering(mem)
  <2>1. /\ \/ s[1] = "RUU" /\ Pos(s) \in Int /\ RuuAt(Pos(s)) = s
           \/ s[1] = "LSQ" /\ Pos(s) \in Int /\ LsqAt(Pos(s)) = s
        /\ s[1] = "RUU" => (InWindow(s) <=> Pos(s) < RUU_num)
        /\ s[1] = "LSQ" => (InWindow(s) <=> Pos(s) < LSQ_num)
    BY <1>1, Slots, InFlightIs
  <2>2. /\ s[1] = "RUU" => (InWindow(s)' <=> Pos(s) < RUU_num')
        /\ s[1] = "LSQ" => (InWindow(s)' <=> Pos(s) < LSQ_num')
    BY <1>3 DEF InWindow
  <2>3. RUU_num < RUU_size /\ LSQ_num < LSQ_size
    BY DEF Extended
  <2>4. /\ RuuAt(RUU_num) = RuuTail /\ LsqAt(LSQ_num) = LsqTail
        /\ Pos(RuuTail) = RUU_num /\ Pos(LsqTail) = LSQ_num
        /\ RuuTail[1] = "RUU" /\ LsqTail[1] = "LSQ"
    BY <2>3, TailsAre
  <2>5. s[1] = "RUU" => (s \in Entering(mem) <=> Pos(s) = RUU_num)
    BY <2>1, <2>4 DEF Entering
  <2>6. s[1] = "LSQ" => (s \in Entering(mem) <=> mem /\ Pos(s) = LSQ_num)
    BY <2>1, <2>4 DEF Entering
  <2>7. CASE s[1] = "RUU"
    BY <1>1, <2>1, <2>2, <2>5, <2>7 DEF Extended
  <2>8. CASE s[1] = "LSQ"
    BY <1>1, <2>1, <2>2, <2>6, <2>8 DEF Extended
  <2> QED
    BY <2>1, <2>7, <2>8
<1> QED
  BY <1>1, <1>2, <1>7, <1>8, <1>9

IdepKept(s) == \A k \in 1 .. 3 : rs'[s].idep_ready[k] = rs[s].idep_ready[k]
Fresh(s) ==
  /\ ~ rs'[s].issued /\ ~ rs'[s].completed
  /\ rs'[s].queued \in BOOLEAN
  /\ rs'[s].queued <=> (\A k \in 1 .. 3 : rs'[s].idep_ready[k]) /\ (s[1] = "LSQ" => IsStore(rs'[s].op))
  /\ rs'[s].spec_mode = spec_mode
  /\ IsStore(rs'[s].op) => rs'[s].onames = <<NA, NA>>
EnteredText(mem) ==
  /\ ~ IsMem(rs'[RuuTail].op) /\ rs'[RuuTail].ea_comp = mem
  /\ rs'[RuuTail].PC = Head(fetch_data).regs_PC
  /\ rs'[RuuTail].recover_inst <=> spec_mode' /\ ~ spec_mode
  /\ mem => /\ IsMem(rs'[LsqTail].op) /\ ~ rs'[LsqTail].ea_comp /\ ~ rs'[LsqTail].recover_inst
            /\ rs'[LsqTail].PC = rs'[RuuTail].PC
  /\ spec_mode => spec_mode'
  /\ spec_mode' \in BOOLEAN
  /\ ~ spec_mode => use_spec_cv' = use_spec_cv
EnteredQueue(mem) ==
  /\ ready_queue' \in Seq(ReadyLinks)
  /\ \A s \in Stations : CountOf(ready_queue', s, rs[s].tag)
       = CountOf(ready_queue, s, rs[s].tag) + One(s \in Entering(mem) /\ rs'[s].queued)
  /\ \A i \in DOMAIN ready_queue' :
       \/ ready_queue'[i].rs \in Stations /\ ready_queue'[i].tag = rs[ready_queue'[i].rs].tag
       \/ \E j \in DOMAIN ready_queue : ready_queue'[i] = ready_queue[j]
Entered(mem) ==
  /\ RsTyped /\ TagsKept
  /\ \A s \in Stations : s \notin Entering(mem) =>
       SameText(rs'[s], rs[s]) /\ SameState(rs'[s], rs[s]) /\ IdepKept(s)
  /\ \A s \in Entering(mem) : Fresh(s)
  /\ EnteredText(mem)
  /\ LinkInv(rs', InFlight \cup Entering(mem))
  /\ EnteredQueue(mem)
  /\ event_queue' = event_queue /\ node' = node

\* An output is the creator of a register, for the instruction that is dispatched.
Creator(s, i) == \E r \in Regs : CreatorOf(r) = [rs |-> s, odep |-> i]

\* Only chains of creators, and that of the address computation, become nonempty.
ChainsAdded(mem) ==
  \A s \in Stations, i \in 1 .. 2 : rs[s].odep_list[i] = <<>> =>
    rs'[s].odep_list[i] = <<>> \/ Creator(s, i) \/ (mem /\ s = RuuTail /\ i = 1 /\ rs'[s].onames[1] # NA)

\* What enters creates the registers that its outputs name, in the vector of its path.
Installs(e, r, mem) ==
  \E x \in Entering(mem), i \in 1 .. 2 : e = [rs |-> x, odep |-> i] /\ rs'[x].onames[i] = r
CvInstalled(mem) ==
  \A r \in Regs :
    /\ create_vector'[r] = create_vector[r] \/ (~ spec_mode /\ Installs(create_vector'[r], r, mem))
    /\ r \in use_spec_cv' => \/ r \in use_spec_cv /\ spec_create_vector'[r] = spec_create_vector[r]
                             \/ spec_mode /\ Installs(spec_create_vector'[r], r, mem)

-----------------------------------------------------------------------------
Grown(q, r, s, b) ==
  /\ r \in Seq(ReadyLinks)
  /\ \A t \in Stations : CountOf(r, t, rs[t].tag) = CountOf(q, t, rs[t].tag) + One(t = s /\ b)
  /\ \A i \in DOMAIN r : \/ r[i].rs = s /\ r[i].tag = rs[s].tag
                         \/ \E j \in DOMAIN q : r[i] = q[j]

\* A list to which an entry is added if it is ready.
LEMMA MaybeEnqueued ==
  ASSUME NEW q \in Seq(ReadyLinks), NEW s \in Stations, NEW st, st.tag = rs[s].tag, st.tag \in Nat,
         st.seq \in Nat, NEW b \in BOOLEAN
  PROVE  Grown(q, IF b THEN readyq_enqueue(q, s, st) ELSE q, s, b)
<1>1. PICK e \in ReadyLinks : e.rs = s /\ e.tag = st.tag
                              /\ OneMore(ReadyLinks, q, readyq_enqueue(q, s, st), e)
  BY ReadyEnqueued
<1>2. CASE b
  <2> DEFINE r == readyq_enqueue(q, s, st)
  <2>1. /\ r \in Seq(ReadyLinks)
        /\ \A i \in DOMAIN r : r[i] = e \/ \E j \in DOMAIN q : r[i] = q[j]
        /\ \A t, g : CountOf(r, t, g) = CountOf(q, t, g) + One(e.rs = t /\ e.tag = g)
    BY <1>1 DEF OneMore
  <2> HIDE DEF r
  <2>2. ASSUME NEW t \in Stations
        PROVE  CountOf(r, t, rs[t].tag) = CountOf(q, t, rs[t].tag) + One(t = s /\ b)
    <3>1. (e.rs = t /\ e.tag = rs[t].tag) <=> (t = s /\ b)
      BY <1>1, <1>2
    <3>2. One(e.rs = t /\ e.tag = rs[t].tag) = One(t = s /\ b)
      BY <3>1 DEF One
    <3> QED
      BY <2>1, <3>2
  <2>3. Grown(q, r, s, b)
    BY <1>1, <2>1, <2>2 DEF Grown
  <2> QED
    BY <1>2, <2>3 DEF r
<1>3. CASE ~ b
  <2>1. ASSUME NEW t \in Stations
        PROVE  CountOf(q, t, rs[t].tag) = CountOf(q, t, rs[t].tag) + One(t = s /\ b)
    <3>1. CountOf(q, t, rs[t].tag) \in Nat
      BY CountType
    <3>2. One(t = s /\ b) = 0
      BY <1>3 DEF One
    <3> QED
      BY <3>1, <3>2
  <2> QED
    BY <1>3, <2>1 DEF Grown
<1> QED
  BY <1>2, <1>3

\* One station is queued or not, and nothing else changes.
Marked(st, x, v) == [st EXCEPT ![x].queued = v]
\* A station marked as queued, or not, keeps all else.
LEMMA MarkQueued ==
  ASSUME NEW st \in [Stations -> Station], NEW x \in Stations, NEW v \in BOOLEAN,
         NEW st2, st2 = Marked(st, x, v)
  PROVE  /\ st2 \in [Stations -> Station]
         /\ \A s \in Stations : /\ SameText(st2[s], st[s]) /\ SameChains(st2[s], st[s])
                                /\ st2[s].tag = st[s].tag
                                /\ st2[s].issued = st[s].issued /\ st2[s].completed = st[s].completed
                                /\ st2[s].queued = IF s = x THEN v ELSE st[s].queued
<1> DEFINE a == [st[x] EXCEPT !.queued = v]
<1>1. st[x] \in Station
  OBVIOUS
<1>2. /\ a \in Station /\ SameText(a, st[x]) /\ SameChains(a, st[x]) /\ a.tag = st[x].tag
      /\ a.queued = v /\ a.issued = st[x].issued /\ a.completed = st[x].completed
  BY <1>1, QueuedField
<1>3. st2 = [st EXCEPT ![x] = a]
  BY DEF Marked
<1> HIDE DEF a
<1>4. st2 \in [Stations -> Station] /\ st2[x] = a /\ \A s \in Stations : s # x => st2[s] = st[s]
  BY <1>2, <1>3
<1>5. \A b : SameText(b, b) /\ SameChains(b, b)
  BY DEF SameText, SameChains
<1> QED
  BY <1>2, <1>4, <1>5

\* The fetch queue has room for an instruction.
LEMMA WidthType == ruu_ifq_size \in Nat \ {0}
BY SizesAssumption DEF PowersOfTwo

\* Head and tail of a list that is not empty.
LEMMA SeqParts ==
  ASSUME NEW S, NEW q \in Seq(S), q # <<>>
  PROVE  Head(q) \in S /\ Tail(q) \in Seq(S) /\ Len(q) \in Nat \ {0} /\ Len(Tail(q)) = Len(q) - 1
         /\ \A i \in DOMAIN Tail(q) : i + 1 \in DOMAIN q /\ Tail(q)[i] = q[i + 1]
OBVIOUS

\* The first fetched instruction has a place and a predicted successor.
LEMMA FetchedTyped ==
  ASSUME TypeOK, fetch_data # <<>>
  PROVE  /\ Head(fetch_data).regs_PC \in Nat /\ Head(fetch_data).pred_PC \in Nat
         /\ Head(fetch_data) \in [regs_PC : Nat, pred_PC : Nat]
         /\ Tail(fetch_data) \in Seq([regs_PC : Nat, pred_PC : Nat])
         /\ Len(Tail(fetch_data)) <= ruu_ifq_size
<1>1. /\ fetch_data \in Seq([regs_PC : Nat, pred_PC : Nat]) /\ Len(fetch_data) <= ruu_ifq_size
  BY DEF TypeOK
<1>2. /\ Head(fetch_data) \in [regs_PC : Nat, pred_PC : Nat]
      /\ Tail(fetch_data) \in Seq([regs_PC : Nat, pred_PC : Nat])
      /\ Len(fetch_data) \in Nat \ {0} /\ Len(Tail(fetch_data)) = Len(fetch_data) - 1
  BY <1>1, SeqParts
<1> QED
  BY ONLY <1>1, <1>2, WidthType

\* NULL is no station.
LEMMA NotNull ==
  ASSUME RingsTyped
  PROVE  NULL \notin Stations
BY Slots DEF NULL

\* A chain that no register has as creator gets no link.
LEMMA NotCreator ==
  ASSUME CvTypes, NEW r \in Regs \cup {NA}, NEW s \in Stations, NEW i \in 1 .. 2, ~ Creator(s, i)
  PROVE  s = CreatorOf(r).rs => i # CreatorOf(r).odep
<1>1. CASE r = NA
  BY <1>1, NotNull DEF CreatorOf, CVLINK_NULL
<1>2. CASE r \in Regs
  <2>1. CreatorOf(r) \in CvEntry
    BY CreatorTyped
  <2>2. CASE CreatorOf(r) = CVLINK_NULL
    BY <2>2, NotNull DEF CVLINK_NULL
  <2>3. CASE CreatorOf(r) # CVLINK_NULL
    <3>1. CreatorOf(r) = [rs |-> CreatorOf(r).rs, odep |-> CreatorOf(r).odep]
      BY <2>1, <2>3 DEF CvEntry
    <3>2. CreatorOf(r) # [rs |-> s, odep |-> i]
      BY <1>2 DEF Creator
    <3> QED
      BY <3>1, <3>2, Zenon
  <2> QED
    BY <2>2, <2>3
<1> QED
  BY <1>1, <1>2

\* ruu_install_odep: an entry of the create vector stays, or is an output of x.
LEMMA OdepIs ==
  ASSUME NEW cv, NEW x, NEW names, NEW r \in Regs
  PROVE  \/ ruu_install_odep(cv, x, names)[r] = cv[r] /\ r # names[1] /\ r # names[2]
         \/ \E i \in 1 .. 2 : ruu_install_odep(cv, x, names)[r] = [rs |-> x, odep |-> i] /\ names[i] = r
<1>1. 1 \in 1 .. 2 /\ 2 \in 1 .. 2
  OBVIOUS
<1> QED
  BY <1>1 DEF ruu_install_odep

Replaced(st, x, a) == [st EXCEPT ![x] = a]
FillsIn(st, st2, x, a, W2) ==
  /\ st2 \in [Stations -> Station] /\ st2[x] = a /\ \A s \in Stations : s # x => st2[s] = st[s]
  /\ \A s \in Stations : st2[s].tag = st[s].tag
  /\ LinkInv(st2, W2)
  /\ \A y, k : Unlinked(st, y, k) => Unlinked(st2, y, k)
\* Filling in a station that is not in the window keeps the links sound.
LEMMA FilledIn ==
  ASSUME NEW st \in [Stations -> Station], NEW x \in Stations, NEW a \in Station,
         a.tag = st[x].tag, a.idep_ready = st[x].idep_ready,
         \A i \in 1 .. 2 : a.odep_list[i] \in {st[x].odep_list[i], <<>>},
         NEW W, NEW W2, W \subseteq W2, LinkInv(st, W), NEW st2, st2 = Replaced(st, x, a)
  PROVE  FillsIn(st, st2, x, a, W2)
<1>1. st2 \in [Stations -> Station] /\ st2[x] = a /\ \A s \in Stations : s # x => st2[s] = st[s]
  BY DEF Replaced
<1>2. \A s \in Stations : st2[s].tag = st[s].tag
  BY <1>1
<1>3. \A s \in Stations, m \in 1 .. 3 : st2[s].idep_ready[m] = st[s].idep_ready[m]
  BY <1>1
<1>4. \A s \in Stations, i \in 1 .. 2 : st2[s].odep_list[i] \in {st[s].odep_list[i], <<>>}
  BY <1>1
<1>5. LinkInv(st2, W2) /\ \A y, k : Unlinked(st, y, k) => Unlinked(st2, y, k)
  BY <1>1, <1>2, <1>3, <1>4, LinkInvSub
<1> QED
  BY <1>1, <1>2, <1>5 DEF FillsIn

\* Marking a station as queued keeps the links sound.
LEMMA MarkLinked ==
  ASSUME NEW st \in [Stations -> Station], NEW x \in Stations, NEW v \in BOOLEAN,
         NEW st2, st2 = Marked(st, x, v), NEW W, LinkInv(st, W)
  PROVE  LinkInv(st2, W)
<1>1. /\ st2 \in [Stations -> Station]
      /\ \A s \in Stations : SameChains(st2[s], st[s]) /\ st2[s].tag = st[s].tag
  BY MarkQueued
<1>2. \A s \in Stations, m \in 1 .. 3 : st2[s].idep_ready[m] = st[s].idep_ready[m]
  BY <1>1 DEF SameChains
<1>3. \A s \in Stations, i \in 1 .. 2 : st2[s].odep_list[i] \in {st[s].odep_list[i], <<>>}
  BY <1>1 DEF SameChains
<1> QED
  BY <1>1, <1>2, <1>3, LinkInvSub

-----------------------------------------------------------------------------
AllReady(st, x) == \A k \in 1 .. 3 : st[x].idep_ready[k]
OpStation(pc, npc) ==
  Filled(RuuTail, InstAt(pc).op, pc, FALSE, Mispredicted(npc), 0, inst_seq + 1, InstAt(pc).out)
OpFilled(pc, npc) == [rs EXCEPT ![RuuTail] = OpStation(pc, npc)]
OpLinked(pc, npc) ==
  LinkAll(OpFilled(pc, npc), RuuTail, CreatorOf(InstAt(pc).in[1]), CreatorOf(InstAt(pc).in[2]),
          CreatorOf(InstAt(pc).in[3]))
OpEnters(pc, npc) ==
  /\ npc \in NextPCs(code, pc) /\ pc = Head(fetch_data).regs_PC
  /\ ~ IsMem(InstAt(pc).op)
  /\ Execute(npc)
  /\ rs' = [OpLinked(pc, npc) EXCEPT ![RuuTail].queued = AllReady(OpLinked(pc, npc), RuuTail)]
  /\ ready_queue' = IF AllReady(OpLinked(pc, npc), RuuTail)
                    THEN readyq_enqueue(ready_queue, RuuTail, OpFilled(pc, npc)[RuuTail]) ELSE ready_queue
  /\ inst_seq' = inst_seq + 1
  /\ stage' \in {"panic", "dispatch"}
  /\ last_op' \in {RSLINK_NULL, [rs |-> RuuTail, tag |-> rs[RuuTail].tag]}
  /\ \E ready \in BOOLEAN, waits \in SUBSET (1 .. 3) : 
       free_links' = free_links - IF ready THEN 1 ELSE Cardinality(waits)
  /\ Install(LAMBDA cv : ruu_install_odep(cv, RuuTail, InstAt(pc).out),
             {InstAt(pc).out[1], InstAt(pc).out[2]} \ {NA})

OpMissing(pc, npc) == {k \in 1 .. 3 : ~ OpLinked(pc, npc)[RuuTail].idep_ready[k]}
OpStep(pc, npc) ==
  LET ready == OpMissing(pc, npc) = {}
  IN  /\ InstAt(pc).op # "nop" /\ ~ IsMem(InstAt(pc).op)
      /\ Execute(npc)
      /\ rs' = [OpLinked(pc, npc) EXCEPT ![RuuTail].queued = ready]
      /\ Install(LAMBDA cv : ruu_install_odep(cv, RuuTail, InstAt(pc).out),
                 {InstAt(pc).out[1], InstAt(pc).out[2]} \ {NA})
      /\ ready_queue' = IF ready THEN readyq_enqueue(ready_queue, RuuTail, OpFilled(pc, npc)[RuuTail])
                        ELSE ready_queue
      /\ free_links' = free_links - IF ready THEN 1 ELSE Cardinality(OpMissing(pc, npc))
      /\ last_op' = IF ready THEN RSLINK_NULL ELSE [rs |-> RuuTail, tag |-> rs[RuuTail].tag]
      /\ inst_seq' = inst_seq + 1
      /\ stage' = IF (InstAt(pc).op = "syscall" /\ spec_mode) \/ free_links' < 0 THEN "panic" ELSE "dispatch"

\* An instruction without access is dispatched as OpStep has it.
LEMMA OpStepIs ==
  ASSUME DispatchOp
  PROVE  \E pc, npc : pc = Head(fetch_data).regs_PC /\ npc \in NextPCs(code, pc) /\ OpStep(pc, npc)
<1>1. \E pc \in {Head(fetch_data).regs_PC} : \E npc \in NextPCs(code, pc) : OpStep(pc, npc)
  BY Zenon DEF DispatchOp, OpStep, OpMissing, OpLinked, LinkAll, OpFilled, OpStation, RuuTail
<1> QED
  BY <1>1

\* DispatchOp, without the choices that do not matter here.
LEMMA DispatchOpIs ==
  ASSUME DispatchOp
  PROVE  \E pc, npc : OpEnters(pc, npc)
<1>2. PICK pc, npc : pc = Head(fetch_data).regs_PC /\ npc \in NextPCs(code, pc) /\ OpStep(pc, npc)
  BY OpStepIs
<1> DEFINE L == OpLinked(pc, npc)
           waits == OpMissing(pc, npc)
<1>3. (waits = {}) = AllReady(L, RuuTail)
  BY DEF AllReady, OpMissing
<1>4. waits \in SUBSET (1 .. 3) /\ (waits = {}) \in BOOLEAN
  BY DEF OpMissing
<1>5. OpEnters(pc, npc)
  BY <1>2, <1>3, <1>4 DEF OpEnters, OpStep
<1> QED
  BY <1>5

\* An access is a load or a store.
LEMMA OpNames ==
  ASSUME NEW op \in DOMAIN OpTable
  PROVE  IsMem(op) <=> IsLoad(op) \/ IsStore(op)
BY DEF OpTable, IsMem, IsLoad, IsStore, MD_OP_FLAGS

\* The successor of an instruction is a place.
LEMMA NextPcsTyped ==
  ASSUME TypeOK, NEW pc \in Nat, NEW npc \in NextPCs(code, pc)
  PROVE  npc \in Nat
<1>1. InstAt(pc).target \in Nat
  BY TextTyped
<1>2. code \in Seq(Instrs)
  BY ProgramAssumption DEF TypeOK
<1>3. DOMAIN code \subseteq Nat
  BY <1>2
<1>4. \A i : NextPCs(code, pc) \subseteq {pc + 1} \cup DOMAIN code \cup {InstAt(pc).target}
  BY DEF NextPCs, InstAt
<1> QED
  BY <1>1, <1>3, <1>4

\* What is filled in and linked, of the entries that enter.
New(st, x, op, pc, mem, recover, names) ==
  /\ st[x].op = op /\ st[x].PC = pc /\ st[x].ea_comp = mem /\ st[x].recover_inst = recover
  /\ st[x].spec_mode = spec_mode /\ st[x].onames = names
  /\ ~ st[x].issued /\ ~ st[x].completed

\* A new entry is not under way, and queued exactly if it may be.
LEMMA NewFresh ==
  ASSUME NEW x, NEW op, NEW pc, NEW mem, NEW recover, NEW names,
         New(rs', x, op, pc, mem, recover, names),
         rs'[x].queued \in BOOLEAN,
         rs'[x].queued <=> AllReady(rs', x) /\ (x[1] = "LSQ" => IsStore(op)),
         IsStore(op) => names = <<NA, NA>>
  PROVE  Fresh(x)
BY DEF New, Fresh, AllReady

\* The entry that an instruction without access gets.
LEMMA OpStationIs ==
  ASSUME TypeOK, NEW pc, NEW npc, pc = Head(fetch_data).regs_PC, fetch_data # <<>>, RuuTail \in Stations
  PROVE  IsFilled(OpStation(pc, npc), RuuTail, InstAt(pc).op, pc, FALSE, Mispredicted(npc), 0,
                  inst_seq + 1, InstAt(pc).out)
<1> DEFINE x == RuuTail
           i == InstAt(pc)
           mis == Mispredicted(npc)
           a == OpStation(pc, npc)
<1>1. /\ rs[x] \in Station /\ pc \in Nat /\ inst_seq + 1 \in Nat /\ spec_mode \in BOOLEAN /\ x \in Stations
  <2>1. pc \in Nat
    BY FetchedTyped
  <2>2. rs \in [Stations -> Station] /\ inst_seq \in Nat /\ spec_mode \in BOOLEAN
    BY DEF TypeOK
  <2> QED
    BY <2>1, <2>2
<1>2. i.op \in DOMAIN OpTable /\ i.out \in [1 .. 2 -> Regs \cup {NA}]
  BY TextTyped
<1>3. mis \in BOOLEAN
  BY <1>1 DEF Mispredicted
<1>4. FALSE \in BOOLEAN /\ 0 \in Nat
  OBVIOUS
<1>5. a = Filled(x, i.op, pc, FALSE, mis, 0, inst_seq + 1, i.out)
  BY DEF OpStation
<1> HIDE DEF x, i, mis, a
<1>6. IsFilled(Filled(x, i.op, pc, FALSE, mis, 0, inst_seq + 1, i.out), x, i.op, pc, FALSE, mis, 0,
               inst_seq + 1, i.out)
  BY ONLY <1>1, <1>2, <1>3, <1>4, FilledFields
<1>7. IsFilled(a, x, i.op, pc, FALSE, mis, 0, inst_seq + 1, i.out)
  BY <1>5, <1>6, Zenon
<1> QED
  BY <1>7 DEF x, i, mis, a

\* What ruu_dispatch does with an instruction that is no access.
LEMMA OpEntered ==
  ASSUME TypeOK, CvTypes, Rings, LinkInv(rs, InFlight), NEW pc, NEW npc, OpEnters(pc, npc),
         fetch_data # <<>>, RUU_num < RUU_size, LSQ_num < LSQ_size,
         event_queue' = event_queue, node' = node, config' = config
  PROVE  Entered(FALSE) /\ ChainsAdded(FALSE) /\ CvInstalled(FALSE)
<1> DEFINE x == RuuTail
           W == InFlight \cup {RuuTail}
           i == InstAt(pc)
           mis == Mispredicted(npc)
           a == OpStation(pc, npc)
           st1 == OpFilled(pc, npc)
           st2 == OpLinked(pc, npc)
           ready == AllReady(st2, x)
<1>1. /\ RingsTyped /\ rs \in [Stations -> Station] /\ pc \in Nat /\ inst_seq \in Nat
      /\ spec_mode \in BOOLEAN
  BY RingsAreTyped, FetchedTyped DEF TypeOK, OpEnters
<1>2. x \in Stations /\ x \notin InFlight /\ x[1] = "RUU" /\ Entering(FALSE) = {x}
  BY <1>1, TailsAre DEF Entering
<1>3. /\ i.op \in DOMAIN OpTable /\ i.out \in [1 .. 2 -> Regs \cup {NA}]
      /\ i.in \in [1 .. 3 -> Regs \cup {NA}] /\ (IsStore(i.op) => i.out = <<NA, NA>>)
  BY TextTyped
<1>4. mis \in BOOLEAN /\ inst_seq + 1 \in Nat
  BY <1>1 DEF Mispredicted
<1>5. /\ a \in Station /\ a.op = i.op /\ a.PC = pc /\ a.ea_comp = FALSE /\ a.recover_inst = mis
      /\ a.spec_mode = spec_mode /\ a.onames = i.out /\ a.seq = inst_seq + 1
      /\ a.tag = rs[x].tag /\ ~ a.queued /\ ~ a.issued /\ ~ a.completed
      /\ a.idep_ready = rs[x].idep_ready
      /\ \A k \in 1 .. 2 : a.odep_list[k] \in {rs[x].odep_list[k], <<>>}
  <2>1. IsFilled(a, x, i.op, pc, FALSE, mis, 0, inst_seq + 1, i.out)
    <3>1. pc = Head(fetch_data).regs_PC
      BY DEF OpEnters
    <3> QED
      BY <1>2, <3>1, OpStationIs
  <2> HIDE DEF x, i, mis, a
  <2> QED
    BY <2>1 DEF IsFilled
<1>6. st1 = Replaced(rs, x, a) /\ W = InFlight \cup {x}
  BY DEF OpFilled, Replaced
<1>7. /\ CreatorOf(i.in[1]) \in CvEntry /\ CreatorOf(i.in[2]) \in CvEntry /\ CreatorOf(i.in[3]) \in CvEntry
  BY <1>3, CreatorTyped
<1>8. st2 = LinkAll(st1, x, CreatorOf(i.in[1]), CreatorOf(i.in[2]), CreatorOf(i.in[3]))
  BY DEF OpLinked
<1>9. /\ rs' = Marked(st2, x, ready)
      /\ ready_queue' = IF ready THEN readyq_enqueue(ready_queue, x, st1[x]) ELSE ready_queue
      /\ ~ IsMem(i.op) /\ ready \in BOOLEAN
  BY DEF OpEnters, AllReady, Marked
<1>9a. ready = AllReady(st2, x)
  OBVIOUS
<1> HIDE DEF x, W, a, st1, st2, ready
<1>10. \A k : Unlinked(rs, x, k)
  BY <1>2, OutsideUnlinked
<1>11. /\ st1 \in [Stations -> Station] /\ st1[x] = a /\ \A s \in Stations : s # x => st1[s] = rs[s]
       /\ \A s \in Stations : st1[s].tag = rs[s].tag
       /\ LinkInv(st1, W)
       /\ \A k : Unlinked(st1, x, k)
  <2>1. InFlight \subseteq W
    BY <1>6
  <2>2. FillsIn(rs, st1, x, a, W)
    BY <1>1, <1>2, <1>5, <1>6, <2>1, FilledIn
  <2> QED
    BY <1>10, <2>2 DEF FillsIn
<1>12. OperandsLinked(st1, st2, x, CreatorOf(i.in[1]), CreatorOf(i.in[2]), CreatorOf(i.in[3]))
  BY <1>2, <1>5, <1>7, <1>8, <1>11, AllLinked
<1>13. /\ st2 \in [Stations -> Station]
       /\ \A s \in Stations : SameText(st2[s], st1[s]) /\ SameState(st2[s], st1[s]) /\ st2[s].tag = st1[s].tag
       /\ \A s \in Stations, m \in 1 .. 3 : s # x => st2[s].idep_ready[m] = st1[s].idep_ready[m]
       /\ LinkInv(st2, W)
  BY <1>6, <1>11, <1>12 DEF OperandsLinked
<1>14. /\ rs' \in [Stations -> Station]
       /\ \A s \in Stations : /\ SameText(rs'[s], st2[s]) /\ SameChains(rs'[s], st2[s])
                              /\ rs'[s].tag = st2[s].tag
                              /\ rs'[s].issued = st2[s].issued /\ rs'[s].completed = st2[s].completed
                              /\ rs'[s].queued = IF s = x THEN ready ELSE st2[s].queued
  BY <1>2, <1>9, <1>13, MarkQueued
<1>15. LinkInv(rs', W)
  BY <1>2, <1>9, <1>13, MarkLinked
<1>16. RsTyped /\ TagsKept
  BY <1>11, <1>13, <1>14, StationsKept DEF RsTyped, TagsKept
<1>17. ASSUME NEW s \in Stations, s # x
       PROVE  SameText(rs'[s], rs[s]) /\ SameState(rs'[s], rs[s]) /\ IdepKept(s)
  <2>1. st1[s] = rs[s]
    BY <1>11, <1>17
  <2>2. SameText(rs'[s], rs[s])
    BY <1>13, <1>14, <2>1 DEF SameText
  <2>3. SameState(rs'[s], rs[s])
    BY <1>13, <1>14, <1>17, <2>1 DEF SameState
  <2>4. IdepKept(s)
    BY <1>13, <1>14, <1>17, <2>1 DEF SameChains, IdepKept
  <2> QED
    BY <2>2, <2>3, <2>4
<1>18. New(rs', x, i.op, pc, FALSE, mis, i.out)
  <2>1. SameText(st2[x], a) /\ SameState(st2[x], a) /\ SameText(rs'[x], st2[x])
        /\ rs'[x].issued = st2[x].issued /\ rs'[x].completed = st2[x].completed
    BY <1>2, <1>11, <1>13, <1>14
  <2> HIDE DEF i, mis
  <2> QED
    BY <1>5, <2>1 DEF SameText, SameState, New
<1>19. Fresh(x)
  <2>1. rs'[x].queued = ready /\ SameChains(rs'[x], st2[x])
    BY <1>2, <1>14
  <2>2. AllReady(rs', x) <=> ready
    BY <1>9a, <2>1 DEF AllReady, SameChains
  <2>3. rs'[x].queued \in BOOLEAN /\ (rs'[x].queued <=> AllReady(rs', x) /\ (x[1] = "LSQ" => IsStore(i.op)))
    BY <1>2, <1>9, <2>1, <2>2
  <2> HIDE DEF i, mis
  <2> QED
    BY <1>3, <1>18, <2>3, NewFresh
<1>20. EnteredText(FALSE)
  <2>1. /\ rs'[x].op = i.op /\ rs'[x].ea_comp = FALSE /\ rs'[x].recover_inst = mis
        /\ rs'[x].PC = Head(fetch_data).regs_PC
    BY <1>18 DEF New, OpEnters
  <2>2. spec_mode' = (spec_mode \/ mis) /\ (mis => ~ spec_mode) /\ (~ spec_mode => use_spec_cv' = use_spec_cv)
    BY DEF OpEnters, Execute, Mispredicted, Install
  <2> HIDE DEF i, mis
  <2> QED
    BY <1>1, <1>4, <1>9, <2>1, <2>2 DEF EnteredText, x
<1>21. EnteredQueue(FALSE)
  <2>1. /\ ready_queue \in Seq(ReadyLinks) /\ st1[x].tag = rs[x].tag /\ st1[x].tag \in Nat /\ st1[x].seq \in Nat
    BY <1>2, <1>4, <1>5, <1>11, QueuesTyped
  <2>2. Grown(ready_queue, ready_queue', x, ready)
    BY <1>2, <1>9, <2>1, MaybeEnqueued
  <2>3. ASSUME NEW s \in Stations
        PROVE  One(s = x /\ ready) = One(s \in Entering(FALSE) /\ rs'[s].queued)
    <3>1. (s = x /\ ready) <=> (s \in Entering(FALSE) /\ rs'[s].queued)
      BY <1>2, <1>14
    <3> QED
      BY <3>1 DEF One
  <2> QED
    BY <1>2, <2>2, <2>3 DEF EnteredQueue, Grown
<1>22. W = InFlight \cup Entering(FALSE)
  BY <1>2, <1>6
<1>23. ASSUME NEW s \in Stations, NEW k \in 1 .. 2, rs[s].odep_list[k] = <<>>, ~ Creator(s, k)
       PROVE  rs'[s].odep_list[k] = <<>>
  <2>1. st1[s].odep_list[k] = <<>>
    BY <1>5, <1>11, <1>23
  <2>2. \A c \in {CreatorOf(i.in[1]), CreatorOf(i.in[2]), CreatorOf(i.in[3])} : s = c.rs => k # c.odep
    <3>1. i.in[1] \in Regs \cup {NA} /\ i.in[2] \in Regs \cup {NA} /\ i.in[3] \in Regs \cup {NA}
      BY <1>3
    <3> HIDE DEF i
    <3> QED
      BY <1>23, <3>1, NotCreator
  <2>3. st2[s].odep_list[k] = <<>>
    BY <1>12, <2>1, <2>2 DEF OperandsLinked
  <2> QED
    BY <1>14, <2>3 DEF SameChains
<1>24. ASSUME NEW cv, NEW cv2, cv2 = ruu_install_odep(cv, x, i.out), NEW r \in Regs
       PROVE  (cv2[r] = cv[r] /\ r \notin {i.out[1], i.out[2]}) \/ Installs(cv2[r], r, FALSE)
  <2>1. rs'[x].onames = i.out
    BY <1>18 DEF New
  <2> HIDE DEF i
  <2>2. \/ cv2[r] = cv[r] /\ r # i.out[1] /\ r # i.out[2]
        \/ \E k \in 1 .. 2 : cv2[r] = [rs |-> x, odep |-> k] /\ i.out[k] = r
    BY ONLY <1>24, OdepIs
  <2> QED
    BY <1>2, <2>1, <2>2 DEF Installs
<1>25. CvInstalled(FALSE)
  <2>1. /\ spec_mode => /\ spec_create_vector' = ruu_install_odep(spec_create_vector, x, i.out)
                        /\ use_spec_cv' = use_spec_cv \cup ({i.out[1], i.out[2]} \ {NA})
                        /\ create_vector' = create_vector
        /\ ~ spec_mode => /\ create_vector' = ruu_install_odep(create_vector, x, i.out)
                          /\ spec_create_vector' = spec_create_vector /\ use_spec_cv' = use_spec_cv
    BY DEF OpEnters, Install, x
  <2> HIDE DEF i
  <2>2. CASE spec_mode
    BY <1>24, <2>1, <2>2 DEF CvInstalled
  <2>3. CASE ~ spec_mode
    BY <1>24, <2>1, <2>3 DEF CvInstalled
  <2> QED
    BY <2>2, <2>3
<1> QED
  BY <1>23, <1>25, <1>2, <1>15, <1>16, <1>17, <1>19, <1>20, <1>21, <1>22 DEF Entered, ChainsAdded

AgenStation(pc, npc) ==
  Filled(RuuTail, MD_AGEN_OP, pc, TRUE, Mispredicted(npc), 0, inst_seq + 1, <<DTMP, NA>>)
AccessStation(pc, addr) ==
  Filled(LsqTail, InstAt(pc).op, pc, FALSE, FALSE, addr, inst_seq + 2, InstAt(pc).out)
MemFilled(pc, npc, addr) ==
  [rs EXCEPT ![RuuTail] = AgenStation(pc, npc), ![LsqTail] = AccessStation(pc, addr)]
MemAgen(pc, npc, addr) ==
  LinkAll(MemFilled(pc, npc, addr), RuuTail, CVLINK_NULL, CreatorOf(InstAt(pc).in[2]),
          CreatorOf(InstAt(pc).in[3]))
MemLinked(pc, npc, addr) ==
  LinkAll(MemAgen(pc, npc, addr), LsqTail, CreatorOf(InstAt(pc).in[1]), [rs |-> RuuTail, odep |-> 1],
          CVLINK_NULL)
MemMissing(pc, npc, addr, x) == {k \in 1 .. 3 : ~ MemLinked(pc, npc, addr)[x].idep_ready[k]}
MemWaits(pc, npc, addr, x) == Cardinality(MemMissing(pc, npc, addr, x))
AgenQueued(pc, npc, addr) == MemWaits(pc, npc, addr, RuuTail) = 0
StoreQueued(pc, npc, addr) == IsStore(InstAt(pc).op) /\ MemWaits(pc, npc, addr, LsqTail) = 0
AgenQueue(pc, npc, addr) ==
  IF AgenQueued(pc, npc, addr) THEN readyq_enqueue(ready_queue, RuuTail, MemFilled(pc, npc, addr)[RuuTail])
  ELSE ready_queue
MemStep(pc, npc, addr) ==
  /\ IsMem(InstAt(pc).op)
  /\ Execute(npc)
  /\ rs' = [MemLinked(pc, npc, addr) EXCEPT ![RuuTail].queued = AgenQueued(pc, npc, addr),
                                            ![LsqTail].queued = StoreQueued(pc, npc, addr)]
  /\ Install(LAMBDA cv : ruu_install_odep(ruu_install_odep(cv, RuuTail, <<DTMP, NA>>), LsqTail, InstAt(pc).out),
             {DTMP, InstAt(pc).out[1], InstAt(pc).out[2]} \ {NA})
  /\ ready_queue' = IF StoreQueued(pc, npc, addr)
                    THEN readyq_enqueue(AgenQueue(pc, npc, addr), LsqTail, MemFilled(pc, npc, addr)[LsqTail])
                    ELSE AgenQueue(pc, npc, addr)
  /\ free_links' = free_links - MemWaits(pc, npc, addr, RuuTail) - MemWaits(pc, npc, addr, LsqTail)
                     - (IF AgenQueued(pc, npc, addr) THEN 1 ELSE 0)
                     - (IF StoreQueued(pc, npc, addr) THEN 1 ELSE 0)
  /\ last_op' = [rs |-> LsqTail, tag |-> rs[LsqTail].tag]
  /\ inst_seq' = inst_seq + 2
  /\ stage' = IF free_links' < 0 THEN "panic" ELSE "dispatch"

\* DispatchMem, without the choices that do not matter here.
LEMMA DispatchMemIs ==
  ASSUME DispatchMem
  PROVE  \E pc, npc : \E addr \in Addrs :
           /\ npc \in NextPCs(code, pc) /\ pc = Head(fetch_data).regs_PC /\ MemStep(pc, npc, addr)
<1>1. \E pc \in {Head(fetch_data).regs_PC} : \E npc \in NextPCs(code, pc), addr \in Addrs :
        MemStep(pc, npc, addr)
  BY Zenon DEF DispatchMem, MemStep, MemMissing, MemWaits, MemLinked, MemAgen, LinkAll, MemFilled, AgenStation,
     AccessStation, AgenQueued, StoreQueued, AgenQueue, RuuTail, LsqTail
<1> QED
  BY <1>1

\* All operands are there exactly if none is missing.
LEMMA NoneMissing ==
  ASSUME NEW st, NEW x
  PROVE  Cardinality({k \in 1 .. 3 : ~ st[x].idep_ready[k]}) = 0 <=> AllReady(st, x)
<1> DEFINE S == {k \in 1 .. 3 : ~ st[x].idep_ready[k]}
<1>1. IsFiniteSet(S)
  <2>1. S \subseteq 1 .. 3
    OBVIOUS
  <2>2. IsFiniteSet(1 .. 3)
    <3>1. 1 \in Int /\ 3 \in Int
      OBVIOUS
    <3> QED
      BY ONLY <3>1, FS_Interval
  <2> QED
    BY <2>1, <2>2, FS_Subset
<1>2. Cardinality(S) = 0 <=> S = {}
  <2> HIDE DEF S
  <2> QED
    BY <1>1, FS_EmptySet
<1>3. S = {} <=> AllReady(st, x)
  BY DEF AllReady
<1> HIDE DEF S
<1>4. Cardinality(S) = 0 <=> AllReady(st, x)
  BY <1>2, <1>3
<1> QED
  BY <1>4 DEF S

\* The two entries that a load or a store gets.
LEMMA MemStationsAre ==
  ASSUME TypeOK, NEW pc, NEW npc, NEW addr \in Addrs, pc = Head(fetch_data).regs_PC, fetch_data # <<>>,
         RuuTail \in Stations, LsqTail \in Stations
  PROVE  /\ IsFilled(AgenStation(pc, npc), RuuTail, MD_AGEN_OP, pc, TRUE, Mispredicted(npc), 0,
                     inst_seq + 1, <<DTMP, NA>>)
         /\ IsFilled(AccessStation(pc, addr), LsqTail, InstAt(pc).op, pc, FALSE, FALSE, addr,
                     inst_seq + 2, InstAt(pc).out)
<1> DEFINE x == RuuTail
           y == LsqTail
           i == InstAt(pc)
           mis == Mispredicted(npc)
           a == AgenStation(pc, npc)
           b == AccessStation(pc, addr)
           names == <<DTMP, NA>>
<1>1. /\ RingsTyped /\ rs[x] \in Station /\ rs[y] \in Station /\ pc \in Nat /\ spec_mode \in BOOLEAN
      /\ inst_seq + 1 \in Nat /\ inst_seq + 2 \in Nat /\ x \in Stations /\ y \in Stations
  <2>1. RingsTyped
    BY RingsAreTyped DEF TypeOK
  <2>2. rs \in [Stations -> Station] /\ pc \in Nat /\ spec_mode \in BOOLEAN /\ inst_seq \in Nat
    BY FetchedTyped DEF TypeOK
  <2> QED
    BY <2>1, <2>2
<1>1a. addr \in Nat /\ config \in Configs
  BY ProgramAssumption DEF TypeOK
<1>2. i.op \in DOMAIN OpTable /\ i.out \in [1 .. 2 -> Regs \cup {NA}]
  BY TextTyped
<1>3. mis \in BOOLEAN
  BY <1>1 DEF Mispredicted
<1>4. FALSE \in BOOLEAN /\ TRUE \in BOOLEAN /\ 0 \in Nat
  OBVIOUS
<1>5. names \in [1 .. 2 -> Regs \cup {NA}]
  <2>1. DTMP \in Regs
    BY <1>1, <1>1a, SizeType DEF DTMP, Regs
  <2> HIDE DEF DTMP
  <2> QED
    BY <2>1
<1>6. MD_AGEN_OP \in DOMAIN OpTable
  BY DEF MD_AGEN_OP, OpTable
<1>7. /\ a = Filled(x, MD_AGEN_OP, pc, TRUE, mis, 0, inst_seq + 1, names)
      /\ b = Filled(y, i.op, pc, FALSE, FALSE, addr, inst_seq + 2, i.out)
  BY DEF AgenStation, AccessStation
<1> HIDE DEF x, y, i, mis, a, b, names
<1>8. IsFilled(Filled(x, MD_AGEN_OP, pc, TRUE, mis, 0, inst_seq + 1, names),
               x, MD_AGEN_OP, pc, TRUE, mis, 0, inst_seq + 1, names)
  BY ONLY <1>1, <1>3, <1>4, <1>5, <1>6, FilledFields
<1>9. IsFilled(Filled(y, i.op, pc, FALSE, FALSE, addr, inst_seq + 2, i.out),
               y, i.op, pc, FALSE, FALSE, addr, inst_seq + 2, i.out)
  BY ONLY <1>1, <1>1a, <1>2, <1>4, FilledFields
<1>10. IsFilled(a, x, MD_AGEN_OP, pc, TRUE, mis, 0, inst_seq + 1, names)
  BY <1>7, <1>8, Zenon
<1>11. IsFilled(b, y, i.op, pc, FALSE, FALSE, addr, inst_seq + 2, i.out)
  BY <1>7, <1>9, Zenon
<1> QED
  BY <1>10, <1>11 DEF x, y, i, mis, a, b, names

\* What ruu_dispatch does with an access: an address computation enters the RUU, the
\* access the LSQ.
LEMMA MemEntered ==
  ASSUME TypeOK, CvTypes, Rings, LinkInv(rs, InFlight), NEW pc, NEW npc, NEW addr \in Addrs,
         pc = Head(fetch_data).regs_PC, MemStep(pc, npc, addr),
         fetch_data # <<>>, RUU_num < RUU_size, LSQ_num < LSQ_size,
         event_queue' = event_queue, node' = node, config' = config
  PROVE  Entered(TRUE) /\ ChainsAdded(TRUE) /\ CvInstalled(TRUE)
<1> DEFINE x == RuuTail
           y == LsqTail
           W == InFlight \cup {RuuTail, LsqTail}
           i == InstAt(pc)
           mis == Mispredicted(npc)
           a == AgenStation(pc, npc)
           b == AccessStation(pc, addr)
           st0 == Replaced(rs, RuuTail, AgenStation(pc, npc))
           st1 == MemFilled(pc, npc, addr)
           st2 == MemAgen(pc, npc, addr)
           st3 == MemLinked(pc, npc, addr)
           first == AgenQueued(pc, npc, addr)
           second == StoreQueued(pc, npc, addr)
           st4 == Marked(MemLinked(pc, npc, addr), RuuTail, AgenQueued(pc, npc, addr))
           q1 == AgenQueue(pc, npc, addr)
           names == <<DTMP, NA>>
           c == [rs |-> RuuTail, odep |-> 1]
<1>1. /\ RingsTyped /\ rs \in [Stations -> Station] /\ pc \in Nat /\ inst_seq \in Nat
      /\ spec_mode \in BOOLEAN /\ addr \in Nat /\ config \in Configs
  BY RingsAreTyped, FetchedTyped, ProgramAssumption DEF TypeOK
<1>2. /\ x \in Stations /\ x \notin InFlight /\ x[1] = "RUU" /\ Entering(TRUE) = {x, y}
      /\ y \in Stations /\ y \notin InFlight /\ y[1] = "LSQ" /\ x # y /\ W = InFlight \cup {x, y}
  BY <1>1, TailsAre DEF Entering
<1>3. /\ i.op \in DOMAIN OpTable /\ i.out \in [1 .. 2 -> Regs \cup {NA}]
      /\ i.in \in [1 .. 3 -> Regs \cup {NA}] /\ (IsStore(i.op) => i.out = <<NA, NA>>)
  BY TextTyped
<1>4. mis \in BOOLEAN /\ inst_seq + 1 \in Nat /\ inst_seq + 2 \in Nat
  BY <1>1 DEF Mispredicted
<1>4a. names \in [1 .. 2 -> Regs \cup {NA}] /\ DTMP \in Regs
  <2>1. DTMP \in Regs
    BY <1>1, SizeType DEF DTMP, Regs
  <2> HIDE DEF DTMP
  <2> QED
    BY <2>1
<1>4b. MD_AGEN_OP \in DOMAIN OpTable /\ ~ IsMem(MD_AGEN_OP) /\ ~ IsStore(MD_AGEN_OP)
  BY DEF MD_AGEN_OP, OpTable, IsMem, IsStore, MD_OP_FLAGS
<1>4c. FALSE \in BOOLEAN /\ TRUE \in BOOLEAN /\ 0 \in Nat
  OBVIOUS
<1>5. IsFilled(a, x, MD_AGEN_OP, pc, TRUE, mis, 0, inst_seq + 1, names)
  BY <1>2, MemStationsAre
<1>6. IsFilled(b, y, i.op, pc, FALSE, FALSE, addr, inst_seq + 2, i.out)
  BY <1>2, MemStationsAre
<1>7. st0 = Replaced(rs, x, a) /\ st1 = Replaced(st0, y, b)
  BY DEF MemFilled, Replaced
<1>8. /\ CVLINK_NULL \in CvEntry /\ CreatorOf(i.in[1]) \in CvEntry /\ CreatorOf(i.in[2]) \in CvEntry
      /\ CreatorOf(i.in[3]) \in CvEntry
  BY <1>3, CreatorTyped DEF CvEntry
<1>8a. c \in CvEntry
  <2>1. 1 \in 1 .. 2
    OBVIOUS
  <2> QED
    BY <1>2, <2>1, Zenon DEF CvEntry
<1>9. /\ st2 = LinkAll(st1, x, CVLINK_NULL, CreatorOf(i.in[2]), CreatorOf(i.in[3]))
      /\ st3 = LinkAll(st2, y, CreatorOf(i.in[1]), c, CVLINK_NULL)
  BY DEF MemAgen, MemLinked
<1>10. /\ first \in BOOLEAN /\ (first <=> AllReady(st3, x))
       /\ second \in BOOLEAN /\ (second <=> AllReady(st3, y) /\ IsStore(i.op))
  BY NoneMissing, Zenon DEF AgenQueued, StoreQueued, MemWaits, MemMissing
<1>11. /\ st4 = Marked(st3, x, first) /\ rs' = Marked(st4, y, second)
       /\ q1 = IF first THEN readyq_enqueue(ready_queue, x, st1[x]) ELSE ready_queue
       /\ ready_queue' = IF second THEN readyq_enqueue(q1, y, st1[y]) ELSE q1
       /\ IsMem(i.op)
  BY DEF MemStep, Marked, AgenQueue
<1> HIDE DEF x, y, W, a, b, st0, st1, st2, st3, first, second, st4, q1, c, names
<1>12. (\A k : Unlinked(rs, x, k)) /\ (\A k : Unlinked(rs, y, k))
  BY <1>2, OutsideUnlinked
<1>13. FillsIn(rs, st0, x, a, W)
  <2>1. /\ a \in Station /\ a.tag = rs[x].tag /\ a.idep_ready = rs[x].idep_ready
        /\ \A k \in 1 .. 2 : a.odep_list[k] \in {rs[x].odep_list[k], <<>>}
    BY <1>5 DEF IsFilled
  <2>2. InFlight \subseteq W
    BY <1>2
  <2> QED
    BY <1>1, <1>2, <1>7, <2>1, <2>2, FilledIn
<1>14. FillsIn(st0, st1, y, b, W)
  <2>1. /\ st0[y] = rs[y] /\ st0 \in [Stations -> Station] /\ LinkInv(st0, W)
    BY <1>2, <1>13 DEF FillsIn
  <2>2. /\ b \in Station /\ b.tag = st0[y].tag /\ b.idep_ready = st0[y].idep_ready
        /\ \A k \in 1 .. 2 : b.odep_list[k] \in {st0[y].odep_list[k], <<>>}
    BY <1>6, <2>1 DEF IsFilled
  <2>3. W \subseteq W
    OBVIOUS
  <2> QED
    BY <1>2, <1>7, <2>1, <2>2, <2>3, FilledIn
<1>15. /\ st1 \in [Stations -> Station] /\ st1[x] = a /\ st1[y] = b
       /\ \A s \in Stations : s # x /\ s # y => st1[s] = rs[s]
       /\ \A s \in Stations : st1[s].tag = rs[s].tag
       /\ LinkInv(st1, W)
       /\ (\A k : Unlinked(st1, x, k)) /\ (\A k : Unlinked(st1, y, k))
  BY <1>2, <1>12, <1>13, <1>14 DEF FillsIn
<1>16. OperandsLinked(st1, st2, x, CVLINK_NULL, CreatorOf(i.in[2]), CreatorOf(i.in[3]))
  BY <1>2, <1>8, <1>9, <1>15, AllLinked
<1>17. /\ st2 \in [Stations -> Station]
       /\ \A s \in Stations : SameText(st2[s], st1[s]) /\ SameState(st2[s], st1[s]) /\ st2[s].tag = st1[s].tag
       /\ \A s \in Stations, m \in 1 .. 3 : s # x => st2[s].idep_ready[m] = st1[s].idep_ready[m]
       /\ LinkInv(st2, W)
       /\ \A k \in 1 .. 3 : Unlinked(st2, y, k)
  <2>1. x \in W
    BY <1>2
  <2> QED
    BY <1>2, <1>15, <1>16, <2>1 DEF OperandsLinked
<1>18. OperandsLinked(st2, st3, y, CreatorOf(i.in[1]), c, CVLINK_NULL)
  <2>1. st2 \in [Stations -> Station] /\ y \in Stations
    BY <1>2, <1>17
  <2>2. st2[y].tag = rs[y].tag
    BY <1>15, <1>17, <2>1
  <2>3. OperandsLinked(st2, LinkAll(st2, y, CreatorOf(i.in[1]), c, CVLINK_NULL), y,
                       CreatorOf(i.in[1]), c, CVLINK_NULL)
    BY ONLY <1>8, <1>8a, <2>1, <2>2, AllLinked
  <2> QED
    BY <1>9, <2>3
<1>19. /\ st3 \in [Stations -> Station]
       /\ \A s \in Stations : SameText(st3[s], st2[s]) /\ SameState(st3[s], st2[s]) /\ st3[s].tag = st2[s].tag
       /\ \A s \in Stations, m \in 1 .. 3 : s # y => st3[s].idep_ready[m] = st2[s].idep_ready[m]
       /\ LinkInv(st3, W)
  <2>1. y \in W
    BY <1>2
  <2> QED
    BY <1>2, <1>17, <1>18, <2>1 DEF OperandsLinked
<1>20. /\ st4 \in [Stations -> Station] /\ LinkInv(st4, W)
       /\ \A s \in Stations : /\ SameText(st4[s], st3[s]) /\ SameChains(st4[s], st3[s])
                              /\ st4[s].tag = st3[s].tag
                              /\ st4[s].issued = st3[s].issued /\ st4[s].completed = st3[s].completed
                              /\ st4[s].queued = IF s = x THEN first ELSE st3[s].queued
  BY <1>2, <1>10, <1>11, <1>19, MarkQueued, MarkLinked
<1>21. /\ rs' \in [Stations -> Station] /\ LinkInv(rs', W)
       /\ \A s \in Stations : /\ SameText(rs'[s], st4[s]) /\ SameChains(rs'[s], st4[s])
                              /\ rs'[s].tag = st4[s].tag
                              /\ rs'[s].issued = st4[s].issued /\ rs'[s].completed = st4[s].completed
                              /\ rs'[s].queued = IF s = y THEN second ELSE st4[s].queued
  BY <1>2, <1>10, <1>11, <1>20, MarkQueued, MarkLinked
<1>22. RsTyped /\ TagsKept
  BY <1>15, <1>17, <1>19, <1>20, <1>21, StationsKept DEF RsTyped, TagsKept
<1>23. ASSUME NEW s \in Stations
       PROVE  SameText(rs'[s], st1[s]) /\ rs'[s].issued = st1[s].issued /\ rs'[s].completed = st1[s].completed
              /\ SameChains(rs'[s], st3[s])
  BY <1>17, <1>19, <1>20, <1>21 DEF SameText, SameState, SameChains
<1>24. ASSUME NEW s \in Stations, s # x, s # y
       PROVE  SameText(rs'[s], rs[s]) /\ SameState(rs'[s], rs[s]) /\ IdepKept(s)
  <2>1. st1[s] = rs[s]
    BY <1>15, <1>24
  <2>2. SameText(rs'[s], rs[s])
    BY <1>23, <2>1
  <2>3. SameState(rs'[s], rs[s])
    BY <1>17, <1>19, <1>20, <1>21, <1>24, <2>1 DEF SameState
  <2>4. IdepKept(s)
    BY <1>17, <1>19, <1>23, <1>24, <2>1 DEF SameChains, IdepKept
  <2> QED
    BY <2>2, <2>3, <2>4
<1>25. New(rs', x, MD_AGEN_OP, pc, TRUE, mis, names) /\ New(rs', y, i.op, pc, FALSE, FALSE, i.out)
  <2>1. SameText(rs'[x], a) /\ rs'[x].issued = a.issued /\ rs'[x].completed = a.completed
    BY <1>2, <1>15, <1>23
  <2>2. SameText(rs'[y], b) /\ rs'[y].issued = b.issued /\ rs'[y].completed = b.completed
    BY <1>2, <1>15, <1>23
  <2> HIDE DEF i, mis
  <2> QED
    BY <1>5, <1>6, <2>1, <2>2 DEF SameText, New, IsFilled
<1>26. /\ rs'[x].queued = first /\ (first <=> AllReady(rs', x))
       /\ rs'[y].queued = second /\ (second <=> AllReady(rs', y) /\ IsStore(i.op))
  <2>1. AllReady(rs', x) <=> AllReady(st3, x)
    BY <1>2, <1>23 DEF AllReady, SameChains
  <2>2. AllReady(rs', y) <=> AllReady(st3, y)
    BY <1>2, <1>23 DEF AllReady, SameChains
  <2> QED
    BY <1>2, <1>10, <1>20, <1>21, <2>1, <2>2
<1>27. Fresh(x) /\ Fresh(y)
  <2> HIDE DEF i, mis
  <2>1. Fresh(x)
    BY <1>2, <1>4b, <1>10, <1>25, <1>26, NewFresh
  <2>2. Fresh(y)
    BY <1>2, <1>3, <1>10, <1>25, <1>26, NewFresh
  <2> QED
    BY <2>1, <2>2
<1>28. EnteredText(TRUE)
  <2>1. /\ rs'[x].op = MD_AGEN_OP /\ rs'[x].ea_comp /\ (rs'[x].recover_inst <=> mis) /\ rs'[x].PC = pc
        /\ rs'[x].PC = Head(fetch_data).regs_PC
        /\ rs'[y].op = i.op /\ ~ rs'[y].ea_comp /\ ~ rs'[y].recover_inst /\ rs'[y].PC = pc
        /\ rs'[x].ea_comp = TRUE
    BY <1>25 DEF New
  <2>2. spec_mode' = (spec_mode \/ mis) /\ (mis => ~ spec_mode) /\ (~ spec_mode => use_spec_cv' = use_spec_cv)
    BY DEF MemStep, Execute, Mispredicted, Install
  <2> HIDE DEF i, mis
  <2> QED
    BY <1>1, <1>4, <1>4b, <1>11, <2>1, <2>2 DEF EnteredText, x, y
<1>29. EnteredQueue(TRUE)
  <2>1. /\ ready_queue \in Seq(ReadyLinks)
        /\ st1[x].tag = rs[x].tag /\ st1[x].tag \in Nat /\ st1[x].seq \in Nat
        /\ st1[y].tag = rs[y].tag /\ st1[y].tag \in Nat /\ st1[y].seq \in Nat
    BY <1>2, <1>4, <1>5, <1>6, <1>15, QueuesTyped DEF IsFilled
  <2>2. Grown(ready_queue, q1, x, first)
    BY <1>2, <1>10, <1>11, <2>1, MaybeEnqueued
  <2>3. q1 \in Seq(ReadyLinks)
    BY <2>2 DEF Grown
  <2>4. Grown(q1, ready_queue', y, second)
    BY <1>2, <1>10, <1>11, <2>1, <2>3, MaybeEnqueued
  <2>5. ASSUME NEW s \in Stations
        PROVE  CountOf(ready_queue', s, rs[s].tag)
                 = CountOf(ready_queue, s, rs[s].tag) + One(s \in Entering(TRUE) /\ rs'[s].queued)
    <3>1. /\ CountOf(ready_queue', s, rs[s].tag) = CountOf(q1, s, rs[s].tag) + One(s = y /\ second)
          /\ CountOf(q1, s, rs[s].tag) = CountOf(ready_queue, s, rs[s].tag) + One(s = x /\ first)
      BY <2>2, <2>4 DEF Grown
    <3>2. CountOf(ready_queue, s, rs[s].tag) \in Nat
      BY <2>1, CountType
    <3>3. /\ s = x => One(s = y /\ second) = 0 /\ One(s = x /\ first) = One(s \in Entering(TRUE) /\ rs'[s].queued)
          /\ s = y => One(s = x /\ first) = 0 /\ One(s = y /\ second) = One(s \in Entering(TRUE) /\ rs'[s].queued)
          /\ s # x /\ s # y => One(s = x /\ first) = 0 /\ One(s = y /\ second) = 0
                               /\ One(s \in Entering(TRUE) /\ rs'[s].queued) = 0
      BY <1>2, <1>10, <1>26 DEF One
    <3>4. PICK u \in Nat, v \in Nat, w \in Nat :
            /\ u = One(s = x /\ first) /\ v = One(s = y /\ second)
            /\ w = One(s \in Entering(TRUE) /\ rs'[s].queued)
      <4>1. One(s = x /\ first) \in Nat
        BY DEF One
      <4>2. One(s = y /\ second) \in Nat
        BY DEF One
      <4>3. One(s \in Entering(TRUE) /\ rs'[s].queued) \in Nat
        BY DEF One
      <4> QED
        BY <4>1, <4>2, <4>3, Zenon
    <3>5. w = u + v
      <4>1. /\ s = x => v = 0 /\ u = w
            /\ s = y => u = 0 /\ v = w
            /\ s # x /\ s # y => u = 0 /\ v = 0 /\ w = 0
        BY <3>3, <3>4, Zenon
      <4> QED
        BY ONLY <4>1, u \in Nat, v \in Nat, w \in Nat
    <3>6. /\ CountOf(ready_queue', s, rs[s].tag) = CountOf(q1, s, rs[s].tag) + v
          /\ CountOf(q1, s, rs[s].tag) = CountOf(ready_queue, s, rs[s].tag) + u
      BY <3>1, <3>4, Zenon
    <3>7. CountOf(ready_queue', s, rs[s].tag) = CountOf(ready_queue, s, rs[s].tag) + w
      BY <3>2, <3>5, <3>6
    <3> QED
      BY <3>4, <3>7, Zenon
  <2>6. ASSUME NEW j \in DOMAIN ready_queue'
        PROVE  \/ ready_queue'[j].rs \in Stations /\ ready_queue'[j].tag = rs[ready_queue'[j].rs].tag
               \/ \E k \in DOMAIN ready_queue : ready_queue'[j] = ready_queue[k]
    <3>1. \/ ready_queue'[j].rs = y /\ ready_queue'[j].tag = rs[y].tag
          \/ \E k \in DOMAIN q1 : ready_queue'[j] = q1[k]
      BY <2>4 DEF Grown
    <3>2. \A k \in DOMAIN q1 : \/ q1[k].rs = x /\ q1[k].tag = rs[x].tag
                               \/ \E m \in DOMAIN ready_queue : q1[k] = ready_queue[m]
      BY <2>2 DEF Grown
    <3> QED
      BY <1>2, <3>1, <3>2
  <2> QED
    BY <2>4, <2>5, <2>6 DEF EnteredQueue, Grown
<1>30. W = InFlight \cup Entering(TRUE)
  BY <1>2
<1>31. ASSUME NEW s \in Stations, NEW k \in 1 .. 2, rs[s].odep_list[k] = <<>>, ~ Creator(s, k),
              ~ (s = x /\ k = 1)
       PROVE  rs'[s].odep_list[k] = <<>>
  <2>1. st1[s].odep_list[k] = <<>>
    <3>1. s = x \/ s = y \/ (s # x /\ s # y)
      OBVIOUS
    <3>2. s = x => a.odep_list[k] = <<>>
      BY <1>5, <1>31 DEF IsFilled
    <3>3. s = y => b.odep_list[k] = <<>>
      BY <1>6, <1>31 DEF IsFilled
    <3> QED
      BY <1>15, <1>31, <3>1, <3>2, <3>3
  <2>2. \A r \in Regs \cup {NA} : s = CreatorOf(r).rs => k # CreatorOf(r).odep
    BY <1>31, NotCreator
  <2>3. i.in[1] \in Regs \cup {NA} /\ i.in[2] \in Regs \cup {NA} /\ i.in[3] \in Regs \cup {NA}
    BY <1>3
  <2>4. s = CVLINK_NULL.rs => k # CVLINK_NULL.odep
    BY NotNull DEF CVLINK_NULL
  <2>5. s = c.rs => k # c.odep
    BY <1>31 DEF c, x
  <2> HIDE DEF i
  <2>6. st2[s].odep_list[k] = <<>>
    <3>1. \A d \in {CVLINK_NULL, CreatorOf(i.in[2]), CreatorOf(i.in[3])} : s = d.rs => k # d.odep
      BY <2>2, <2>3, <2>4
    <3> QED
      BY <1>16, <2>1, <3>1 DEF OperandsLinked
  <2>7. st3[s].odep_list[k] = <<>>
    <3>1. \A d \in {CreatorOf(i.in[1]), c, CVLINK_NULL} : s = d.rs => k # d.odep
      BY <2>2, <2>3, <2>4, <2>5
    <3> QED
      BY <1>18, <2>6, <3>1 DEF OperandsLinked
  <2> QED
    BY <1>23, <2>7 DEF SameChains
<1>32. rs'[x].onames = names /\ rs'[y].onames = i.out /\ names[1] # NA
  <2>1. names[1] # NA
    BY SizesAssumption DEF names, DTMP, NA
  <2> HIDE DEF i
  <2> QED
    BY <1>25, <2>1 DEF New
<1>33. ChainsAdded(TRUE)
  <2>1. names[1] # NA /\ rs'[x].onames[1] # NA
    BY <1>32
  <2> QED
    BY <1>31, <2>1 DEF ChainsAdded, x
<1>34. ASSUME NEW cv, NEW cv2, cv2 = ruu_install_odep(ruu_install_odep(cv, x, names), y, i.out), NEW r \in Regs
       PROVE  \/ cv2[r] = cv[r] /\ r \notin {DTMP, i.out[1], i.out[2]}
              \/ Installs(cv2[r], r, TRUE)
  <2> HIDE DEF i, DTMP
  <2>1. names[1] = DTMP
    BY DEF names
  <2> DEFINE mid == ruu_install_odep(cv, x, names)
  <2>2. (mid[r] = cv[r] /\ r # names[1]) \/ \E k \in 1 .. 2 : mid[r] = [rs |-> x, odep |-> k] /\ names[k] = r
    BY OdepIs
  <2>3. \/ cv2[r] = mid[r] /\ r # i.out[1] /\ r # i.out[2]
        \/ \E k \in 1 .. 2 : cv2[r] = [rs |-> y, odep |-> k] /\ i.out[k] = r
    BY <1>34, OdepIs
  <2> HIDE DEF mid
  <2> QED
    BY <1>2, <1>32, <2>1, <2>2, <2>3 DEF Installs
<1>35. CvInstalled(TRUE)
  <2>1. /\ spec_mode => /\ spec_create_vector' = ruu_install_odep(ruu_install_odep(spec_create_vector, x, names), y, i.out)
                        /\ use_spec_cv' = use_spec_cv \cup ({DTMP, i.out[1], i.out[2]} \ {NA})
                        /\ create_vector' = create_vector
        /\ ~ spec_mode => /\ create_vector' = ruu_install_odep(ruu_install_odep(create_vector, x, names), y, i.out)
                          /\ spec_create_vector' = spec_create_vector /\ use_spec_cv' = use_spec_cv
    BY DEF MemStep, Install, x, y, names
  <2> HIDE DEF i, DTMP
  <2>2. CASE spec_mode
    BY <1>34, <2>1, <2>2 DEF CvInstalled
  <2>3. CASE ~ spec_mode
    BY <1>34, <2>1, <2>3 DEF CvInstalled
  <2> QED
    BY <2>2, <2>3
<1> QED
  BY <1>33, <1>35, <1>2, <1>21, <1>22, <1>24, <1>27, <1>28, <1>29, <1>30 DEF Entered

\* The stations of the window after a dispatch.
LEMMA EnteredWindow ==
  ASSUME TypeOK, Rings, NEW mem, Extended(mem), Entered(mem)
  PROVE  /\ RingsTyped /\ RingsTyped' /\ Rings' /\ Stations' = Stations /\ LSQ_size' = LSQ_size
         /\ \A p : RuuAt(p)' = RuuAt(p) /\ LsqAt(p)' = LsqAt(p)
         /\ \A s \in Stations : InWindow(s)' <=> InWindow(s) \/ s \in Entering(mem)
         /\ \A s \in Entering(mem) : s \in Stations /\ ~ InWindow(s)
         /\ InFlight' = InFlight \cup Entering(mem)
         /\ mem \in BOOLEAN /\ RUU_num \in Nat /\ LSQ_num \in Nat
         /\ RUU_num' = RUU_num + 1 /\ LSQ_num' = LSQ_num + One(mem)
         /\ RuuAt(RUU_num) = RuuTail /\ LsqAt(LSQ_num) = LsqTail /\ RuuTail \in Entering(mem)
         /\ (LsqTail \in Entering(mem) <=> mem) /\ RuuTail[1] = "RUU" /\ LsqTail[1] = "LSQ"
         /\ \A s \in Entering(mem) : s[1] = "RUU" => s = RuuTail
         /\ \A s \in Entering(mem) : s[1] = "LSQ" => s = LsqTail /\ mem
         /\ \A s \in Entering(mem) : s[1] \in {"RUU", "LSQ"}
<1>1. RingsTyped
  BY RingsAreTyped
<1>2. /\ RingsTyped' /\ Rings' /\ Stations' = Stations /\ LSQ_size' = LSQ_size
      /\ \A p : RuuAt(p)' = RuuAt(p) /\ LsqAt(p)' = LsqAt(p)
      /\ \A s \in Stations : InWindow(s)' <=> InWindow(s) \/ s \in Entering(mem)
  BY <1>1, ExtendedWindow
<1>3. /\ RuuAt(RUU_num) = RuuTail /\ LsqAt(LSQ_num) = LsqTail
      /\ RuuTail \in Stations /\ LsqTail \in Stations
      /\ RuuTail \notin InFlight /\ LsqTail \notin InFlight
      /\ RuuTail[1] = "RUU" /\ LsqTail[1] = "LSQ" /\ RuuTail # LsqTail
  BY <1>1, TailsAre DEF Extended
<1>4. \A s \in Entering(mem) : s \in Stations /\ ~ InWindow(s)
  BY <1>1, <1>3, InFlightIs DEF Entering
<1>5. /\ RuuTail \in Entering(mem) /\ (LsqTail \in Entering(mem) <=> mem)
      /\ \A s \in Entering(mem) : s = RuuTail \/ (s = LsqTail /\ mem)
  BY <1>3 DEF Entering
<1>6. InFlight' = InFlight \cup Entering(mem)
  <2>1. InFlight' = {s \in Stations : InWindow(s)'}
    BY <1>2 DEF InFlight
  <2>2. \A s : s \in InFlight' <=> s \in InFlight \cup Entering(mem)
    BY <1>2, <1>4, <2>1 DEF InFlight
  <2> QED
    BY <2>2
<1>7. mem \in BOOLEAN /\ RUU_num \in Nat /\ LSQ_num \in Nat
  BY <1>1, SizeType DEF RingsTyped, Extended
<1>8. RUU_num' = RUU_num + 1 /\ LSQ_num' = LSQ_num + One(mem)
  BY <1>7 DEF Extended, One
<1> QED
  BY <1>1, <1>2, <1>3, <1>4, <1>5, <1>6, <1>7, <1>8

\* Taking new entries into the window keeps accesses in the LSQ and the rest in the RUU.
LEMMA EnteredKinds ==
  ASSUME TypeOK, Rings, NEW mem, Extended(mem), Entered(mem), Kinds
  PROVE  Kinds'
<1>1. Stations' = Stations /\ \A s \in Stations : InWindow(s)' <=> InWindow(s) \/ s \in Entering(mem)
  BY EnteredWindow
<1>2. ASSUME NEW s \in Stations
      PROVE  /\ s[1] = "RUU" => ~ IsMem(rs'[s].op)
             /\ s[1] = "LSQ" => ~ rs'[s].ea_comp /\ ~ rs'[s].recover_inst
             /\ s[1] = "LSQ" /\ InWindow(s)' => IsMem(rs'[s].op)
             /\ InWindow(s)' /\ IsStore(rs'[s].op) => rs'[s].onames = <<NA, NA>>
  <2>1. CASE s \in Entering(mem)
    <3>1. Fresh(s) /\ EnteredText(mem)
      BY <2>1 DEF Entered
    <3>2. /\ s[1] = "RUU" => s = RuuTail
          /\ s[1] = "LSQ" => s = LsqTail /\ mem
      BY <2>1, EnteredWindow
    <3>3. IsStore(rs'[s].op) => rs'[s].onames = <<NA, NA>>
      BY <3>1 DEF Fresh
    <3> QED
      BY <3>1, <3>2, <3>3 DEF EnteredText
  <2>2. CASE s \notin Entering(mem)
    <3>1. SameText(rs'[s], rs[s])
      BY <2>2 DEF Entered
    <3>2. /\ s[1] = "RUU" => ~ IsMem(rs[s].op)
          /\ s[1] = "LSQ" => ~ rs[s].ea_comp /\ ~ rs[s].recover_inst
          /\ s[1] = "LSQ" /\ InWindow(s) => IsMem(rs[s].op)
          /\ InWindow(s) /\ IsStore(rs[s].op) => rs[s].onames = <<NA, NA>>
      BY DEF Kinds
    <3>3. InWindow(s)' <=> InWindow(s)
      BY <1>1, <2>2
    <3> QED
      BY <3>1, <3>2, <3>3 DEF SameText
  <2> QED
    BY <2>1, <2>2
<1> QED
  BY <1>1, <1>2 DEF Kinds

\* An entry that is in the window keeps its text.
LEMMA EnteredOld ==
  ASSUME TypeOK, Rings, NEW mem, Extended(mem), Entered(mem)
  PROVE  /\ \A p \in Nat : p < RUU_num => /\ RuuAt(p) \in Stations /\ RuuAt(p) \notin Entering(mem)
                                          /\ SameText(rs'[RuuAt(p)], rs[RuuAt(p)])
                                          /\ SameState(rs'[RuuAt(p)], rs[RuuAt(p)])
         /\ \A p \in Nat : p < LSQ_num => /\ LsqAt(p) \in Stations /\ LsqAt(p) \notin Entering(mem)
                                          /\ SameText(rs'[LsqAt(p)], rs[LsqAt(p)])
                                          /\ SameState(rs'[LsqAt(p)], rs[LsqAt(p)])
<1>1. /\ RingsTyped /\ RUU_num \in Nat /\ LSQ_num \in Nat
      /\ \A s \in Entering(mem) : s \in Stations /\ ~ InWindow(s)
  BY EnteredWindow
<1>2. \A p \in Nat : p < RUU_num => RuuAt(p) \in Stations /\ InWindow(RuuAt(p))
  <2> TAKE p \in Nat
  <2>1. p < RUU_num => p \in Window
    BY <1>1 DEF Window
  <2> QED
    BY <1>1, <2>1, InFlightIs
<1>3. \A p \in Nat : p < LSQ_num => LsqAt(p) \in Stations /\ InWindow(LsqAt(p))
  <2> TAKE p \in Nat
  <2>1. p < LSQ_num => p \in 0 .. LSQ_num - 1
    BY <1>1
  <2> QED
    BY <1>1, <2>1, InFlightIs
<1> QED
  BY <1>1, <1>2, <1>3 DEF Entered

\* Taking new entries into the window keeps the accesses of the LSQ in the order of
\* their address computations.
LEMMA EnteredAccesses ==
  ASSUME TypeOK, Rings, NEW mem, Extended(mem), Entered(mem), Accesses
  PROVE  Accesses'
<1> DEFINE A == Agens
           B == Agens'
<1>1. /\ RingsTyped /\ mem \in BOOLEAN /\ RUU_num \in Nat /\ LSQ_num \in Nat
      /\ RUU_num' = RUU_num + 1 /\ LSQ_num' = LSQ_num + One(mem)
      /\ RuuAt(RUU_num) = RuuTail /\ LsqAt(LSQ_num) = LsqTail
      /\ \A p : RuuAt(p)' = RuuAt(p) /\ LsqAt(p)' = LsqAt(p)
      /\ RuuTail \in Entering(mem) /\ (LsqTail \in Entering(mem) <=> mem)
  BY EnteredWindow
<1>2. RUU_num' \in Nat /\ RUU_num + 1 \in Nat
  BY <1>1
<1>3. /\ A \subseteq Nat
      /\ \A p \in Nat : p \in A <=> p < RUU_num /\ rs[RuuAt(p)].ea_comp
      /\ \A p \in A : p \in Nat /\ p < RUU_num
  BY <1>1, AgensAre
<1>4. /\ B \subseteq Nat
      /\ \A p \in Nat : p \in B <=> p < RUU_num + 1 /\ rs'[RuuAt(p)].ea_comp
  BY <1>1, <1>2, AgensNext
<1> HIDE DEF A, B
<1>5. \A p \in Nat : p < RUU_num => (p \in B <=> p \in A)
  BY <1>1, <1>3, <1>4, EnteredOld DEF SameText
<1>6. RUU_num \in B <=> mem
  <2>1. rs'[RuuTail].ea_comp = mem
    BY DEF Entered, EnteredText
  <2>2. RUU_num < RUU_num + 1
    BY <1>1
  <2> QED
    BY <1>1, <1>4, <2>1, <2>2
<1>7. \A p \in Nat : p <= RUU_num => RankIn(B, p) = RankIn(A, p)
  <2> SUFFICES ASSUME NEW p \in Nat, p <= RUU_num
               PROVE  RankIn(B, p) = RankIn(A, p)
    OBVIOUS
  <2>1. \A q \in Nat : q < p => (q \in B <=> q \in A)
    BY <1>1, <1>5
  <2> QED
    BY <1>3, <1>4, <2>1, RankAgree
<1>8. RankIn(A, RUU_num) = LSQ_num
  BY DEF Accesses, A
<1>9. RankIn(B, RUU_num) = LSQ_num /\ RankIn(B, RUU_num') = LSQ_num'
  <2>1. RankIn(B, RUU_num) = LSQ_num
    BY <1>1, <1>7, <1>8
  <2>2. RankIn(B, RUU_num + 1) = RankIn(B, RUU_num) + One(RUU_num \in B)
    BY <1>1, <1>4, RankStep
  <2>3. One(RUU_num \in B) = One(mem)
    BY <1>6 DEF One
  <2> QED
    BY <1>1, <2>1, <2>2, <2>3
<1>10. ASSUME NEW p \in Nat, NEW k \in Nat, p \in B, k = RankIn(B, p)
       PROVE  Matches(p, k)'
  <2>1. CASE p < RUU_num
    <3>1. p \in A /\ k = RankIn(A, p)
      BY <1>1, <1>5, <1>7, <1>10, <2>1
    <3>2. k \in 0 .. LSQ_num - 1 /\ Matches(p, k)
      BY <1>1, <3>1, AccessPlace DEF A, Accesses
    <3>3. k < LSQ_num
      BY <1>1, <3>2
    <3>4. /\ SameText(rs'[RuuAt(p)], rs[RuuAt(p)]) /\ SameText(rs'[LsqAt(k)], rs[LsqAt(k)])
      BY <2>1, <3>3, EnteredOld
    <3> QED
      BY <1>1, <3>2, <3>4 DEF Matches, SameText
  <2>2. CASE p = RUU_num
    <3>1. mem /\ k = LSQ_num
      BY <1>6, <1>9, <1>10, <2>2
    <3>2. /\ IsMem(rs'[LsqTail].op) /\ rs'[LsqTail].PC = rs'[RuuTail].PC
      BY <3>1 DEF Entered, EnteredText
    <3>3. rs'[LsqTail].spec_mode = spec_mode /\ rs'[RuuTail].spec_mode = spec_mode
      BY <1>1, <3>1 DEF Entered, Fresh
    <3> QED
      BY <1>1, <2>2, <3>1, <3>2, <3>3 DEF Matches
  <2>3. p < RUU_num + 1
    BY <1>4, <1>10
  <2> QED
    BY <1>1, <2>1, <2>2, <2>3
<1>11. ASSUME NEW k \in 0 .. LSQ_num' - 1
       PROVE  \E p \in B : RankIn(B, p) = k
  <2>0. PICK m \in Nat : m = LSQ_num'
    BY <1>1 DEF One
  <2>1. k \in Nat /\ k < LSQ_num + One(mem)
    <3>1. k \in 0 .. m - 1 /\ m = LSQ_num + One(mem)
      BY <1>1, <2>0
    <3> QED
      BY <2>0, <3>1
  <2>2. CASE k < LSQ_num
    <3>1. k \in 0 .. LSQ_num - 1
      BY <1>1, <2>1, <2>2
    <3>2. PICK p \in A : RankIn(A, p) = k
      BY <3>1 DEF Accesses, A
    <3>3. p \in Nat /\ p < RUU_num
      BY <1>3
    <3> QED
      BY <1>1, <1>5, <1>7, <3>2, <3>3
  <2>3. CASE k = LSQ_num /\ mem
    BY <1>6, <1>9, <2>3
  <2>4. k < LSQ_num \/ (k = LSQ_num /\ mem)
    BY <1>1, <2>1 DEF One
  <2> QED
    BY <2>2, <2>3, <2>4
<1> QED
  BY <1>2, <1>9, <1>10, <1>11, AccessesNext DEF B

\* Taking new entries into the window keeps the wrong path at the tail of the window.
LEMMA EnteredWrongPath ==
  ASSUME TypeOK, Rings, NEW mem, Extended(mem), Entered(mem), WrongPath
  PROVE  WrongPath'
<1>1. /\ RingsTyped /\ RUU_num \in Nat /\ RUU_num' = RUU_num + 1 /\ RuuAt(RUU_num) = RuuTail
      /\ \A p : RuuAt(p)' = RuuAt(p)
      /\ RuuTail \in Entering(mem)
  BY EnteredWindow
<1>2. /\ ~ rs'[RuuTail].completed /\ rs'[RuuTail].spec_mode = spec_mode
      /\ (rs'[RuuTail].recover_inst <=> spec_mode' /\ ~ spec_mode)
      /\ (spec_mode => spec_mode') /\ (~ spec_mode => use_spec_cv' = use_spec_cv)
  BY <1>1 DEF Entered, Fresh, EnteredText
<1>3. \A p : /\ (p \in Window <=> p \in Nat /\ p < RUU_num)
             /\ (p \in Window' <=> p \in Nat /\ p < RUU_num + 1)
  BY <1>1 DEF Window
<1>4. \A p \in Window : /\ rs'[RuuAt(p)].spec_mode = rs[RuuAt(p)].spec_mode
                        /\ rs'[RuuAt(p)].recover_inst = rs[RuuAt(p)].recover_inst
                        /\ rs'[RuuAt(p)].completed = rs[RuuAt(p)].completed
  BY <1>3, EnteredOld DEF SameText, SameState
<1>5. \A p : p \in Window' <=> p \in Window \/ p = RUU_num
  BY <1>1, <1>3
<1>6. \A p : p \in Branches' <=> p \in Branches \/ (p = RUU_num /\ spec_mode' /\ ~ spec_mode)
  <2>1. \A p : p \in Branches' <=> p \in Window' /\ rs'[RuuAt(p)].recover_inst /\ ~ rs'[RuuAt(p)].completed
    BY <1>1 DEF Branches
  <2>2. \A p : p \in Branches <=> p \in Window /\ rs[RuuAt(p)].recover_inst /\ ~ rs[RuuAt(p)].completed
    BY DEF Branches
  <2>3. RUU_num \notin Window
    BY <1>1, <1>3
  <2> QED
    BY <1>1, <1>2, <1>4, <1>5, <2>1, <2>2, <2>3
<1>7. CASE spec_mode
  <2>1. PICK b \in Nat : b \in Branches
    BY <1>7 DEF WrongPath
  <2>2. \A p : p \in Branches' <=> p \in Branches
    BY <1>6, <1>7
  <2>3. \A c \in Branches', p \in Window' : rs'[RuuAt(p)].spec_mode <=> p > c
    <3> SUFFICES ASSUME NEW c \in Branches', NEW p \in Window'
                 PROVE  rs'[RuuAt(p)].spec_mode <=> p > c
      OBVIOUS
    <3>1. c \in Branches /\ c \in Nat /\ c < RUU_num
      BY <1>3, <2>2 DEF Branches
    <3>2. CASE p \in Window
      BY <1>4, <3>1, <3>2 DEF WrongPath
    <3>3. CASE p = RUU_num
      BY <1>1, <1>2, <1>7, <3>1, <3>3
    <3> QED
      BY <1>5, <3>2, <3>3
  <2>4. spec_mode'
    BY <1>2, <1>7
  <2> QED
    BY <1>1, <2>1, <2>2, <2>3, <2>4 DEF WrongPath
<1>8. CASE ~ spec_mode
  <2>1. /\ \A p : p \notin Branches \/ p \notin Nat
        /\ use_spec_cv = {} /\ \A p \in Window : ~ rs[RuuAt(p)].spec_mode
    BY <1>8 DEF WrongPath
  <2>2. \A p : p \notin Branches
    BY <1>3, <2>1 DEF Branches
  <2>3. use_spec_cv' = {}
    BY <1>2, <1>8, <2>1
  <2>4. \A p \in Window' : ~ rs'[RuuAt(p)].spec_mode
    BY <1>1, <1>2, <1>4, <1>5, <1>8, <2>1
  <2>5. \A p : p \in Branches' <=> p = RUU_num /\ spec_mode'
    BY <1>6, <1>8, <2>2
  <2>6. \A c \in Branches', p \in Window' : rs'[RuuAt(p)].spec_mode <=> p > c
    <3> SUFFICES ASSUME NEW c \in Branches', NEW p \in Window'
                 PROVE  ~ (p > c)
      BY <2>4
    <3>1. c = RUU_num /\ p \in Nat /\ p < RUU_num + 1
      BY <1>3, <2>5
    <3> QED
      BY <1>1, <3>1
  <2> QED
    BY <1>1, <2>3, <2>4, <2>5, <2>6 DEF WrongPath
<1> QED
  BY <1>7, <1>8

\* Taking new entries into the window keeps the ready lists, the event queue and the
\* links in agreement with the stations.
LEMMA EnteredLists ==
  ASSUME TypeOK, Rings, Kinds, NEW mem, Extended(mem), Entered(mem), Lists
  PROVE  Lists'
<1>1. /\ RingsTyped /\ Stations' = Stations /\ mem \in BOOLEAN
      /\ \A s \in Stations : InWindow(s)' <=> InWindow(s) \/ s \in Entering(mem)
      /\ \A s \in Entering(mem) : s \in Stations /\ ~ InWindow(s)
      /\ InFlight' = InFlight \cup Entering(mem)
      /\ LSQ_num \in Nat /\ LSQ_num' = LSQ_num + One(mem)
      /\ \A p : LsqAt(p)' = LsqAt(p)
      /\ LsqAt(LSQ_num) = LsqTail /\ (LsqTail \in Entering(mem) <=> mem) /\ LsqTail[1] = "LSQ"
  BY EnteredWindow
<1>1a. \A s \in Entering(mem) : s[1] = "RUU" \/ (s[1] = "LSQ" /\ s = LsqTail /\ mem)
  BY EnteredWindow
<1>2. RsTyped /\ TagsKept /\ rs \in [Stations -> Station] /\ event_queue' = event_queue /\ node' = node
  BY DEF Entered, TypeOK
<1>3. EnteredQueue(mem) /\ EnteredText(mem) /\ \A s \in Entering(mem) : Fresh(s)
  BY DEF Entered
<1>4. \A s \in Stations : s \notin Entering(mem) =>
        SameText(rs'[s], rs[s]) /\ SameState(rs'[s], rs[s]) /\ IdepKept(s)
  BY DEF Entered
<1>5. \A s \in Stations : OPERANDS_READY(s)' <=> \A k \in 1 .. 3 : rs'[s].idep_ready[k]
  BY DEF OPERANDS_READY
<1>6. Flagged'
  <2>1. ASSUME NEW s \in Stations, InWindow(s)'
        PROVE  /\ rs'[s].queued => ~ rs'[s].issued
               /\ rs'[s].completed => rs'[s].issued
               /\ rs'[s].queued \/ rs'[s].issued => OPERANDS_READY(s)'
               /\ OPERANDS_READY(s)' /\ ~ rs'[s].queued /\ ~ rs'[s].issued => s[1] = "LSQ" /\ IsLoad(rs'[s].op)
    <3>1. CASE s \in Entering(mem)
      <4>1. Fresh(s)
        BY <1>3, <3>1
      <4>2. s[1] = "LSQ" => IsMem(rs'[s].op) /\ rs'[s].op \in DOMAIN OpTable
        BY <1>1a, <1>2, <1>3, <3>1 DEF EnteredText, RsTyped, Station
      <4>3. s[1] = "LSQ" => (IsLoad(rs'[s].op) \/ IsStore(rs'[s].op))
        BY <4>2, OpNames
      <4>4. s[1] = "RUU" \/ s[1] = "LSQ"
        BY <1>1a, <3>1
      <4> QED
        BY <1>5, <4>1, <4>3, <4>4 DEF Fresh
    <3>2. CASE s \notin Entering(mem)
      <4>1. InWindow(s)
        BY <1>1, <2>1, <3>2
      <4>2. OPERANDS_READY(s)' <=> OPERANDS_READY(s)
        BY <1>4, <3>2 DEF OPERANDS_READY, IdepKept
      <4>3. SameText(rs'[s], rs[s]) /\ SameState(rs'[s], rs[s])
        BY <1>4, <3>2
      <4> QED
        BY <4>1, <4>2, <4>3 DEF Lists, Flagged, SameText, SameState
    <3> QED
      BY <3>1, <3>2
  <2> QED
    BY <1>1, <2>1 DEF Flagged
<1>7. Counted'
  <2>1. ASSUME NEW s \in Stations
        PROVE  /\ ReadyCount(s)' = One(InWindow(s)' /\ rs'[s].queued)
               /\ EventCount(s)' = One(InWindow(s)' /\ UnderWay(s)')
    <3>1. /\ ReadyCount(s) = One(InWindow(s) /\ rs[s].queued)
          /\ EventCount(s) = One(InWindow(s) /\ UnderWay(s))
      BY CountedIs DEF Lists
    <3>2. /\ EventCount(s)' = EventCount(s)
          /\ ReadyCount(s)' = CountOf(ready_queue', s, rs[s].tag) + CountOf(node, s, rs[s].tag)
      BY <1>2 DEF EventCount, ReadyCount, TagsKept
    <3>3. CountOf(ready_queue', s, rs[s].tag)
            = CountOf(ready_queue, s, rs[s].tag) + One(s \in Entering(mem) /\ rs'[s].queued)
      BY <1>3 DEF EnteredQueue
    <3>4. CountOf(ready_queue, s, rs[s].tag) \in Nat /\ CountOf(node, s, rs[s].tag) \in Nat
      BY CountTyped
    <3>5. CASE s \in Entering(mem)
      <4>1. ~ InWindow(s) /\ InWindow(s)' /\ Fresh(s)
        BY <1>1, <1>3, <3>5
      <4>2. ReadyCount(s) = 0 /\ EventCount(s) = 0
        BY <3>1, <4>1 DEF One
      <4>3. ~ UnderWay(s)'
        BY <4>1 DEF UnderWay, Fresh
      <4>4. One(InWindow(s)' /\ UnderWay(s)') = 0
        BY <4>3 DEF One
      <4>5. CountOf(ready_queue, s, rs[s].tag) = 0 /\ CountOf(node, s, rs[s].tag) = 0
        BY <3>4, <4>2 DEF ReadyCount
      <4>6. One(s \in Entering(mem) /\ rs'[s].queued) = One(InWindow(s)' /\ rs'[s].queued)
        BY <3>5, <4>1 DEF One
      <4>7. One(InWindow(s)' /\ rs'[s].queued) \in Nat
        BY DEF One
      <4>8. PICK v \in Nat : v = One(InWindow(s)' /\ rs'[s].queued)
        BY <4>7
      <4>9. ReadyCount(s)' = v
        BY <3>2, <3>3, <4>5, <4>6, <4>8
      <4> QED
        BY <3>2, <4>2, <4>4, <4>8, <4>9
    <3>6. CASE s \notin Entering(mem)
      <4>1. (InWindow(s)' <=> InWindow(s)) /\ SameState(rs'[s], rs[s])
        BY <1>1, <1>4, <3>6
      <4>2. One(InWindow(s)' /\ rs'[s].queued) = One(InWindow(s) /\ rs[s].queued)
        BY <4>1 DEF One, SameState
      <4>3. One(InWindow(s)' /\ UnderWay(s)') = One(InWindow(s) /\ UnderWay(s))
        BY <4>1 DEF One, SameState, UnderWay
      <4>4. One(s \in Entering(mem) /\ rs'[s].queued) = 0
        BY <3>6 DEF One
      <4>5. ReadyCount(s)' = ReadyCount(s)
        BY <3>2, <3>3, <3>4, <4>4 DEF ReadyCount
      <4> QED
        BY <3>1, <3>2, <4>2, <4>3, <4>5
    <3> QED
      BY <3>5, <3>6
  <2>2. (Counted <=> \A s \in Stations : /\ ReadyCount(s) = One(InWindow(s) /\ rs[s].queued)
                                         /\ EventCount(s) = One(InWindow(s) /\ UnderWay(s)))'
    BY CountedIs, PTL
  <2> QED
    BY <1>1, <2>1, <2>2 DEF One
<1>8. AllPast'
  <2>1. TagsGrow /\ AllPast
    BY <1>2, KeptGrow DEF Lists
  <2>2. \A i \in DOMAIN ready_queue' : ready_queue'[i].tag <= rs'[ready_queue'[i].rs].tag
    <3>1. \A i \in DOMAIN ready_queue' :
             \/ ready_queue'[i].rs \in Stations /\ ready_queue'[i].tag = rs[ready_queue'[i].rs].tag
             \/ \E j \in DOMAIN event_queue : ready_queue'[i] = event_queue[j]
             \/ \E j \in DOMAIN ready_queue : ready_queue'[i] = ready_queue[j]
             \/ \E j \in DOMAIN node : ready_queue'[i] = node[j]
      BY <1>3 DEF EnteredQueue
    <3> QED
      BY <2>1, <3>1, QueuePast
  <2> QED
    BY <1>2, <2>1, <2>2, PastSame DEF AllPast, PastTags
<1>9. LinkInv(rs, InFlight)'
  <2>1. LinkInv(rs', InFlight \cup Entering(mem))
    BY DEF Entered
  <2> QED
    BY <1>1, <2>1 DEF LinkInv, Wanted, Alone, PastChains
<1>10. MemoryOrder'
  <2>1. LSQ_num' \in Nat /\ 0 \in Nat
    BY <1>1 DEF One
  <2>2. ASSUME NEW p \in 0 .. LSQ_num' - 1
        PROVE  /\ OnItsWay(p)' => p + 0 \in 0 .. LSQ_num - 1 /\ OnItsWay(p + 0)
               /\ p + 0 \in 0 .. LSQ_num - 1 =>
                    /\ LsqAt(p)' = LsqAt(p + 0) /\ SameText(rs'[LsqAt(p + 0)], rs[LsqAt(p + 0)])
                    /\ \A k \in 1 .. 3 : rs[LsqAt(p + 0)].idep_ready[k] => rs'[LsqAt(p + 0)].idep_ready[k]
    <3>1. p \in Nat /\ p + 0 = p /\ p < LSQ_num + One(mem)
      <4>1. PICK m \in Nat : m = LSQ_num'
        BY <2>1
      <4>2. p \in 0 .. m - 1 /\ m = LSQ_num + One(mem)
        BY <1>1, <4>1
      <4> QED
        BY <4>1, <4>2
    <3>2. CASE p < LSQ_num
      <4>1. /\ LsqAt(p) \in Stations /\ LsqAt(p) \notin Entering(mem)
            /\ SameText(rs'[LsqAt(p)], rs[LsqAt(p)]) /\ SameState(rs'[LsqAt(p)], rs[LsqAt(p)])
        BY <3>1, <3>2, EnteredOld
      <4>2. IdepKept(LsqAt(p))
        BY <1>4, <4>1
      <4>3. OnItsWay(p)' => OnItsWay(p)
        BY <1>1, <4>1 DEF OnItsWay, SameText, SameState
      <4>4. p \in 0 .. LSQ_num - 1
        BY <1>1, <3>1, <3>2
      <4> QED
        BY <1>1, <3>1, <4>1, <4>2, <4>3, <4>4 DEF IdepKept
    <3>3. CASE p = LSQ_num /\ mem
      <4>1. Fresh(LsqTail) /\ LsqAt(p)' = LsqTail
        BY <1>1, <1>3, <3>3
      <4>2. rs'[LsqTail].op \in DOMAIN OpTable
        BY <1>1, <1>2, <3>3 DEF RsTyped, Station
      <4>3. ~ (IsLoad(rs'[LsqTail].op) /\ IsStore(rs'[LsqTail].op))
        BY <4>2 DEF OpTable, IsLoad, IsStore, MD_OP_FLAGS
      <4>4. ~ OnItsWay(p)'
        BY <1>1, <4>1, <4>3 DEF OnItsWay, Fresh
      <4>5. p \notin 0 .. LSQ_num - 1
        BY <1>1, <3>3
      <4> QED
        BY <3>1, <4>4, <4>5
    <3>4. p < LSQ_num \/ (p = LSQ_num /\ mem)
      BY <1>1, <3>1 DEF One
    <3> QED
      BY <3>2, <3>3, <3>4
  <2> QED
    BY <1>1, <2>1, <2>2, MemoryOrderMoved DEF Lists
<1> QED
  BY <1>6, <1>7, <1>8, <1>9, <1>10 DEF Lists

-----------------------------------------------------------------------------
\* Types, in groups.
FetchLinks == [regs_PC : Nat, pred_PC : Nat]
CvOK ==
  /\ create_vector \in [Regs -> CvEntry] /\ spec_create_vector \in [Regs -> CvEntry]
  /\ use_spec_cv \subseteq Regs
QueuesOK ==
  /\ event_queue \in Seq(EventLinks) /\ ready_queue \in Seq(ReadyLinks) /\ node \in Seq(ReadyLinks)
  /\ free_links \in Int
FetchOK ==
  /\ fetch_data \in Seq(FetchLinks) /\ Len(fetch_data) <= ruu_ifq_size
  /\ fetch_pred_PC \in Nat /\ ruu_fetch_issue_delay \in Nat /\ missed_PC \in Nat
SpecOK == spec_mode \in BOOLEAN /\ recover_PC \in Nat /\ sim_num_insn \in Nat /\ inst_seq \in Nat
LastOK == last_op \in [rs : Stations \cup {NULL}, tag : Nat]
CountOK == n \in Nat /\ branch_cnt \in Nat
PlaceOK == stage \in Stages /\ wb \in Stations \cup {NULL}
BusyOK == busy \in [Resources -> Nat]
Types ==
  /\ code \in Programs /\ rs \in [Stations -> Station]
  /\ RingsTyped /\ CvOK /\ QueuesOK /\ FetchOK /\ SpecOK /\ LastOK /\ CountOK /\ PlaceOK /\ BusyOK

\* Types is TypeOK with the types of the create vectors.
LEMMA TypesAre == TypeOK /\ CvTypes <=> Types
<1>1. CvEntry \subseteq CVLinks
  <2>1. CVLINK_NULL \in CVLinks
    BY DEF CVLINK_NULL, CVLinks
  <2>2. [rs : Stations, odep : 1 .. 2] \subseteq CVLinks
    BY DEF CVLinks
  <2> QED
    BY <2>1, <2>2 DEF CvEntry
<1>2. TypeOK /\ CvTypes => CvOK
  <2> SUFFICES ASSUME TypeOK, CvTypes PROVE CvOK
    OBVIOUS
  <2>1. /\ create_vector \in [Regs -> CVLinks] /\ spec_create_vector \in [Regs -> CVLinks]
        /\ use_spec_cv \subseteq Regs
    BY DEF TypeOK
  <2>2. \A r \in Regs : create_vector[r] \in CvEntry /\ spec_create_vector[r] \in CvEntry
    BY DEF CvTypes, CvEntry
  <2> HIDE DEF CvEntry
  <2> QED
    BY <2>1, <2>2 DEF CvOK
<1>3. CvOK => CvTypes /\ create_vector \in [Regs -> CVLinks] /\ spec_create_vector \in [Regs -> CVLinks]
  <2> SUFFICES ASSUME CvOK
               PROVE  CvTypes /\ create_vector \in [Regs -> CVLinks] /\ spec_create_vector \in [Regs -> CVLinks]
    OBVIOUS
  <2>1. \A r \in Regs : create_vector[r] \in CvEntry /\ spec_create_vector[r] \in CvEntry
    BY DEF CvOK
  <2>2. CvTypes
    BY <2>1 DEF CvTypes, CvEntry
  <2> QED
    BY <1>1, <2>1, <2>2 DEF CvOK
<1>4. TypeOK /\ CvTypes => Types
  BY <1>2, RingsAreTyped DEF TypeOK, Types, QueuesOK, FetchOK, SpecOK, LastOK, CountOK, PlaceOK, BusyOK,
     EventLinks, FetchLinks
<1>5. Types => TypeOK /\ CvTypes
  BY <1>3 DEF TypeOK, Types, RingsTyped, CvOK, QueuesOK, FetchOK, SpecOK, LastOK, CountOK, PlaceOK, BusyOK,
     EventLinks, FetchLinks
<1> QED
  BY <1>4, <1>5

\* What does not change keeps its type.
LEMMA TypesKept ==
  ASSUME Types
  PROVE  /\ code' = code => code' \in Programs
         /\ WindowKept => RingsTyped' /\ Stations' = Stations
         /\ UNCHANGED <<config, cvVars>> => CvOK'
         /\ UNCHANGED <<config, queueVars>> => QueuesOK'
         /\ UNCHANGED <<config, fetchVars>> => FetchOK'
         /\ UNCHANGED <<config, specVars, countVars>> => SpecOK'
         /\ UNCHANGED <<config, last_op>> => LastOK'
         /\ UNCHANGED <<config, n, branch_cnt>> => CountOK'
         /\ UNCHANGED <<config, wb>> /\ stage' \in Stages => PlaceOK'
         /\ UNCHANGED <<config, busy>> => BusyOK'
<1>0. config' = config => Stations' = Stations
  BY StationsKept
<1>1. code' = code => code' \in Programs
  BY DEF Types
<1>2. WindowKept => RingsTyped' /\ Stations' = Stations
  BY <1>0 DEF Types, RingsTyped, WindowKept, windowVars, LSQ_size
<1>3. UNCHANGED <<config, cvVars>> => CvOK'
  BY <1>0 DEF Types, CvOK, cvVars, CvEntry
<1>4. UNCHANGED <<config, queueVars>> => QueuesOK'
  BY <1>0 DEF Types, QueuesOK, queueVars, EventLinks, ReadyLinks
<1>5. UNCHANGED <<config, fetchVars>> => FetchOK'
  BY DEF Types, FetchOK, fetchVars
<1>6. UNCHANGED <<config, specVars, countVars>> => SpecOK'
  BY DEF Types, SpecOK, specVars, countVars
<1>7. UNCHANGED <<config, last_op>> => LastOK'
  BY <1>0 DEF Types, LastOK
<1>8. UNCHANGED <<config, n, branch_cnt>> => CountOK'
  BY DEF Types, CountOK
<1>9. UNCHANGED <<config, wb>> /\ stage' \in Stages => PlaceOK'
  BY <1>0 DEF Types, PlaceOK
<1>10. UNCHANGED <<config, busy>> => BusyOK'
  BY DEF Types, BusyOK
<1> QED
  BY <1>1, <1>2, <1>3, <1>4, <1>5, <1>6, <1>7, <1>8, <1>9, <1>10

\* The names of the stages.
LEMMA StageNames ==
  /\ "commit" \in Stages /\ "writeback" \in Stages /\ "broadcast" \in Stages /\ "refresh" \in Stages
  /\ "issue" \in Stages /\ "dispatch" \in Stages /\ "fetch" \in Stages /\ "cycle" \in Stages
  /\ "returned" \in Stages /\ "panic" \in Stages
BY DEF Stages

\* A unit given another time keeps the times of the units typed.
LEMMA BusySet ==
  ASSUME BusyOK, NEW r, NEW v \in Nat, busy' = [busy EXCEPT ![r] = v]
  PROVE  BusyOK'
BY DEF BusyOK

\* A step that leaves the stations, the window and the queues alone keeps the types.
LEMMA QuietTypes ==
  ASSUME Types, rs' = rs, UNCHANGED <<code, config, windowVars, cvVars, queueVars, specVars, last_op, countVars, wb>>,
         stage' \in Stages, CountOK', FetchOK', BusyOK'
  PROVE  Types'
<1>1. WindowKept /\ UNCHANGED <<config, cvVars>> /\ UNCHANGED <<config, queueVars>>
      /\ UNCHANGED <<config, specVars, countVars>> /\ UNCHANGED <<config, last_op>> /\ UNCHANGED <<config, wb>>
  BY DEF WindowKept
<1>2. Stations' = Stations /\ rs' \in [Stations' -> Station'] /\ code' \in Programs
  BY <1>1, TypesKept DEF Types, Station, Links_
<1> QED
  BY <1>1, <1>2, TypesKept DEF Types

-----------------------------------------------------------------------------
\* Every step keeps the types.

\* The stations have their fields after the step.
LEMMA RsNext == RsTyped => rs' \in [Stations' -> Station']
BY DEF RsTyped, Station, Links_

\* The simple steps.
LEMMA CommitEndTypes == ASSUME Types, CommitEnd PROVE Types'
<1>1. busy \in [Resources -> Nat]
  BY DEF Types, BusyOK
<1>2. BusyOK'
  <2>1. \A r \in Resources : (IF busy[r] > 0 THEN busy[r] - 1 ELSE 0) \in Nat
    BY <1>1
  <2> QED
    BY <2>1 DEF BusyOK, CommitEnd
<1>3. stage' \in Stages
  BY StageNames DEF CommitEnd
<1>4. CountOK' /\ FetchOK'
  BY TypesKept DEF CommitEnd
<1> QED
  BY <1>2, <1>3, <1>4, QuietTypes DEF CommitEnd

\* The end of ruu_writeback keeps the types.
LEMMA WritebackEndTypes == ASSUME Types, WritebackEnd PROVE Types'
<1>1. CountOK'
  BY DEF WritebackEnd, Types, CountOK
<1>2. stage' \in Stages
  BY StageNames DEF WritebackEnd
<1>3. BusyOK' /\ FetchOK'
  BY TypesKept DEF WritebackEnd
<1> QED
  BY <1>1, <1>2, <1>3, QuietTypes DEF WritebackEnd

\* The end of ruu_dispatch keeps the types.
LEMMA DispatchEndTypes == ASSUME Types, DispatchEnd PROVE Types'
<1>1. CountOK'
  BY DEF DispatchEnd, Types, CountOK
<1>2. stage' \in Stages
  BY StageNames DEF DispatchEnd
<1>3. BusyOK' /\ FetchOK'
  BY TypesKept DEF DispatchEnd
<1> QED
  BY <1>1, <1>2, <1>3, QuietTypes DEF DispatchEnd

\* The end of ruu_issue keeps the types.
LEMMA IssueEndTypes == ASSUME Types, IssueEnd PROVE Types'
<1>1. CountOK'
  BY DEF IssueEnd, issueRest, Types, CountOK
<1>2. stage' \in Stages
  BY StageNames DEF IssueEnd
<1>3. BusyOK' /\ FetchOK'
  BY TypesKept DEF IssueEnd, issueRest
<1> QED
  BY <1>1, <1>2, <1>3, QuietTypes DEF IssueEnd, issueRest

\* The end of a broadcast keeps the types.
LEMMA WakeEndTypes == ASSUME Types, WakeEnd PROVE Types'
<1>1. /\ WindowKept /\ UNCHANGED <<config, cvVars>> /\ UNCHANGED <<config, queueVars>>
      /\ UNCHANGED <<config, specVars, countVars>> /\ UNCHANGED <<config, last_op>>
      /\ UNCHANGED <<config, fetchVars>> /\ UNCHANGED <<config, n, branch_cnt>> /\ UNCHANGED <<config, busy>>
      /\ rs' = rs
  BY DEF WakeEnd, WindowKept
<1>2. Stations' = Stations /\ rs' \in [Stations' -> Station'] /\ code' \in Programs
  BY <1>1, TypesKept DEF Types, Station, Links_, WindowKept
<1>3. PlaceOK'
  BY <1>2, StageNames DEF WakeEnd, PlaceOK
<1> QED
  BY <1>1, <1>2, <1>3, TypesKept DEF Types

\* A miss in the instruction cache keeps the types.
LEMMA FetchMissTypes == ASSUME Types, FetchMiss PROVE Types'
<1>1. PICK lat \in FetchLats : ruu_fetch_issue_delay' = lat - 1
  BY DEF FetchMiss
<1>2. lat \in Nat \ {0}
  BY ProgramAssumption
<1>3. lat - 1 \in Nat
  BY <1>2
<1>4. FetchOK'
  BY <1>1, <1>3 DEF FetchMiss, Types, FetchOK
<1>5. stage' \in Stages
  BY StageNames DEF FetchMiss
<1>6. BusyOK' /\ CountOK'
  BY TypesKept DEF FetchMiss, fetchRest
<1> QED
  BY <1>4, <1>5, <1>6, QuietTypes DEF FetchMiss, fetchRest

\* The end of ruu_fetch keeps the types.
LEMMA FetchEndTypes == ASSUME Types, FetchEnd PROVE Types'
<1>1. ruu_fetch_issue_delay \in Nat
  BY DEF Types, FetchOK
<1>2. ruu_fetch_issue_delay' \in Nat
  BY <1>1 DEF FetchEnd
<1>3. FetchOK'
  BY <1>2 DEF FetchEnd, Types, FetchOK
<1>4. stage' \in Stages
  BY StageNames DEF FetchEnd
<1>5. BusyOK' /\ CountOK'
  BY TypesKept DEF FetchEnd, fetchRest
<1> QED
  BY <1>3, <1>4, <1>5, QuietTypes DEF FetchEnd, fetchRest

\* One instruction at the end of the queue, at the address where fetch is.
LEMMA Appended ==
  ASSUME NEW S, NEW q \in Seq(S), NEW e \in S
  PROVE  /\ Append(q, e) \in Seq(S) /\ Len(Append(q, e)) = Len(q) + 1 /\ Len(q) \in Nat
         /\ \A i \in DOMAIN Append(q, e) : Append(q, e)[i] = e \/ (i \in DOMAIN q /\ Append(q, e)[i] = q[i])
OBVIOUS

Targets(pc) ==
  IF ~ config.perfect /\ IsCtrl(InstAt(pc).op) THEN Predictions(code, pc) ELSE {0}

\* ruu_fetch appends an instruction with the successor that the predictor chose.
LEMMA FetchIs ==
  ASSUME Types, Fetch
  PROVE  \E target \in Nat, next \in Nat :
           /\ next = IF target = 0 THEN fetch_pred_PC + 1 ELSE target
           /\ (~ IsCtrl(InstAt(fetch_pred_PC).op) => target = 0)
           /\ fetch_data' = Append(fetch_data, [regs_PC |-> fetch_pred_PC, pred_PC |-> next])
           /\ fetch_pred_PC' = next
           /\ branch_cnt' = IF target = 0 THEN branch_cnt ELSE branch_cnt + 1
<1>1. PICK target \in Targets(fetch_pred_PC) :
        /\ fetch_data' = Append(fetch_data, [regs_PC |-> fetch_pred_PC,
                                             pred_PC |-> IF target = 0 THEN fetch_pred_PC + 1 ELSE target])
        /\ fetch_pred_PC' = IF target = 0 THEN fetch_pred_PC + 1 ELSE target
        /\ branch_cnt' = IF target = 0 THEN branch_cnt ELSE branch_cnt + 1
  BY Zenon DEF Fetch, Targets
<1>2. fetch_pred_PC \in Nat /\ code \in Programs
  BY DEF Types, FetchOK
<1>3. ~ IsCtrl(InstAt(fetch_pred_PC).op) => target = 0
  BY <1>1 DEF Targets
<1>4. target \in Nat
  <2>1. CASE fetch_pred_PC \in DOMAIN code
    BY <1>1, <1>2, <2>1, ProgramAssumption DEF Targets
  <2>2. CASE fetch_pred_PC \notin DOMAIN code
    <3>1. ~ IsCtrl(InstAt(fetch_pred_PC).op)
      BY <2>2 DEF InstAt, InstOf, NOP, IsCtrl, MD_OP_FLAGS, OpTable
    <3> QED
      BY <1>3, <3>1
  <2> QED
    BY <2>1, <2>2
<1> DEFINE next == IF target = 0 THEN fetch_pred_PC + 1 ELSE target
<1>5. next \in Nat
  BY <1>2, <1>4
<1> QED
  BY <1>1, <1>3, <1>4, <1>5

\* ruu_fetch keeps the types.
LEMMA FetchTypes == ASSUME Types, Fetch PROVE Types'
<1>1. PICK target \in Nat, next \in Nat :
           /\ fetch_data' = Append(fetch_data, [regs_PC |-> fetch_pred_PC, pred_PC |-> next])
           /\ fetch_pred_PC' = next
           /\ branch_cnt' = IF target = 0 THEN branch_cnt ELSE branch_cnt + 1
  BY FetchIs
<1>2. /\ fetch_data \in Seq(FetchLinks) /\ fetch_pred_PC \in Nat /\ n \in Nat /\ branch_cnt \in Nat
      /\ ruu_fetch_issue_delay \in Nat
  BY DEF Types, FetchOK, CountOK
<1>3. [regs_PC |-> fetch_pred_PC, pred_PC |-> next] \in FetchLinks
  BY <1>2 DEF FetchLinks
<1>4. Len(fetch_data) < ruu_ifq_size /\ ruu_ifq_size \in Nat
  BY WidthType DEF Fetch, CanFetch
<1>5. fetch_data' \in Seq(FetchLinks) /\ Len(fetch_data') = Len(fetch_data) + 1 /\ Len(fetch_data) \in Nat
  BY <1>1, <1>2, <1>3, Appended
<1>6. Len(fetch_data') <= ruu_ifq_size
  BY <1>4, <1>5
<1>7. FetchOK'
  BY <1>1, <1>2, <1>5, <1>6 DEF FetchOK, Fetch
<1>8. CountOK'
  BY <1>1, <1>2 DEF CountOK, Fetch
<1>9. stage' \in Stages
  BY DEF Fetch, Types, PlaceOK
<1>10. BusyOK'
  BY TypesKept DEF Fetch, fetchRest
<1> QED
  BY <1>7, <1>8, <1>9, <1>10, QuietTypes DEF Fetch, fetchRest

\* What Types gives of each variable.
LEMMA TypesGive ==
  ASSUME Types
  PROVE  /\ TypeOK /\ CvTypes /\ RingsTyped
         /\ event_queue \in Seq(EventLinks) /\ ready_queue \in Seq(ReadyLinks) /\ node \in Seq(ReadyLinks)
         /\ free_links \in Int /\ n \in Nat /\ branch_cnt \in Nat
         /\ rs \in [Stations -> Station]
         /\ \A s \in Stations : rs[s].tag \in Nat /\ rs[s].seq \in Nat
BY TypesAre, QueuesTyped DEF Types, QueuesOK, CountOK

\* A step of the back end that changes the stations, the queues and the units, and counts.
LEMMA BackTypes ==
  ASSUME Types, RsTyped, WindowKept, UNCHANGED <<cvVars, specVars, last_op, fetchVars, countVars, wb>>,
         QueuesOK', CountOK', BusyOK', stage' \in Stages
  PROVE  Types'
<1>1. /\ UNCHANGED <<config, cvVars>> /\ UNCHANGED <<config, specVars, countVars>>
      /\ UNCHANGED <<config, last_op>> /\ UNCHANGED <<config, wb>> /\ UNCHANGED <<config, fetchVars>>
      /\ code' = code
  BY DEF WindowKept
<1> QED
  BY <1>1, TypesKept, RsNext DEF Types

\* A step that leaves the stations alone keeps their types.
LEMMA RsSame == ASSUME Types, rs' = rs, config' = config PROVE RsTyped
BY TypesGive, RsKept

\* A squashed event keeps the types.
LEMMA StaleEventTypes == ASSUME Types, StaleEvent PROVE Types'
<1>1. WindowKept /\ UNCHANGED <<cvVars, specVars, last_op, fetchVars, countVars, wb>> /\ RsTyped
  BY RsSame DEF StaleEvent, WindowKept
<1>2. QueuesOK'
  <2>1. Tail(event_queue) \in Seq(EventLinks) /\ free_links + 1 \in Int
    BY TypesGive, SeqParts DEF StaleEvent, EventDue
  <2> QED
    BY <1>1, <2>1, TypesGive DEF QueuesOK, StaleEvent, RsTyped, EventLinks, ReadyLinks
<1>3. stage' \in Stages /\ CountOK' /\ BusyOK'
  BY TypesKept DEF StaleEvent, Types, PlaceOK
<1> QED
  BY <1>1, <1>2, <1>3, BackTypes

\* A squashed candidate keeps the types.
LEMMA StaleNodeTypes == ASSUME Types, StaleNode PROVE Types'
<1>1. WindowKept /\ UNCHANGED <<cvVars, specVars, last_op, fetchVars, countVars, wb>> /\ RsTyped
  BY RsSame DEF StaleNode, WindowKept, issueRest
<1>2. QueuesOK'
  <2>1. Tail(node) \in Seq(ReadyLinks) /\ free_links + 1 \in Int
    BY TypesGive, SeqParts DEF StaleNode
  <2> QED
    BY <1>1, <2>1, TypesGive DEF QueuesOK, StaleNode, RsTyped, EventLinks, ReadyLinks
<1>3. stage' \in Stages /\ CountOK' /\ BusyOK'
  BY TypesKept DEF StaleNode, Types, PlaceOK, issueRest
<1> QED
  BY <1>1, <1>2, <1>3, BackTypes

\* The end of a cycle keeps the types.
LEMMA NextCycleTypes == ASSUME Types, NextCycle PROVE Types'
<1>1. WindowKept /\ UNCHANGED <<cvVars, specVars, last_op, fetchVars, countVars, wb>> /\ RsTyped
  BY RsSame DEF NextCycle, WindowKept
<1>2. QueuesOK'
  <2>1. event_queue' = [i \in 1 .. Len(event_queue) |-> [event_queue[i] EXCEPT !.when = event_queue[i].when - 1]]
        /\ Len(event_queue) \in Nat
    BY TypesGive DEF NextCycle
  <2>2. \A i \in 1 .. Len(event_queue) : event_queue'[i] \in EventLinks
    <3> TAKE i \in 1 .. Len(event_queue)
    <3>1. event_queue[i] \in EventLinks
      BY TypesGive
    <3>2. event_queue'[i] = [event_queue[i] EXCEPT !.when = event_queue[i].when - 1]
      BY <2>1
    <3> QED
      BY <3>1, <3>2 DEF EventLinks
  <2>3. event_queue' \in Seq(EventLinks)
    <3>1. event_queue' \in [1 .. Len(event_queue) -> EventLinks]
      BY <2>1, <2>2
    <3> QED
      BY <2>1, <3>1
  <2> QED
    BY <1>1, <2>3, TypesGive DEF QueuesOK, NextCycle, RsTyped, EventLinks, ReadyLinks
<1>3. stage' \in Stages /\ CountOK' /\ BusyOK'
  BY StageNames, TypesKept DEF NextCycle, CountOK
<1> QED
  BY <1>1, <1>2, <1>3, BackTypes

\* A candidate that finds no unit keeps the types.
LEMMA RequeueTypes == ASSUME Types, Requeue PROVE Types'
<1>1. WindowKept /\ UNCHANGED <<cvVars, specVars, last_op, fetchVars, countVars, wb>> /\ RsTyped
  BY RsSame DEF Requeue, WindowKept, issueRest
<1>2. QueuesOK'
  <2>1. /\ Tail(node) \in Seq(ReadyLinks) /\ Candidate \in Stations
        /\ rs[Candidate].tag \in Nat /\ rs[Candidate].seq \in Nat
    BY TypesGive, HeadOfNode DEF Requeue
  <2>2. readyq_enqueue(ready_queue, Candidate, rs[Candidate]) \in Seq(ReadyLinks)
    BY <2>1, TypesGive, ReadyEnqueued DEF OneMore
  <2> QED
    BY <1>1, <2>1, <2>2, TypesGive DEF QueuesOK, Requeue, RsTyped, EventLinks, ReadyLinks
<1>3. stage' \in Stages /\ CountOK' /\ BusyOK'
  BY StageNames, TypesKept DEF Requeue, issueRest
<1> QED
  BY <1>1, <1>2, <1>3, BackTypes

\* lsq_refresh keeps the types.
LEMMA RefreshTypes == ASSUME Types, Refresh PROVE Types'
<1>1. WindowKept /\ UNCHANGED <<cvVars, specVars, last_op, fetchVars, countVars, wb>> /\ RsTyped
  BY TypesGive, RefreshEffect DEF Refresh, WindowKept
<1>2. QueuesOK'
  <2>1. PICK L \in Seq(ReadyLinks) : node' = L \o ready_queue /\ ready_queue' = <<>>
    BY TypesGive, RefreshQueues
  <2>2. L \o ready_queue \in Seq(ReadyLinks)
    BY TypesGive, CountConcat
  <2>3. Cardinality(ReadyLoads) \in Nat
    <3>1. ReadyLoads \subseteq 0 .. LSQ_num - 1
      BY DEF ReadyLoads
    <3>2. IsFiniteSet(0 .. LSQ_num - 1)
      <4>1. config \in Configs /\ LSQ_num \in 0 .. LSQ_size
        BY TypesGive DEF RingsTyped
      <4>2. LSQ_size \in Nat
        BY <4>1, SizeType
      <4>3. 0 \in Int /\ LSQ_num - 1 \in Int
        BY <4>1, <4>2
      <4> QED
        BY <4>3, FS_Interval
    <3> QED
      BY <3>1, <3>2, FS_Subset, FS_CardinalityType
  <2>4. free_links' \in Int
    BY <2>3, TypesGive DEF Refresh, ReadyLoads
  <2>5. event_queue' = event_queue
    BY DEF Refresh
  <2>6. <<>> \in Seq(ReadyLinks)
    OBVIOUS
  <2> QED
    BY <1>1, <2>1, <2>2, <2>4, <2>5, <2>6, TypesGive DEF QueuesOK, RsTyped, EventLinks, ReadyLinks
<1>3. CountOK'
  BY TypesGive DEF Refresh, CountOK
<1>4. stage' \in Stages /\ BusyOK'
  BY StageNames, TypesKept DEF Refresh
<1> QED
  BY <1>1, <1>2, <1>3, <1>4, BackTypes

\* A broadcast of ruu_writeback keeps the types.
LEMMA WakeTypes ==
  ASSUME Types, Lists, Wake, wb \in InFlight, rs[wb].completed
  PROVE  Types'
<1>1. TypeOK /\ wb \in Stations /\ WakeLink.rs \in Stations /\ (RSLINK_VALID(WakeLink) => WakeLink.rs # wb)
  BY TypesGive, WakeConsumer
<1>2. WindowKept /\ UNCHANGED <<cvVars, specVars, last_op, fetchVars, countVars, wb>> /\ RsTyped
  BY <1>1, WakeEffect DEF Wake, WindowKept
<1>3. QueuesOK'
  <2>1. rs[WakeLink.rs].tag \in Nat /\ rs[WakeLink.rs].seq \in Nat
    BY <1>1, TypesGive
  <2>2. readyq_enqueue(ready_queue, WakeLink.rs, rs[WakeLink.rs]) \in Seq(ReadyLinks)
    BY <1>1, <2>1, TypesGive, ReadyEnqueued DEF OneMore
  <2>3. ready_queue' \in Seq(ReadyLinks)
    BY <1>1, <2>2, WakeQueue, TypesGive
  <2>4. free_links' \in Int
    <3>1. free_links' = free_links \/ free_links' = free_links + 1
      BY DEF Wake
    <3> QED
      BY <3>1, TypesGive
  <2>5. UNCHANGED <<event_queue, node>>
    BY DEF Wake
  <2> QED
    BY <1>2, <2>3, <2>4, <2>5, TypesGive DEF QueuesOK, RsTyped, EventLinks, ReadyLinks
<1>4. stage' \in Stages /\ CountOK' /\ BusyOK'
  BY StageNames, TypesKept DEF Wake
<1> QED
  BY <1>2, <1>3, <1>4, BackTypes

\* What IssueStore, and Start, do.
IssueStep(done) ==
  /\ node # <<>> /\ RSLINK_VALID(Head(node)) /\ node' = Tail(node)
  /\ WindowKept /\ UNCHANGED <<cvVars, specVars, last_op, fetchVars, countVars, branch_cnt, wb>>
  /\ ready_queue' = ready_queue /\ n' = n + 1
  /\ rs' = IF done THEN [rs EXCEPT ![Candidate].queued = FALSE, ![Candidate].issued = TRUE, ![Candidate].completed = TRUE]
                   ELSE [rs EXCEPT ![Candidate].queued = FALSE, ![Candidate].issued = TRUE]
  /\ done => event_queue' = event_queue /\ free_links' = free_links + 1 /\ busy' = busy
             /\ IsStore(rs[Candidate].op)
  /\ ~ done => /\ \E lat \in Int : event_queue' = eventq_queue_event(Candidate, lat)
               /\ free_links' = free_links
               /\ \/ busy' = busy
                  \/ \E r, v : v \in Nat /\ busy' = [busy EXCEPT ![r] = v]
  /\ stage' \in {"issue", "panic"} /\ stage = "issue"

\* A store completes as it issues.
LEMMA IssueStoreIs == IssueStore => IssueStep(TRUE)
BY DEF IssueStore, IssueStep, Issuing, issueRest, WindowKept

\* What a unit starts is under way.
LEMMA StartIs ==
  ASSUME Issuing, NEW lat \in Int, NEW fu, fu = NULL_TEMPLATE \/ fu.issuelat \in Nat, Start(lat, fu)
  PROVE  IssueStep(FALSE)
BY DEF Start, IssueStep, Issuing, issueRest, WindowKept

\* An operation without a unit of ruu_issue is an IssueStep.
LEMMA IssueFreeIs == IssueFree => IssueStep(FALSE)
<1> SUFFICES ASSUME IssueFree PROVE IssueStep(FALSE)
  OBVIOUS
<1>1. Start(1, NULL_TEMPLATE) /\ Issuing /\ 1 \in Int
  BY DEF IssueFree
<1> QED
  BY <1>1, StartIs

\* A load of ruu_issue is an IssueStep.
LEMMA IssueLoadIs == IssueLoad => IssueStep(FALSE)
<1> SUFFICES ASSUME IssueLoad PROVE IssueStep(FALSE)
  OBVIOUS
<1>1. PICK cache \in (IF Forwarded(Candidate) THEN {1} ELSE LoadLats), tlb \in TlbLats :
        Start(IF cache > tlb THEN cache ELSE tlb, FuFor(Candidate))
  BY DEF IssueLoad
<1>2. cache \in Int /\ tlb \in Int
  BY ProgramAssumption
<1> DEFINE lat == IF cache > tlb THEN cache ELSE tlb
<1>3. lat \in Int
  BY <1>2
<1>4. FuFor(Candidate).issuelat \in Nat /\ Issuing
  BY ResGet DEF IssueLoad, FuFor
<1> QED
  BY <1>1, <1>3, <1>4, StartIs

\* An operation with a unit of ruu_issue is an IssueStep.
LEMMA IssueOpIs == IssueOp => IssueStep(FALSE)
<1> SUFFICES ASSUME IssueOp PROVE IssueStep(FALSE)
  OBVIOUS
<1>1. Start(FuFor(Candidate).oplat, FuFor(Candidate)) /\ Issuing
  BY DEF IssueOp
<1>2. FuFor(Candidate).issuelat \in Nat /\ FuFor(Candidate).oplat \in Int
  BY ResGet DEF IssueOp, FuFor
<1> QED
  BY <1>1, <1>2, StartIs

\* ruu_issue keeps the types.
LEMMA IssueTypes ==
  ASSUME Types, NEW done \in BOOLEAN, IssueStep(done)
  PROVE  Types'
<1>1. WindowKept /\ UNCHANGED <<cvVars, specVars, last_op, fetchVars, countVars, wb>>
  BY DEF IssueStep
<1>2. /\ Tail(node) \in Seq(ReadyLinks) /\ Candidate \in Stations /\ rs[Candidate].tag \in Nat
  BY TypesGive, HeadOfNode DEF IssueStep
<1>3. RsTyped
  BY <1>1, <1>2, TypesGive, IssueEffect DEF IssueStep, WindowKept
<1>4. QueuesOK'
  <2>1. event_queue' \in Seq(EventLinks)
    <3>1. CASE done
      BY <3>1, TypesGive DEF IssueStep
    <3>2. CASE ~ done
      <4>1. PICK lat \in Int : event_queue' = eventq_queue_event(Candidate, lat)
        BY <3>2 DEF IssueStep
      <4> QED
        BY <1>2, <4>1, TypesGive, EventQueued DEF OneMore
    <3> QED
      BY <3>1, <3>2
  <2>2. free_links' \in Int
    BY TypesGive DEF IssueStep
  <2> QED
    BY <1>2, <1>3, <2>1, <2>2, TypesGive DEF QueuesOK, IssueStep, RsTyped, EventLinks, ReadyLinks
<1>5. CountOK'
  BY TypesGive DEF CountOK, IssueStep
<1>6. BusyOK'
  <2>1. BusyOK
    BY DEF Types
  <2>2. CASE busy' = busy
    BY <2>1, <2>2 DEF BusyOK
  <2>3. CASE \E r, v : v \in Nat /\ busy' = [busy EXCEPT ![r] = v]
    BY <2>1, <2>3, BusySet
  <2> QED
    BY <2>2, <2>3 DEF IssueStep
<1>7. stage' \in Stages
  BY StageNames DEF IssueStep
<1> QED
  BY <1>1, <1>3, <1>4, <1>5, <1>6, <1>7, BackTypes

\* The entries that a writeback leaves in the create vectors.
LEMMA WithoutTyped ==
  ASSUME NEW cv \in [Regs -> CvEntry], NEW s
  PROVE  WithoutCreator(cv, s) \in [Regs -> CvEntry]
<1>1. CVLINK_NULL \in CvEntry
  BY DEF CvEntry
<1> HIDE DEF CvEntry
<1> QED
  BY <1>1 DEF WithoutCreator

\* ruu_writeback of an instruction keeps the types.
LEMMA WritebackTypes == ASSUME Types, NEW b \in Stations, Writeback(b) PROVE Types'
<1>1. /\ RsTyped /\ WindowKept /\ code' = code /\ UNCHANGED <<config, specVars, countVars>>
      /\ UNCHANGED <<config, last_op>> /\ UNCHANGED <<config, fetchVars>> /\ UNCHANGED <<config, n, branch_cnt>>
      /\ UNCHANGED <<config, busy>>
  BY TypesGive, WritebackEffect DEF Writeback, WindowKept
<1>2. CvOK'
  <2>1. /\ create_vector' \in [Regs -> CvEntry] /\ spec_create_vector' \in [Regs -> CvEntry]
        /\ use_spec_cv' \subseteq Regs
    BY WithoutTyped DEF Types, CvOK, Writeback
  <2> QED
    BY <1>1, <2>1 DEF CvOK, CvEntry, RsTyped
<1>3. QueuesOK'
  <2>1. event_queue' \in Seq(EventLinks) /\ free_links' \in Int /\ UNCHANGED <<ready_queue, node>>
    BY TypesGive, SeqParts DEF Writeback, Completes, EventDue
  <2> QED
    BY <1>1, <2>1, TypesGive DEF QueuesOK, RsTyped, EventLinks, ReadyLinks
<1>4. PlaceOK'
  BY <1>1, StageNames DEF Writeback, Completes, PlaceOK, RsTyped
<1> QED
  BY <1>1, <1>2, <1>3, <1>4, TypesKept, RsNext DEF Types

\* ruu_commit keeps the types.
LEMMA CommitTypes == ASSUME Types, Accesses, Commit PROVE Types'
<1>1. /\ RsTyped /\ RingsTyped' /\ code' = code /\ UNCHANGED <<config, specVars, countVars>>
      /\ UNCHANGED <<config, last_op>> /\ UNCHANGED <<config, fetchVars>> /\ UNCHANGED <<config, cvVars>>
      /\ UNCHANGED <<config, queueVars>> /\ UNCHANGED <<config, wb>>
  BY TypesGive, CommitEffect, CommitWindow DEF Commit
<1>2. BusyOK'
  <2>1. BusyOK
    BY DEF Types
  <2>2. CASE StoreAtHead
    <3>1. StorePort # NULL_TEMPLATE
      BY <2>2 DEF Commit, CanCommit
    <3>2. StorePort.issuelat \in Nat
      BY <3>1, ResGet DEF StorePort
    <3> QED
      BY <2>1, <2>2, <3>2, BusySet DEF Commit
  <2>3. CASE ~ StoreAtHead
    BY <2>1, <2>3 DEF Commit, BusyOK
  <2> QED
    BY <2>2, <2>3
<1>3. CountOK'
  BY TypesGive DEF Commit, CountOK
<1>4. stage' \in Stages
  <2>1. stage' \in {"panic", "commit"}
    BY DEF Commit
  <2> QED
    BY <2>1, StageNames
<1> QED
  BY <1>1, <1>2, <1>3, <1>4, TypesKept, RsNext DEF Types

\* There are finitely many stations.
LEMMA StationsFinite ==
  ASSUME RingsTyped
  PROVE  IsFiniteSet(Stations)
<1>1. RUU_size \in Nat /\ LSQ_size \in Nat
  BY SizeType DEF RingsTyped
<1>2. IsFiniteSet(0 .. RUU_size - 1) /\ IsFiniteSet(0 .. LSQ_size - 1)
  BY <1>1, FS_Interval
<1>3. IsFiniteSet({"RUU"}) /\ IsFiniteSet({"LSQ"})
  BY FS_Singleton
<1>4. IsFiniteSet({"RUU"} \X (0 .. RUU_size - 1)) /\ IsFiniteSet({"LSQ"} \X (0 .. LSQ_size - 1))
  BY <1>2, <1>3, FS_Product
<1> QED
  BY <1>4, FS_Union DEF Stations

ChainPlacesOf(p) == {p} \X DOMAIN rs[p[1]].odep_list[p[2]]

\* The number of links in the chains of some stations is natural.
LEMMA LinksTyped ==
  ASSUME RingsTyped, rs \in [Stations -> Station], NEW S \in SUBSET Stations
  PROVE  Links(S) \in Nat
<1> DEFINE P == S \X (1 .. 2)
           F == {ChainPlacesOf(p) : p \in P}
           f == [p \in P |-> ChainPlacesOf(p)]
<1>1. IsFiniteSet(P)
  <2>1. IsFiniteSet(S)
    BY StationsFinite, FS_Subset
  <2>2. IsFiniteSet(1 .. 2)
    <3>1. 1 \in Int /\ 2 \in Int
      OBVIOUS
    <3> QED
      BY <3>1, FS_Interval
  <2> QED
    BY <2>1, <2>2, FS_Product
<1>2. f \in Surjection(P, F)
  BY DEF Surjection
<1>3. IsFiniteSet(F)
  <2> HIDE DEF f, F, P
  <2> QED
    BY <1>1, <1>2, FS_Surjection
<1>4. \A p \in P : IsFiniteSet(ChainPlacesOf(p))
  <2> TAKE p \in P
  <2>1. PICK s \in S, i \in 1 .. 2 : p = <<s, i>>
    OBVIOUS
  <2>2. DOMAIN rs[s].odep_list[i] = 1 .. Len(rs[s].odep_list[i]) /\ Len(rs[s].odep_list[i]) \in Nat
    BY ChainOf
  <2>3. IsFiniteSet(DOMAIN rs[s].odep_list[i])
    BY <2>2, FS_Interval
  <2>4. IsFiniteSet({p}) /\ p[1] = s /\ p[2] = i
    BY <2>1, FS_Singleton
  <2> QED
    BY <2>1, <2>3, <2>4, FS_Product DEF ChainPlacesOf
<1>5. IsFiniteSet(UNION F)
  BY <1>3, <1>4, FS_UNION
<1>6. ChainPlaces(S) = UNION F
  BY DEF ChainPlaces, ChainPlacesOf
<1> HIDE DEF F
<1> QED
  BY <1>5, <1>6, FS_CardinalityType DEF Links

\* What is squashed are stations.
LEMMA SquashedIn ==
  ASSUME NEW b
  PROVE  Squashed(b) \in SUBSET Stations
BY DEF Squashed, SquashedRuu, SquashedLsq

\* ruu_recover keeps the types.
LEMMA RecoverTypes ==
  ASSUME Types, Kinds, WrongPath, Counted, Accesses, NEW b \in Stations, Recover(b)
  PROVE  Types'
<1>1. /\ RsTyped /\ RingsTyped' /\ code' = code /\ config' = config /\ UNCHANGED <<config, last_op>>
      /\ UNCHANGED <<config, n, branch_cnt>> /\ UNCHANGED <<config, busy>>
  BY TypesGive, RecoverEffect, RecoverWindow DEF Recover
<1>2. CvOK'
  <2>1. /\ create_vector' \in [Regs -> CvEntry] /\ spec_create_vector' \in [Regs -> CvEntry]
        /\ use_spec_cv' \subseteq Regs
    BY WithoutTyped DEF Types, CvOK, Recover
  <2> QED
    BY <1>1, <2>1 DEF CvOK, CvEntry, RsTyped
<1>3. QueuesOK'
  <2>1. free_links' \in Int
    <3>1. Links(Squashed(b)) \in Nat
      BY TypesGive, SquashedIn, LinksTyped
    <3>2. free_links' = free_links + 1 + Freed(b)
      BY DEF Recover
    <3> QED
      BY <3>1, <3>2, TypesGive DEF Freed
  <2>2. event_queue' \in Seq(EventLinks) /\ UNCHANGED <<ready_queue, node>>
    BY TypesGive, SeqParts DEF Recover, Completes, EventDue
  <2> QED
    BY <1>1, <2>1, <2>2, TypesGive DEF QueuesOK, RsTyped, EventLinks, ReadyLinks
<1>4. FetchOK'
  <2>1. fetch_data' = <<>> /\ fetch_pred_PC' \in Nat /\ ruu_fetch_issue_delay' \in Nat /\ missed_PC' \in Nat
    BY SizesAssumption DEF Recover, Types, FetchOK, SpecOK
  <2>2. <<>> \in Seq(FetchLinks) /\ Len(<<>>) = 0 /\ ruu_ifq_size \in Nat
    BY WidthType
  <2> QED
    BY <2>1, <2>2 DEF FetchOK, FetchLinks
<1>5. SpecOK'
  BY DEF Recover, Types, SpecOK, countVars
<1>6. PlaceOK'
  <2>1. stage' \in {"panic", "broadcast"} /\ wb' = b
    BY DEF Recover, Completes
  <2> QED
    BY <1>1, <2>1, StageNames DEF PlaceOK, RsTyped
<1> QED
  BY <1>1, <1>2, <1>3, <1>4, <1>5, <1>6, TypesKept, RsNext DEF Types

-----------------------------------------------------------------------------
\* What the program does in a dispatch; then the types and the first theorems.

\* ruu_install_odep keeps the create vector typed.
LEMMA OdepTyped ==
  ASSUME NEW cv \in [Regs -> CvEntry], NEW x \in Stations, NEW names
  PROVE  ruu_install_odep(cv, x, names) \in [Regs -> CvEntry]
<1>1. [rs |-> x, odep |-> 1] \in CvEntry /\ [rs |-> x, odep |-> 2] \in CvEntry
  BY DEF CvEntry
<1> HIDE DEF CvEntry
<1> QED
  BY <1>1 DEF ruu_install_odep

Executed ==
  /\ FetchOK' /\ spec_mode' \in BOOLEAN /\ recover_PC' \in Nat /\ sim_num_insn' \in Nat
  /\ code' = code /\ config' = config /\ RUU_head' = RUU_head /\ LSQ_head' = LSQ_head
  /\ event_queue' = event_queue /\ node' = node /\ busy' = busy /\ branch_cnt' = branch_cnt /\ wb' = wb

\* Functional execution in ruu_dispatch keeps its variables typed.
LEMMA ExecuteTypes ==
  ASSUME Types, fetch_data # <<>>, NEW npc \in Nat, Execute(npc)
  PROVE  Executed
<1>1. /\ fetch_data \in Seq(FetchLinks) /\ Len(fetch_data) <= ruu_ifq_size
      /\ fetch_pred_PC \in Nat /\ ruu_fetch_issue_delay \in Nat /\ missed_PC \in Nat
      /\ spec_mode \in BOOLEAN /\ recover_PC \in Nat /\ sim_num_insn \in Nat
  BY DEF Types, FetchOK, SpecOK
<1>2. Tail(fetch_data) \in Seq(FetchLinks) /\ Len(Tail(fetch_data)) <= ruu_ifq_size
  BY TypesGive, FetchedTyped DEF FetchLinks
<1>3. <<>> \in Seq(FetchLinks) /\ Len(<<>>) <= ruu_ifq_size
  BY WidthType
<1>4. fetch_data' \in Seq(FetchLinks) /\ Len(fetch_data') <= ruu_ifq_size
  BY <1>2, <1>3 DEF Execute
<1>5. /\ fetch_pred_PC' \in Nat /\ ruu_fetch_issue_delay' \in Nat /\ missed_PC' \in Nat
      /\ recover_PC' \in Nat /\ sim_num_insn' \in Nat
  BY <1>1, SizesAssumption DEF Execute
<1>6. spec_mode' \in BOOLEAN
  BY DEF Execute
<1>7. /\ code' = code /\ config' = config /\ RUU_head' = RUU_head /\ LSQ_head' = LSQ_head
      /\ event_queue' = event_queue /\ node' = node /\ busy' = busy /\ branch_cnt' = branch_cnt
      /\ wb' = wb
  BY DEF Execute
<1>8. FetchOK'
  BY <1>4, <1>5, <1>7 DEF FetchOK, FetchLinks
<1> QED
  BY <1>5, <1>6, <1>7, <1>8 DEF Executed

\* DispatchNop, without the choices that do not matter here.
LEMMA DispatchNopIs ==
  ASSUME Types, DispatchNop
  PROVE  \E npc \in Nat : Execute(npc) /\ npc \in NextPCs(code, Head(fetch_data).regs_PC)
<1>1. PICK npc \in NextPCs(code, Head(fetch_data).regs_PC) : Execute(npc)
  BY DEF DispatchNop
<1>2. npc \in Nat
  BY TypesGive, FetchedTyped, NextPcsTyped DEF DispatchNop, CanDispatch
<1> QED
  BY <1>1, <1>2

\* ruu_dispatch of a nop keeps the types.
LEMMA DispatchNopTypes == ASSUME Types, DispatchNop PROVE Types'
<1>1. Executed
  BY DispatchNopIs, ExecuteTypes DEF DispatchNop, CanDispatch
<1>2. /\ WindowKept /\ RsTyped /\ UNCHANGED <<config, last_op>> /\ UNCHANGED <<config, busy>>
      /\ UNCHANGED <<config, cvVars>> /\ UNCHANGED <<config, queueVars>> /\ UNCHANGED <<config, wb>>
      /\ UNCHANGED <<config, n, branch_cnt>> /\ code' = code
  BY <1>1, RsSame DEF DispatchNop, Executed, WindowKept, windowVars, cvVars, queueVars
<1>3. SpecOK' /\ FetchOK'
  BY <1>1 DEF Executed, SpecOK, DispatchNop, Types
<1>4. stage' \in Stages
  BY StageNames DEF DispatchNop
<1> QED
  BY <1>2, <1>3, <1>4, TypesKept, RsNext DEF Types

\* A dispatch that fills stations, with the operands that it misses.
LEMMA EnteredTypes ==
  ASSUME Types, Rings, NEW mem, Extended(mem), Entered(mem), Executed,
         create_vector' \in [Regs -> CvEntry], spec_create_vector' \in [Regs -> CvEntry],
         use_spec_cv' \subseteq Regs, free_links' \in Int, inst_seq' \in Nat, n' \in Nat,
         last_op' \in [rs : Stations \cup {NULL}, tag : Nat], stage' \in {"panic", "dispatch"}
  PROVE  Types'
<1>1. /\ RsTyped /\ RingsTyped' /\ code' = code /\ config' = config
  BY TypesGive, ExtendedWindow DEF Entered, Executed
<1>2. CvOK'
  BY <1>1 DEF CvOK, CvEntry, RsTyped
<1>3. QueuesOK'
  BY <1>1, TypesGive DEF Entered, EnteredQueue, QueuesOK, RsTyped, EventLinks, ReadyLinks
<1>4. SpecOK' /\ FetchOK'
  BY DEF Executed, SpecOK
<1>5. LastOK'
  BY <1>1 DEF LastOK, RsTyped
<1>6. CountOK' /\ BusyOK'
  BY DEF Executed, Types, CountOK, BusyOK
<1>7. PlaceOK'
  BY <1>1, StageNames DEF Executed, Types, PlaceOK, RsTyped
<1> QED
  BY <1>1, <1>2, <1>3, <1>4, <1>5, <1>6, <1>7, TypesKept, RsNext DEF Types

\* The numbers and vectors that a dispatch leaves.
DispatchedTypes ==
  /\ create_vector' \in [Regs -> CvEntry] /\ spec_create_vector' \in [Regs -> CvEntry]
  /\ use_spec_cv' \subseteq Regs /\ free_links' \in Int /\ inst_seq' \in Nat
  /\ last_op' \in [rs : Stations \cup {NULL}, tag : Nat] /\ stage' \in {"panic", "dispatch"}

\* The links that dispatch takes from the pool are at most three.
LEMMA FewerLinks ==
  ASSUME NEW a \in Int, NEW w \in SUBSET (1 .. 3)
  PROVE  Cardinality(w) \in Nat /\ a - Cardinality(w) \in Int
<1>1. 1 \in Int /\ 3 \in Int
  OBVIOUS
<1>2. IsFiniteSet(w)
  BY <1>1, FS_Interval, FS_Subset
<1> QED
  BY <1>2, FS_CardinalityType

\* The outputs of an instruction are registers.
LEMMA OutNames ==
  ASSUME TypeOK, NEW pc
  PROVE  /\ {InstAt(pc).out[1], InstAt(pc).out[2]} \ {NA} \subseteq Regs
         /\ {DTMP, InstAt(pc).out[1], InstAt(pc).out[2]} \ {NA} \subseteq Regs
<1>1. InstAt(pc).out \in [1 .. 2 -> Regs \cup {NA}] /\ DTMP \in Regs
  BY TextTyped, SizesAssumption DEF DTMP, Regs
<1>2. InstAt(pc).out[1] \in Regs \cup {NA} /\ InstAt(pc).out[2] \in Regs \cup {NA}
  BY <1>1
<1> QED
  BY <1>1, <1>2

\* The last operation of an in-order machine is a link to a station or to none.
LEMMA NullLink ==
  /\ RSLINK_NULL \in [rs : Stations \cup {NULL}, tag : Nat]
  /\ \A s \in Stations, t \in Nat : [rs |-> s, tag |-> t] \in [rs : Stations \cup {NULL}, tag : Nat]
BY DEF RSLINK_NULL

\* ruu_dispatch of an instruction that is no access keeps the types.
LEMMA OpTypes ==
  ASSUME Types, Rings, NEW pc, NEW npc, OpEnters(pc, npc), RUU_num < RUU_size, LSQ_num < LSQ_size
  PROVE  DispatchedTypes
<1>1. RuuTail \in Stations /\ rs[RuuTail].tag \in Nat /\ TypeOK
  BY TypesGive, TailsAre
<1>2. CvOK
  BY DEF Types
<1>3. create_vector' \in [Regs -> CvEntry] /\ spec_create_vector' \in [Regs -> CvEntry]
  <2>1. /\ create_vector' \in {create_vector, ruu_install_odep(create_vector, RuuTail, InstAt(pc).out)}
        /\ spec_create_vector' \in {spec_create_vector, ruu_install_odep(spec_create_vector, RuuTail, InstAt(pc).out)}
    BY DEF OpEnters, Install
  <2> QED
    BY <1>1, <1>2, <2>1, OdepTyped DEF CvOK
<1>4. use_spec_cv' \subseteq Regs
  <2>1. use_spec_cv' \in {use_spec_cv, use_spec_cv \cup ({InstAt(pc).out[1], InstAt(pc).out[2]} \ {NA})}
    BY DEF OpEnters, Install
  <2> QED
    BY <1>1, <1>2, <2>1, OutNames DEF CvOK
<1>5. free_links' \in Int
  <2>1. PICK ready \in BOOLEAN, waits \in SUBSET (1 .. 3) :
          free_links' = free_links - IF ready THEN 1 ELSE Cardinality(waits)
    BY DEF OpEnters
  <2>2. Cardinality(waits) \in Nat
    BY TypesGive, FewerLinks
  <2> QED
    BY <2>1, <2>2, TypesGive
<1>6. inst_seq' \in Nat
  BY DEF OpEnters, Types, SpecOK
<1>7. last_op' \in [rs : Stations \cup {NULL}, tag : Nat] /\ stage' \in {"panic", "dispatch"}
  BY <1>1, NullLink DEF OpEnters
<1> QED
  BY <1>3, <1>4, <1>5, <1>6, <1>7 DEF DispatchedTypes

\* ruu_dispatch of an access keeps the types.
LEMMA MemTypes ==
  ASSUME Types, Rings, NEW pc, NEW npc, NEW addr, MemStep(pc, npc, addr),
         RUU_num < RUU_size, LSQ_num < LSQ_size
  PROVE  DispatchedTypes
<1>1. RuuTail \in Stations /\ LsqTail \in Stations /\ rs[LsqTail].tag \in Nat /\ TypeOK
  BY TypesGive, TailsAre
<1>2. CvOK
  BY DEF Types
<1> DEFINE Both(cv) == ruu_install_odep(ruu_install_odep(cv, RuuTail, <<DTMP, NA>>), LsqTail, InstAt(pc).out)
<1>3. create_vector' \in [Regs -> CvEntry] /\ spec_create_vector' \in [Regs -> CvEntry]
  <2>1. /\ create_vector' \in {create_vector, Both(create_vector)}
        /\ spec_create_vector' \in {spec_create_vector, Both(spec_create_vector)}
    BY DEF MemStep, Install
  <2>2. Both(create_vector) \in [Regs -> CvEntry] /\ Both(spec_create_vector) \in [Regs -> CvEntry]
    <3>1. /\ ruu_install_odep(create_vector, RuuTail, <<DTMP, NA>>) \in [Regs -> CvEntry]
          /\ ruu_install_odep(spec_create_vector, RuuTail, <<DTMP, NA>>) \in [Regs -> CvEntry]
      BY <1>1, <1>2, OdepTyped DEF CvOK
    <3> QED
      BY <1>1, <3>1, OdepTyped
  <2> HIDE DEF Both
  <2> QED
    BY <1>2, <2>1, <2>2 DEF CvOK
<1>4. use_spec_cv' \subseteq Regs
  <2>1. use_spec_cv' \in {use_spec_cv, use_spec_cv \cup ({DTMP, InstAt(pc).out[1], InstAt(pc).out[2]} \ {NA})}
    BY DEF MemStep, Install
  <2> QED
    BY <1>1, <1>2, <2>1, OutNames DEF CvOK
<1>5. free_links' \in Int
  <2>1. MemWaits(pc, npc, addr, RuuTail) \in Nat /\ MemWaits(pc, npc, addr, LsqTail) \in Nat
    <3>1. \A x : MemMissing(pc, npc, addr, x) \in SUBSET (1 .. 3)
      BY DEF MemMissing
    <3> QED
      BY <3>1, TypesGive, FewerLinks DEF MemWaits
  <2> QED
    BY <2>1, TypesGive DEF MemStep
<1>6. inst_seq' \in Nat
  BY DEF MemStep, Types, SpecOK
<1>7. last_op' \in [rs : Stations \cup {NULL}, tag : Nat] /\ stage' \in {"panic", "dispatch"}
  BY <1>1, NullLink DEF MemStep
<1> QED
  BY <1>3, <1>4, <1>5, <1>6, <1>7 DEF DispatchedTypes

\* What dispatch does to the window: it grows by an instruction, and, for an access, by its
\* address computation too.
Dispatches(mem) ==
  /\ Extended(mem) /\ Entered(mem) /\ ChainsAdded(mem) /\ CvInstalled(mem) /\ Executed /\ DispatchedTypes /\ n' = n + 1
  /\ fetch_data # <<>> /\ fetch_data' \in {<<>>, Tail(fetch_data)} /\ stage = "dispatch"

\* DispatchOp takes one new entry into the RUU.
LEMMA DispatchOpDispatches ==
  ASSUME Types, Rings, LinkInv(rs, InFlight), DispatchOp
  PROVE  Dispatches(FALSE)
<1>1. PICK pc, npc : OpEnters(pc, npc)
  BY DispatchOpIs
<1>2. /\ RUU_num < RUU_size /\ LSQ_num < LSQ_size /\ fetch_data # <<>> /\ n' = n + 1 /\ stage = "dispatch"
      /\ RUU_tail' = (RUU_tail + 1) % RUU_size /\ RUU_num' = RUU_num + 1
      /\ LSQ_tail' = LSQ_tail /\ LSQ_num' = LSQ_num
  BY DEF DispatchOp, CanDispatch
<1>3. Execute(npc) /\ npc \in Nat
  BY <1>1, <1>2, TypesGive, FetchedTyped, NextPcsTyped DEF OpEnters
<1>4. Executed
  BY <1>2, <1>3, ExecuteTypes
<1>5. Entered(FALSE) /\ ChainsAdded(FALSE) /\ CvInstalled(FALSE)
  BY <1>1, <1>2, <1>4, TypesGive, OpEntered DEF Executed
<1>6. DispatchedTypes
  BY <1>1, <1>2, OpTypes
<1>7. Extended(FALSE)
  BY <1>2, <1>4 DEF Extended, Executed, Res
<1>8. fetch_data' \in {<<>>, Tail(fetch_data)}
  BY <1>3 DEF Execute
<1> QED
  BY <1>2, <1>4, <1>5, <1>6, <1>7, <1>8 DEF Dispatches

\* DispatchMem takes one new entry into the RUU and one into the LSQ.
LEMMA DispatchMemDispatches ==
  ASSUME Types, Rings, LinkInv(rs, InFlight), DispatchMem
  PROVE  Dispatches(TRUE)
<1>1. PICK pc, npc : \E addr \in Addrs :
        /\ npc \in NextPCs(code, pc) /\ pc = Head(fetch_data).regs_PC /\ MemStep(pc, npc, addr)
  BY DispatchMemIs
<1>1a. PICK addr \in Addrs :
        /\ npc \in NextPCs(code, pc) /\ pc = Head(fetch_data).regs_PC /\ MemStep(pc, npc, addr)
  BY <1>1
<1>2. /\ RUU_num < RUU_size /\ LSQ_num < LSQ_size /\ fetch_data # <<>> /\ n' = n + 1 /\ stage = "dispatch"
      /\ RUU_tail' = (RUU_tail + 1) % RUU_size /\ RUU_num' = RUU_num + 1
      /\ LSQ_tail' = (LSQ_tail + 1) % LSQ_size /\ LSQ_num' = LSQ_num + 1
  BY DEF DispatchMem, CanDispatch
<1>3. Execute(npc) /\ npc \in Nat
  BY <1>1a, <1>2, TypesGive, FetchedTyped, NextPcsTyped DEF MemStep
<1>4. Executed
  BY <1>2, <1>3, ExecuteTypes
<1>5. Entered(TRUE) /\ ChainsAdded(TRUE) /\ CvInstalled(TRUE)
  BY <1>1a, <1>2, <1>4, TypesGive, MemEntered DEF Executed
<1>6. DispatchedTypes
  BY <1>1a, <1>2, MemTypes
<1>7. Extended(TRUE)
  BY <1>2, <1>4 DEF Extended, Executed, Res
<1>8. fetch_data' \in {<<>>, Tail(fetch_data)}
  BY <1>3 DEF Execute
<1> QED
  BY <1>2, <1>4, <1>5, <1>6, <1>7, <1>8 DEF Dispatches

\* ruu_dispatch keeps the types.
LEMMA DispatchesTypes ==
  ASSUME Types, Rings, NEW mem, Dispatches(mem)
  PROVE  Types'
<1>1. n' \in Nat
  BY TypesGive DEF Dispatches
<1> QED
  BY <1>1, EnteredTypes DEF Dispatches, DispatchedTypes

-----------------------------------------------------------------------------
\* Every step keeps the invariant.

Good ==
  /\ Types /\ Rings /\ Kinds /\ Accesses /\ WrongPath /\ FetchedStraight
  /\ Lists /\ Broadcasts

\* What the inductive invariant gives.
LEMMA GoodTypes ==
  ASSUME Good
  PROVE  /\ Types /\ TypeOK /\ CvTypes /\ RingsTyped /\ Rings /\ Kinds /\ Accesses /\ WrongPath
         /\ FetchedStraight /\ Lists /\ Broadcasts /\ Flagged /\ Counted /\ AllPast /\ LinkInv(rs, InFlight)
         /\ MemoryOrder
BY TypesGive DEF Good, Lists

\* A step that leaves the window alone keeps heads, tails and numbers in agreement.
LEMMA RingsKept ==
  ASSUME WindowKept, Rings
  PROVE  Rings'
BY DEF WindowKept, windowVars, Rings, LSQ_size

\* A step that leaves the fetch queue alone keeps its predictions.
LEMMA StraightKept ==
  ASSUME FetchedStraight, code' = code, fetch_data' = fetch_data
  PROVE  FetchedStraight'
BY DEF FetchedStraight, InstAt

\* A step that keeps the window, and what the instructions in it are.
LEMMA StateGood ==
  ASSUME Good, RsTyped, TextKept, WindowKept, UNCHANGED <<spec_mode, use_spec_cv>>,
         \A s \in InFlight : rs[s].recover_inst => rs'[s].completed = rs[s].completed,
         Types', FetchedStraight', Lists', Broadcasts'
  PROVE  Good'
<1>1. Rings' /\ Kinds' /\ Accesses' /\ WrongPath'
  BY GoodTypes, RingsKept, KindsKept, AccessesKept, WrongPathKept
<1> QED
  BY <1>1 DEF Good

\* A step that leaves stations, window and modes alone keeps the invariant if it keeps
\* the lists.
LEMMA SameGood ==
  ASSUME Good, rs' = rs, WindowKept, UNCHANGED <<spec_mode, use_spec_cv>>,
         Types', FetchedStraight', Lists', Broadcasts'
  PROVE  Good'
<1>1. config' = config
  BY DEF WindowKept
<1>2. RsTyped /\ TextKept
  BY <1>1, GoodTypes, RsKept
<1> QED
  BY <1>2, StateGood

\* A step that leaves stations, window, modes and queues alone keeps the invariant.
LEMMA QuietGood ==
  ASSUME Good, rs' = rs, WindowKept, UNCHANGED <<spec_mode, use_spec_cv>>,
         UNCHANGED <<event_queue, ready_queue, node>>, Types', FetchedStraight', Broadcasts'
  PROVE  Good'
<1>1. Lists'
  BY GoodTypes, StillLists
<1> QED
  BY <1>1, SameGood

\* Outside of a broadcast nothing is to be broadcast, and outside of ruu_issue there are
\* no candidates.
LEMMA BroadcastsKept ==
  ASSUME Broadcasts, stage \notin {"broadcast", "panic"}, stage' # "broadcast", wb' = wb,
         stage' \notin {"issue", "panic"} => node' = <<>>
  PROVE  Broadcasts'
BY DEF Broadcasts

\* Outside of ruu_issue there are no candidates.
LEMMA NoNode ==
  ASSUME Broadcasts, stage \notin {"issue", "panic"}
  PROVE  node = <<>>
BY DEF Broadcasts

\* The end of ruu_commit keeps the invariant.
LEMMA CommitEndGood == ASSUME Good, CommitEnd PROVE Good'
<1>1. /\ rs' = rs /\ WindowKept /\ UNCHANGED <<spec_mode, use_spec_cv, event_queue, ready_queue, node>>
      /\ UNCHANGED <<code, fetch_data, wb>>
      /\ stage = "commit" /\ stage' = "writeback"
  BY DEF CommitEnd, WindowKept, cvVars, queueVars, specVars, fetchVars
<1> QED
  BY <1>1, GoodTypes, CommitEndTypes, StraightKept, BroadcastsKept, NoNode, QuietGood

\* The end of ruu_writeback keeps the invariant.
LEMMA WritebackEndGood == ASSUME Good, WritebackEnd PROVE Good'
<1>1. /\ rs' = rs /\ WindowKept /\ UNCHANGED <<spec_mode, use_spec_cv, event_queue, ready_queue, node>>
      /\ UNCHANGED <<code, fetch_data, wb>>
      /\ stage = "writeback" /\ stage' \in {"dispatch", "refresh"}
  BY DEF WritebackEnd, WindowKept, cvVars, queueVars, specVars, fetchVars
<1> QED
  BY <1>1, GoodTypes, WritebackEndTypes, StraightKept, BroadcastsKept, NoNode, QuietGood

\* The end of ruu_dispatch keeps the invariant.
LEMMA DispatchEndGood == ASSUME Good, DispatchEnd PROVE Good'
<1>1. /\ rs' = rs /\ WindowKept /\ UNCHANGED <<spec_mode, use_spec_cv, event_queue, ready_queue, node>>
      /\ UNCHANGED <<code, fetch_data, wb>>
      /\ stage = "dispatch" /\ stage' \in {"refresh", "fetch"}
  BY DEF DispatchEnd, WindowKept, cvVars, queueVars, specVars, fetchVars
<1> QED
  BY <1>1, GoodTypes, DispatchEndTypes, StraightKept, BroadcastsKept, NoNode, QuietGood

\* The end of ruu_issue keeps the invariant.
LEMMA IssueEndGood == ASSUME Good, IssueEnd PROVE Good'
<1>1. /\ rs' = rs /\ WindowKept /\ UNCHANGED <<spec_mode, use_spec_cv, event_queue, ready_queue, node>>
      /\ UNCHANGED <<code, fetch_data, wb>>
      /\ stage = "issue" /\ stage' \in {"dispatch", "fetch"} /\ node = <<>>
  BY DEF IssueEnd, issueRest, WindowKept, cvVars, queueVars, specVars, fetchVars
<1> QED
  BY <1>1, GoodTypes, IssueEndTypes, StraightKept, BroadcastsKept, QuietGood

\* The end of a broadcast keeps the invariant.
LEMMA WakeEndGood == ASSUME Good, WakeEnd PROVE Good'
<1>1. /\ rs' = rs /\ WindowKept /\ UNCHANGED <<spec_mode, use_spec_cv, event_queue, ready_queue, node>>
      /\ UNCHANGED <<code, fetch_data>>
      /\ stage = "broadcast" /\ stage' = "writeback" /\ wb' = NULL
  BY DEF WakeEnd, WindowKept, cvVars, queueVars, specVars, fetchVars
<1>2. node = <<>>
  BY <1>1, GoodTypes, NoNode
<1>3. Broadcasts'
  BY <1>1, <1>2 DEF Broadcasts
<1> QED
  BY <1>1, <1>3, GoodTypes, WakeEndTypes, StraightKept, QuietGood

\* A miss in the instruction cache keeps the invariant.
LEMMA FetchMissGood == ASSUME Good, FetchMiss PROVE Good'
<1>1. /\ rs' = rs /\ WindowKept /\ UNCHANGED <<spec_mode, use_spec_cv, event_queue, ready_queue, node>>
      /\ UNCHANGED <<code, fetch_data, wb>>
      /\ stage = "fetch" /\ stage' = "cycle"
  BY DEF FetchMiss, fetchRest, WindowKept, cvVars, queueVars, specVars
<1> QED
  BY <1>1, GoodTypes, FetchMissTypes, StraightKept, BroadcastsKept, NoNode, QuietGood

\* The end of ruu_fetch keeps the invariant.
LEMMA FetchEndGood == ASSUME Good, FetchEnd PROVE Good'
<1>1. /\ rs' = rs /\ WindowKept /\ UNCHANGED <<spec_mode, use_spec_cv, event_queue, ready_queue, node>>
      /\ UNCHANGED <<code, fetch_data, wb>>
      /\ stage = "fetch" /\ stage' = "cycle"
  BY DEF FetchEnd, fetchRest, WindowKept, cvVars, queueVars, specVars
<1> QED
  BY <1>1, GoodTypes, FetchEndTypes, StraightKept, BroadcastsKept, NoNode, QuietGood

\* ruu_fetch keeps the invariant.
LEMMA FetchGood == ASSUME Good, Fetch PROVE Good'
<1>1. /\ rs' = rs /\ WindowKept /\ UNCHANGED <<spec_mode, use_spec_cv, event_queue, ready_queue, node>>
      /\ UNCHANGED <<code, wb>>
      /\ stage = "fetch" /\ stage' = "fetch"
  BY DEF Fetch, fetchRest, WindowKept, cvVars, queueVars, specVars
<1>2. FetchedStraight'
  <2>1. PICK target \in Nat, next \in Nat :
           /\ next = IF target = 0 THEN fetch_pred_PC + 1 ELSE target
           /\ (~ IsCtrl(InstAt(fetch_pred_PC).op) => target = 0)
           /\ fetch_data' = Append(fetch_data, [regs_PC |-> fetch_pred_PC, pred_PC |-> next])
    BY GoodTypes, FetchIs
  <2> DEFINE e == [regs_PC |-> fetch_pred_PC, pred_PC |-> next]
  <2>2. e \in FetchLinks /\ fetch_data \in Seq(FetchLinks)
    BY GoodTypes DEF Types, FetchOK, FetchLinks
  <2>3. \A i \in DOMAIN fetch_data' : fetch_data'[i] = e \/ (i \in DOMAIN fetch_data /\ fetch_data'[i] = fetch_data[i])
    <3> HIDE DEF e
    <3>1. fetch_data' = Append(fetch_data, e)
      BY <2>1 DEF e
    <3> QED
      BY <2>2, <3>1, Appended
  <2>4. ~ IsCtrl(InstAt(e.regs_PC).op) => e.pred_PC = e.regs_PC + 1
    BY <2>1
  <2> HIDE DEF e
  <2>5. \A i \in DOMAIN fetch_data' :
          ~ IsCtrl(InstAt(fetch_data'[i].regs_PC).op) => fetch_data'[i].pred_PC = fetch_data'[i].regs_PC + 1
    BY <2>3, <2>4, GoodTypes DEF FetchedStraight
  <2> QED
    BY <1>1, <2>5 DEF FetchedStraight, InstAt
<1> QED
  BY <1>1, <1>2, GoodTypes, FetchTypes, BroadcastsKept, NoNode, QuietGood

\* A fetch queue that loses its head, or all, keeps its predictions.
LEMMA StraightShorter ==
  ASSUME Types, FetchedStraight, fetch_data # <<>>, code' = code, fetch_data' \in {<<>>, Tail(fetch_data)}
  PROVE  FetchedStraight'
<1>1. \A i \in DOMAIN fetch_data' : i + 1 \in DOMAIN fetch_data /\ fetch_data'[i] = fetch_data[i + 1]
  <2>1. CASE fetch_data' = <<>>
    BY <2>1
  <2>2. CASE fetch_data' = Tail(fetch_data)
    BY <2>2, SeqParts DEF Types, FetchOK
  <2> QED
    BY <2>1, <2>2
<1>2. \A i \in DOMAIN fetch_data' :
        ~ IsCtrl(InstAt(fetch_data'[i].regs_PC).op) => fetch_data'[i].pred_PC = fetch_data'[i].regs_PC + 1
  BY <1>1 DEF FetchedStraight
<1> QED
  BY <1>2 DEF FetchedStraight, InstAt

\* ruu_dispatch of a nop keeps the invariant.
LEMMA DispatchNopGood == ASSUME Good, DispatchNop PROVE Good'
<1>0. PICK npc \in Nat : Execute(npc) /\ npc \in NextPCs(code, Head(fetch_data).regs_PC)
  BY GoodTypes, DispatchNopIs
<1>1. fetch_data # <<>> /\ InstAt(Head(fetch_data).regs_PC).op = "nop"
  BY DEF DispatchNop, CanDispatch
<1>2. ~ Mispredicted(npc)
  <2>1. ~ IsCtrl("nop")
    BY DEF IsCtrl, MD_OP_FLAGS, OpTable
  <2>2. npc = Head(fetch_data).regs_PC + 1
    BY <1>0, <1>1, <2>1 DEF NextPCs, InstAt
  <2>3. 1 \in DOMAIN fetch_data /\ Head(fetch_data) = fetch_data[1]
    BY <1>1, GoodTypes DEF Types, FetchOK
  <2>4. Head(fetch_data).pred_PC = Head(fetch_data).regs_PC + 1
    BY <1>1, <2>1, <2>3, GoodTypes DEF FetchedStraight
  <2> QED
    BY <2>2, <2>4 DEF Mispredicted
<1>3. /\ rs' = rs /\ WindowKept /\ UNCHANGED <<use_spec_cv, event_queue, ready_queue, node>>
      /\ UNCHANGED <<code, wb>> /\ fetch_data' \in {<<>>, Tail(fetch_data)}
      /\ stage = "dispatch" /\ stage' \in {"panic", "dispatch"}
  BY <1>0 DEF DispatchNop, Execute, WindowKept, cvVars, windowVars
<1>4. spec_mode' = spec_mode
  BY <1>0, <1>2, GoodTypes DEF Execute, Types, SpecOK
<1> QED
  BY <1>1, <1>3, <1>4, GoodTypes, DispatchNopTypes, StraightShorter, BroadcastsKept, NoNode, QuietGood

\* A squashed event keeps the invariant.
LEMMA StaleEventGood == ASSUME Good, StaleEvent PROVE Good'
<1>1. /\ rs' = rs /\ WindowKept /\ UNCHANGED <<spec_mode, use_spec_cv, node>>
      /\ UNCHANGED <<code, fetch_data, wb>>
      /\ stage = "writeback" /\ stage' = "writeback"
  BY DEF StaleEvent, WindowKept, cvVars, specVars, fetchVars
<1> QED
  BY <1>1, GoodTypes, StaleEventTypes, StaleEventLists, StraightKept, BroadcastsKept, NoNode, SameGood

\* A squashed candidate keeps the invariant.
LEMMA StaleNodeGood == ASSUME Good, StaleNode PROVE Good'
<1>1. /\ rs' = rs /\ WindowKept /\ UNCHANGED <<spec_mode, use_spec_cv>>
      /\ UNCHANGED <<code, fetch_data, wb>>
      /\ stage = "issue" /\ stage' = "issue"
  BY DEF StaleNode, issueRest, WindowKept, cvVars, specVars, fetchVars
<1> QED
  BY <1>1, GoodTypes, StaleNodeTypes, StaleNodeLists, StraightKept, BroadcastsKept, SameGood

\* A candidate that finds no unit keeps the invariant.
LEMMA RequeueGood == ASSUME Good, Requeue PROVE Good'
<1>1. /\ rs' = rs /\ WindowKept /\ UNCHANGED <<spec_mode, use_spec_cv>>
      /\ UNCHANGED <<code, fetch_data, wb>>
      /\ stage = "issue" /\ stage' \in {"issue", "panic"}
  BY DEF Requeue, issueRest, WindowKept, cvVars, specVars, fetchVars
<1> QED
  BY <1>1, GoodTypes, RequeueTypes, RequeueLists, StraightKept, BroadcastsKept, SameGood

\* The end of a cycle keeps the invariant.
LEMMA NextCycleGood == ASSUME Good, NextCycle PROVE Good'
<1>1. /\ rs' = rs /\ WindowKept /\ UNCHANGED <<spec_mode, use_spec_cv, node>>
      /\ UNCHANGED <<code, fetch_data, wb>>
      /\ stage = "cycle" /\ stage' \in {"returned", "panic", "commit"}
  BY DEF NextCycle, WindowKept, cvVars, specVars, fetchVars
<1> QED
  BY <1>1, GoodTypes, NextCycleTypes, NextCycleLists, StraightKept, BroadcastsKept, NoNode, SameGood

\* lsq_refresh keeps the invariant.
LEMMA RefreshGood == ASSUME Good, Refresh PROVE Good'
<1>1. /\ WindowKept /\ UNCHANGED <<spec_mode, use_spec_cv>> /\ UNCHANGED <<code, fetch_data, wb>>
      /\ stage = "refresh" /\ stage' \in {"panic", "issue"}
  BY DEF Refresh, WindowKept, cvVars, specVars, fetchVars
<1>2. /\ RsTyped /\ TextKept
      /\ \A s \in InFlight : rs[s].recover_inst => rs'[s].completed = rs[s].completed
  BY GoodTypes, RefreshEffect DEF InFlight
<1>3. Lists'
  BY <1>1, GoodTypes, NoNode, RefreshLists
<1> QED
  BY <1>1, <1>2, <1>3, GoodTypes, RefreshTypes, StraightKept, BroadcastsKept, StateGood

\* A step that leaves heads and numbers alone keeps what is in the window.
LEMMA InFlightKept ==
  ASSUME WindowKept
  PROVE  InFlight' = InFlight
BY WindowSame

\* A broadcast of ruu_writeback keeps the invariant.
LEMMA WakeGood == ASSUME Good, Wake PROVE Good'
<1>1. /\ WindowKept /\ UNCHANGED <<spec_mode, use_spec_cv>> /\ UNCHANGED <<code, fetch_data, wb, node>>
      /\ stage = "broadcast" /\ stage' \in {"panic", "broadcast"}
  BY DEF Wake, WindowKept, cvVars, specVars, fetchVars
<1>2. wb \in InFlight /\ rs[wb].completed /\ wb \in Stations
  BY <1>1, GoodTypes DEF Broadcasts, InFlight
<1>3. RSLINK_VALID(WakeLink) => WakeLink.rs # wb
  BY <1>2, GoodTypes, WakeConsumer
<1>4. /\ RsTyped /\ TextKept /\ \A s \in Stations : rs'[s].completed = rs[s].completed
  BY <1>2, <1>3, GoodTypes, WakeEffect
<1>5. Lists' /\ Types'
  BY <1>2, GoodTypes, WakeLists, WakeTypes
<1>6. Broadcasts'
  BY <1>1, <1>2, <1>4, GoodTypes, InFlightKept, NoNode DEF Broadcasts
<1> QED
  BY <1>1, <1>4, <1>5, <1>6, GoodTypes, StraightKept, StateGood DEF InFlight

\* ruu_issue keeps the invariant.
LEMMA IssueStepGood ==
  ASSUME Good, NEW done \in BOOLEAN, IssueStep(done)
  PROVE  Good'
<1>1. /\ WindowKept /\ UNCHANGED <<spec_mode, use_spec_cv>> /\ UNCHANGED <<code, fetch_data, wb>>
      /\ stage = "issue" /\ stage' \in {"panic", "issue"} /\ node # <<>>
      /\ RSLINK_VALID(Head(node)) /\ node' = Tail(node)
  BY DEF IssueStep, WindowKept, cvVars, specVars, fetchVars
<1>2. Candidate \in Stations /\ InWindow(Candidate)
  BY <1>1, GoodTypes, CandidateIs
<1>3. /\ RsTyped /\ TextKept
      /\ \A s \in Stations : rs'[s].completed <=> rs[s].completed \/ (done /\ s = Candidate)
  BY <1>1, <1>2, GoodTypes, IssueEffect DEF IssueStep, WindowKept
<1>4. done => ~ rs[Candidate].recover_inst
  <2>1. done => IsMem(rs[Candidate].op)
    <3>1. rs[Candidate].op \in DOMAIN OpTable
      BY <1>2, GoodTypes DEF Types, Station
    <3> QED
      BY <3>1, OpNames DEF IssueStep
  <2>2. Candidate[1] \in {"RUU", "LSQ"}
    BY <1>2, GoodTypes, Slots
  <2> QED
    BY <1>2, <2>1, <2>2, GoodTypes DEF Kinds
<1>5. \A s \in InFlight : rs[s].recover_inst => rs'[s].completed = rs[s].completed
  <2>1. \A s \in Stations : rs'[s].completed \in BOOLEAN /\ rs[s].completed \in BOOLEAN
    BY <1>3, GoodTypes DEF Types, RsTyped, Station
  <2> QED
    BY <1>3, <1>4, <2>1 DEF InFlight
<1>6. Lists'
  BY <1>1, GoodTypes, IssueLists DEF IssueStep
<1>7. Types'
  BY GoodTypes, IssueTypes
<1> QED
  BY <1>1, <1>3, <1>5, <1>6, <1>7, GoodTypes, StraightKept, BroadcastsKept, StateGood

\* ruu_writeback of an instruction keeps the invariant.
LEMMA WritebackGood == ASSUME Good, NEW b \in Stations, Writeback(b) PROVE Good'
<1>1. /\ WindowKept /\ UNCHANGED <<spec_mode, use_spec_cv>> /\ UNCHANGED <<code, fetch_data, node>>
      /\ stage = "writeback" /\ stage' \in {"panic", "broadcast"} /\ wb' = b /\ ~ rs[b].recover_inst
      /\ Completes(b)
  BY DEF Writeback, Completes, WindowKept, specVars, fetchVars
<1>2. /\ RsTyped /\ TextKept
      /\ \A s \in Stations : rs'[s].completed <=> rs[s].completed \/ s = b
  BY GoodTypes, WritebackEffect
<1>3. InWindow(b)
  BY <1>1, GoodTypes, EventIs
<1>4. Broadcasts'
  BY <1>1, <1>2, <1>3, GoodTypes, InFlightKept, NoNode DEF Broadcasts, InFlight
<1>5. \A s \in InFlight : rs[s].recover_inst => rs'[s].completed = rs[s].completed
  <2>1. \A s \in Stations : rs'[s].completed \in BOOLEAN /\ rs[s].completed \in BOOLEAN
    BY <1>2, GoodTypes DEF Types, RsTyped, Station
  <2> QED
    BY <1>1, <1>2, <2>1 DEF InFlight
<1>6. Lists' /\ Types'
  BY GoodTypes, WritebackLists, WritebackTypes
<1> QED
  BY <1>1, <1>2, <1>4, <1>5, <1>6, GoodTypes, StraightKept, StateGood

\* ruu_recover keeps the invariant.
LEMMA RecoverGood == ASSUME Good, NEW b \in Stations, Recover(b) PROVE Good'
<1>1. /\ node' = node /\ code' = code /\ stage = "writeback" /\ stage' \in {"panic", "broadcast"}
      /\ wb' = b /\ fetch_data' = <<>>
  BY DEF Recover, Completes
<1>2. /\ RsTyped /\ TextKept /\ Stations' = Stations /\ Rings'
      /\ b \notin Squashed(b) /\ InWindow(b)
      /\ \A s \in Stations : InWindow(s)' <=> InWindow(s) /\ s \notin Squashed(b)
  BY GoodTypes, RecoverEffect, RecoverWindow, RecoverIs
<1>3. b \in InFlight' /\ rs'[b].completed
  BY <1>2, GoodTypes, RecoverEffect DEF InFlight
<1>4. Broadcasts'
  BY <1>1, <1>3, GoodTypes, NoNode DEF Broadcasts
<1>5. Kinds'
  BY <1>2, GoodTypes, KindsShrink
<1>6. FetchedStraight'
  BY <1>1 DEF FetchedStraight
<1>7. Types' /\ Accesses' /\ WrongPath' /\ Lists'
  BY GoodTypes, RecoverTypes, RecoverAccesses, RecoverWrongPath, RecoverLists
<1> QED
  BY <1>2, <1>4, <1>5, <1>6, <1>7 DEF Good

\* ruu_commit keeps the invariant.
LEMMA CommitGood == ASSUME Good, Commit PROVE Good'
<1>1. /\ UNCHANGED <<code, fetch_data, wb, node>> /\ stage = "commit" /\ stage' \in {"panic", "commit"}
  BY DEF Commit, fetchVars, queueVars
<1>2. /\ RsTyped /\ TextKept /\ Rings'
      /\ \A s \in Stations : InWindow(s)' => InWindow(s)
  BY GoodTypes, CommitEffect, CommitWindow
<1>3. Kinds'
  BY <1>2, GoodTypes, KindsShrink
<1>4. FetchedStraight' /\ Broadcasts'
  BY <1>1, GoodTypes, StraightKept, BroadcastsKept, NoNode
<1>5. Types' /\ Accesses' /\ WrongPath' /\ Lists'
  BY GoodTypes, CommitTypes, CommitAccesses, CommitWrongPath, CommitLists
<1> QED
  BY <1>2, <1>3, <1>4, <1>5 DEF Good

\* ruu_dispatch keeps the invariant.
LEMMA DispatchesGood ==
  ASSUME Good, NEW mem, Dispatches(mem)
  PROVE  Good'
<1>1. /\ Extended(mem) /\ Entered(mem) /\ code' = code /\ wb' = wb /\ node' = node
      /\ stage = "dispatch" /\ stage' \in {"panic", "dispatch"}
      /\ fetch_data # <<>> /\ fetch_data' \in {<<>>, Tail(fetch_data)}
  BY DEF Dispatches, Executed, DispatchedTypes
<1>2. Rings' /\ Kinds' /\ Accesses' /\ WrongPath' /\ Lists'
  BY <1>1, GoodTypes, EnteredWindow, EnteredKinds, EnteredAccesses, EnteredWrongPath, EnteredLists
<1>3. Types'
  BY GoodTypes, DispatchesTypes
<1>4. FetchedStraight' /\ Broadcasts'
  BY <1>1, GoodTypes, StraightShorter, BroadcastsKept, NoNode
<1> QED
  BY <1>2, <1>3, <1>4 DEF Good

\* The fields of a station that calloc has cleared.
LEMMA IdleFields ==
  /\ IdleStation \in Station
  /\ IdleStation.tag = 0 /\ ~ IdleStation.queued /\ ~ IdleStation.issued /\ ~ IdleStation.completed
  /\ ~ IdleStation.ea_comp /\ ~ IdleStation.recover_inst /\ ~ IdleStation.spec_mode
  /\ IdleStation.op = "nop" /\ IdleStation.odep_list[1] = <<>> /\ IdleStation.odep_list[2] = <<>>
  /\ ~ IdleStation.idep_ready[1]
<1>1. "nop" \in DOMAIN OpTable
  BY DEF OpTable
<1>2. <<NA, NA>> \in [1 .. 2 -> Regs \cup {NA}]
  OBVIOUS
<1>3. [k \in 1 .. 3 |-> FALSE] \in [1 .. 3 -> BOOLEAN] /\ ~ [k \in 1 .. 3 |-> FALSE][1]
  OBVIOUS
<1> DEFINE f == [k \in 1 .. 3 |-> FALSE]
<1> HIDE DEF f
<1>4. IdleStation \in Station
  BY <1>1, <1>2, <1>3, NoChains DEF IdleStation, Station, f
<1> QED
  BY <1>3, <1>4, NoChains DEF IdleStation

\* sim_init and the calls of *_init leave all variables with their types.
LEMMA InitTypes == Init => Types
<1> SUFFICES ASSUME Init PROVE Types
  OBVIOUS
<1>1. config \in Configs /\ code \in Programs
  BY DEF Init
<1>2. rs \in [Stations -> Station]
  BY IdleFields DEF Init
<1>3. RingsTyped
  BY <1>1, SizeType DEF Init, RingsTyped
<1>4. CvOK
  BY DEF Init, CvOK, CvEntry
<1>5. QueuesOK
  BY SizesAssumption DEF Init, QueuesOK
<1>6. FetchOK
  BY WidthType DEF Init, FetchOK
<1>7. SpecOK /\ CountOK /\ BusyOK
  BY DEF Init, SpecOK, CountOK, BusyOK
<1>8. LastOK
  BY NullLink DEF Init, LastOK
<1>9. PlaceOK
  BY StageNames DEF Init, PlaceOK
<1> QED
  BY <1>1, <1>2, <1>3, <1>4, <1>5, <1>6, <1>7, <1>8, <1>9 DEF Types

\* The empty list has no links.
LEMMA EmptyCount ==
  ASSUME NEW s, NEW t
  PROVE  CountOf(<<>>, s, t) = 0
BY FS_EmptySet DEF CountOf, Places

\* The invariant holds when sim_main starts.
LEMMA InitGood == Init => Good
<1> SUFFICES ASSUME Init PROVE Good
  OBVIOUS
<1>1. Types /\ TypeOK /\ RingsTyped
  BY InitTypes, TypesGive
<1>2. \A s \in Stations : rs[s] = IdleStation
  BY DEF Init
<1>3. \A s : s \in Stations => ~ InWindow(s)
  <2>1. RUU_num = 0 /\ LSQ_num = 0
    BY DEF Init
  <2> QED
    BY <1>1, <2>1, Slots DEF InWindow
<1>4. Rings
  <2>1. /\ RUU_size \in Nat \ {0} /\ LSQ_size \in Nat \ {0}
    BY <1>1, SizeType DEF RingsTyped
  <2>2. Res(0, RUU_size) = 0 /\ Res(0, LSQ_size) = 0
    <3>1. 0 \in Int
      OBVIOUS
    <3> QED
      BY <2>1, <3>1, ModNear
  <2> QED
    BY <2>2 DEF Init, Rings, Res
<1>5. Kinds
  <2>1. ~ IsMem("nop")
    BY DEF IsMem, MD_OP_FLAGS, OpTable
  <2> QED
    BY <1>2, <1>3, <2>1, IdleFields DEF Kinds
<1>6. Accesses
  <2>1. RUU_num = 0 /\ LSQ_num = 0
    BY DEF Init
  <2>2. Agens = {}
    BY <2>1 DEF Agens, Window
  <2>3. RankIn(Agens, 0) = 0
    BY <2>2, RankZero
  <2> QED
    BY <2>1, <2>2, <2>3 DEF Accesses
<1>7. WrongPath
  BY DEF Init, WrongPath, Branches, Window
<1>8. FetchedStraight
  BY DEF Init, FetchedStraight
<1>9. Lists
  <2>1. Flagged
    BY <1>3 DEF Flagged
  <2>2. Counted
    <3>1. ASSUME NEW s \in Stations
          PROVE  /\ ReadyCount(s) = One(InWindow(s) /\ rs[s].queued)
                 /\ EventCount(s) = One(InWindow(s) /\ UnderWay(s))
      <4>1. ReadyCount(s) = 0 /\ EventCount(s) = 0
        BY EmptyCount DEF Init, ReadyCount, EventCount
      <4> QED
        BY <1>3, <4>1 DEF One
    <3> QED
      BY <3>1, CountedIs
  <2>3. AllPast
    BY DEF Init, AllPast, PastTags
  <2>4. \A s \in Stations, i \in 1 .. 2 : DOMAIN rs[s].odep_list[i] = {}
    BY <1>2, IdleFields
  <2>5. LinkInv(rs, InFlight)
    BY <2>4 DEF LinkInv, Wanted, Alone, PastChains, Waits
  <2>6. MemoryOrder
    BY DEF Init, MemoryOrder
  <2> QED
    BY <2>1, <2>2, <2>3, <2>5, <2>6 DEF Lists
<1>10. Broadcasts
  BY DEF Init, Broadcasts
<1> QED
  BY <1>1, <1>4, <1>5, <1>6, <1>7, <1>8, <1>9, <1>10 DEF Good

\* A step that changes nothing keeps the invariant.
LEMMA StoppedGood == ASSUME Good, UNCHANGED vars PROVE Good'
<1>1. /\ rs' = rs /\ WindowKept /\ UNCHANGED <<spec_mode, use_spec_cv, event_queue, ready_queue, node>>
      /\ UNCHANGED <<code, fetch_data, wb, stage>>
  BY DEF vars, WindowKept, cvVars, queueVars, specVars, fetchVars
<1>2. Types'
  <2>1. /\ UNCHANGED <<code, config, windowVars, cvVars, queueVars, specVars, last_op, countVars, wb, fetchVars>>
        /\ UNCHANGED <<n, branch_cnt, busy>>
    BY DEF vars
  <2>2. CountOK' /\ FetchOK' /\ BusyOK'
    BY <2>1, GoodTypes, TypesKept
  <2>3. stage' \in Stages
    BY <1>1, GoodTypes DEF Types, PlaceOK
  <2> QED
    BY <1>1, <2>1, <2>2, <2>3, GoodTypes, QuietTypes
<1>3. Broadcasts'
  BY <1>1, GoodTypes, InFlightKept DEF Broadcasts
<1> QED
  BY <1>1, <1>2, <1>3, GoodTypes, StraightKept, QuietGood

\* Every step of the pipeline keeps the invariant.
LEMMA NextGood == ASSUME Good, [Next]_vars PROVE Good'
<1>1. CASE Commit \/ CommitEnd
  BY <1>1, CommitGood, CommitEndGood
<1>2. CASE StaleEvent \/ WakeEnd \/ Wake \/ WritebackEnd
  BY <1>2, StaleEventGood, WakeEndGood, WakeGood, WritebackEndGood
<1>3. ASSUME NEW s \in Stations, Writeback(s) \/ Recover(s) PROVE Good'
  BY <1>3, WritebackGood, RecoverGood
<1>4. CASE Refresh
  BY <1>4, RefreshGood
<1>5. CASE IssueStore \/ IssueFree \/ IssueLoad \/ IssueOp
  <2>1. IssueStep(TRUE) \/ IssueStep(FALSE)
    BY <1>5, IssueStoreIs, IssueFreeIs, IssueLoadIs, IssueOpIs
  <2>2. TRUE \in BOOLEAN /\ FALSE \in BOOLEAN
    OBVIOUS
  <2>3. CASE IssueStep(TRUE)
    BY <2>2, <2>3, IssueStepGood
  <2>4. CASE IssueStep(FALSE)
    BY <2>2, <2>4, IssueStepGood
  <2> QED
    BY <2>1, <2>3, <2>4
<1>6. CASE Requeue \/ StaleNode \/ IssueEnd
  BY <1>6, RequeueGood, StaleNodeGood, IssueEndGood
<1>7. CASE DispatchOp \/ DispatchMem
  <2>1. CASE DispatchOp
    BY <2>1, GoodTypes, DispatchOpDispatches, DispatchesGood
  <2>2. CASE DispatchMem
    BY <2>2, GoodTypes, DispatchMemDispatches, DispatchesGood
  <2> QED
    BY <1>7, <2>1, <2>2
<1>8. CASE DispatchNop \/ DispatchEnd
  BY <1>8, DispatchNopGood, DispatchEndGood
<1>9. CASE Fetch \/ FetchMiss \/ FetchEnd
  BY <1>9, FetchGood, FetchMissGood, FetchEndGood
<1>10. CASE NextCycle
  BY <1>10, NextCycleGood
<1>11. CASE UNCHANGED vars
  BY <1>11, StoppedGood
<1>12. Next => \/ Cycle \/ UNCHANGED vars
  BY DEF Next, Stopped
<1> QED
  BY <1>1, <1>2, <1>3, <1>4, <1>5, <1>6, <1>7, <1>8, <1>9, <1>10, <1>11, <1>12 DEF Cycle

\* The inductive invariant of the pipeline: types, rings, the places of accesses in the
\* LSQ, the wrong path as the tail of the window, and one link in the lists for every
\* instruction that is queued, under way or waiting.
THEOREM GoodAlways == Spec => []Good
<1>1. Good /\ [Next]_vars => Good'
  BY NextGood
<1> QED
  BY <1>1, InitGood, PTL DEF Spec

\* The greatest member of a set of places.
LEMMA MaxIs ==
  ASSUME NEW S, NEW k \in Nat, S \subseteq 0 .. k - 1, S # {}
  PROVE  Max(S) \in S /\ \A x \in S : x <= Max(S)
<1> DEFINE D == {k - x : x \in S}
<1>1. PICK x \in S : TRUE
  OBVIOUS
<1>2. D \subseteq Nat /\ D # {}
  OBVIOUS
<1>3. PICK d \in D : \A e \in D : d <= e
  <2> HIDE DEF D
  <2>1. IsWellFoundedOn(OpToRel(<, Nat), Nat)
    BY NatLessThanWellFounded
  <2>2. PICK d \in D : \A e \in D : ~ (<<e, d>> \in OpToRel(<, Nat))
    BY <1>2, <2>1, WFMin
  <2>3. ASSUME NEW e \in D PROVE d <= e
    <3>1. e \in Nat /\ d \in Nat
      BY <1>2
    <3>2. ~ (e < d)
      BY <2>2, <3>1 DEF OpToRel
    <3> QED
      BY ONLY <3>1, <3>2
  <2> QED
    BY <2>3
<1>4. PICK m \in S : d = k - m
  BY <1>3
<1>5. \A y \in S : m >= y
  BY <1>3, <1>4
<1> QED
  BY <1>4, <1>5 DEF Max

\* One link for each instruction on its way, and none on its way forgotten, is
\* NoneForgotten.
LEMMA NoneForgottenIs == Flagged /\ Counted => NoneForgotten
<1> SUFFICES ASSUME Flagged, Counted, NEW s \in Stations, InWindow(s)
             PROVE  LET Valid(q) == Cardinality({i \in DOMAIN q : q[i].rs = s /\ q[i].tag = rs[s].tag})
                        in_ready == Valid(ready_queue) + Valid(node)
                    IN  /\ in_ready = IF rs[s].queued THEN 1 ELSE 0
                        /\ Valid(event_queue) = IF rs[s].issued /\ ~ rs[s].completed THEN 1 ELSE 0
                        /\ rs[s].queued => ~ rs[s].issued
                        /\ rs[s].queued \/ rs[s].issued => OPERANDS_READY(s)
                        /\ OPERANDS_READY(s) /\ ~ rs[s].queued /\ ~ rs[s].issued
                             => s[1] = "LSQ" /\ IsLoad(rs[s].op)
  BY Zenon DEF NoneForgotten
<1> DEFINE Valid(q) == Cardinality({i \in DOMAIN q : q[i].rs = s /\ q[i].tag = rs[s].tag})
<1>1. \A q : Valid(q) = CountOf(q, s, rs[s].tag)
  BY DEF CountOf, Places
<1>2. /\ Valid(ready_queue) + Valid(node) = One(InWindow(s) /\ rs[s].queued)
      /\ Valid(event_queue) = One(InWindow(s) /\ rs[s].issued /\ ~ rs[s].completed)
  <2> HIDE DEF Valid
  <2> QED
    BY <1>1 DEF Counted
<1> HIDE DEF Valid
<1>3. /\ Valid(ready_queue) + Valid(node) = IF rs[s].queued THEN 1 ELSE 0
      /\ Valid(event_queue) = IF rs[s].issued /\ ~ rs[s].completed THEN 1 ELSE 0
  BY <1>2 DEF One
<1> QED
  BY <1>3 DEF Flagged, Valid

\* MemoryOrder is LoadsSeeStores: the last store before a load is one of those before
\* it.
LEMMA SeesStores ==
  ASSUME RingsTyped, MemoryOrder
  PROVE  LoadsSeeStores
<1> SUFFICES ASSUME NEW p \in 0 .. LSQ_num - 1,
                    IsLoad(rs[LsqAt(p)].op), rs[LsqAt(p)].queued \/ rs[LsqAt(p)].issued
             PROVE  /\ \A q \in 0 .. p - 1 : StoreAt(q) => STORE_ADDR_READY(LsqAt(q))
                    /\ {q \in 0 .. p - 1 : StoreAt(q) /\ rs[LsqAt(q)].addr = rs[LsqAt(p)].addr} # {} =>
                         OPERANDS_READY(LsqAt(Max({q \in 0 .. p - 1 :
                           StoreAt(q) /\ rs[LsqAt(q)].addr = rs[LsqAt(p)].addr})))
  BY DEF LoadsSeeStores
<1> DEFINE same == {q \in 0 .. p - 1 : StoreAt(q) /\ rs[LsqAt(q)].addr = rs[LsqAt(p)].addr}
<1>1. LSQ_num \in Nat /\ p \in Nat /\ \A q \in 0 .. p - 1 : q \in 0 .. LSQ_num - 1 /\ q < p
  BY DEF RingsTyped
<1>2. LoadClear(p)
  BY MemoryOrderIs DEF OnItsWay
<1>3. \A q \in 0 .. p - 1 : StoreAt(q) => STORE_ADDR_READY(LsqAt(q))
  BY <1>1, <1>2 DEF LoadClear, StoreAt
<1>4. ASSUME same # {} PROVE OPERANDS_READY(LsqAt(Max(same)))
  <2>1. PICK m : m = Max(same) /\ m \in same /\ \A x \in same : x <= m
    <3>1. same \subseteq 0 .. p - 1
      OBVIOUS
    <3> HIDE DEF same
    <3> QED
      BY <1>1, <1>4, <3>1, MaxIs
  <2>2. /\ m \in 0 .. p - 1 /\ m \in 0 .. LSQ_num - 1 /\ m < p /\ IsStore(rs[LsqAt(m)].op)
        /\ rs[LsqAt(m)].addr = rs[LsqAt(p)].addr
    BY <1>1, <2>1 DEF StoreAt
  <2>3. \/ OPERANDS_READY(LsqAt(m))
        \/ \E h \in m + 1 .. p - 1 : IsStore(rs[LsqAt(h)].op) /\ rs[LsqAt(h)].addr = rs[LsqAt(m)].addr
    BY <1>2, <2>2 DEF LoadClear
  <2>4. \A h \in m + 1 .. p - 1 : ~ (IsStore(rs[LsqAt(h)].op) /\ rs[LsqAt(h)].addr = rs[LsqAt(m)].addr)
    <3> SUFFICES ASSUME NEW h \in m + 1 .. p - 1, IsStore(rs[LsqAt(h)].op),
                        rs[LsqAt(h)].addr = rs[LsqAt(m)].addr
                 PROVE  FALSE
      OBVIOUS
    <3>1. h \in 0 .. p - 1 /\ h > m
      BY <1>1, <2>2
    <3>2. h \in same
      BY <1>1, <2>2, <3>1 DEF StoreAt
    <3> HIDE DEF same
    <3> QED
      BY <1>1, <2>1, <2>2, <3>1, <3>2
  <2> QED
    BY <2>1, <2>3, <2>4
<1> QED
  BY <1>3, <1>4

\* Every variable keeps its type, whatever the sizes, the program and the options: in
\* particular RUU_num and LSQ_num never pass the sizes of the rings.
THEOREM TypesAlways == Spec => []TypeOK
<1>1. Good => TypeOK
  BY GoodTypes
<1> QED
  BY <1>1, GoodAlways, PTL

\* No instruction is forgotten: one in the window that is not completed misses an
\* operand that has a link to it, or has one entry in the ready lists or in the event
\* queue, or is a load that lsq_refresh will find (ruu_issue, ruu_writeback,
\* lsq_refresh).
THEOREM NeverForgets == Spec => []NoneForgotten
<1>1. Good => NoneForgotten
  BY GoodTypes, NoneForgottenIs
<1> QED
  BY <1>1, GoodAlways, PTL

\* No load starts before an earlier store of its address, or of an address that is not
\* known yet (lsq_refresh).
THEOREM LoadsAlwaysSeeStores == Spec => []LoadsSeeStores
<1>1. Good => LoadsSeeStores
  BY GoodTypes, SeesStores
<1> QED
  BY <1>1, GoodAlways, PTL

\* What was dispatched in spec_mode is the tail of the window behind the one
\* mispredicted branch, so that ruu_recover squashes all of the wrong path and nothing
\* else.
THEOREM TailIsWrongPath == Spec => []WrongPathIsTail
<1>1. Good => WrongPathIsTail
  BY GoodTypes, WrongPathIs
<1> QED
  BY <1>1, GoodAlways, PTL

\* The k-th entry of the LSQ is the access of the k-th address computation in the RUU,
\* which is what ruu_commit and ruu_recover take for granted as they move both heads, or
\* both tails.
THEOREM LsqAlwaysFollowsRuu == Spec => []LsqFollowsRuu
<1>1. Good => LsqFollowsRuu
  BY GoodTypes, AccessesAre
<1> QED
  BY <1>1, GoodAlways, PTL
=============================================================================
