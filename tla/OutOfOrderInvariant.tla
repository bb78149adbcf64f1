------------------------- MODULE OutOfOrderInvariant -------------------------
(***************************************************************************)
(* The inductive invariant of the out-of-order pipeline: its types, the    *)
(* two ring buffers, the lists of links and the create vectors, as         *)
(* conjuncts that hold whatever the sizes and the program are.             *)
(***************************************************************************)
EXTENDS OutOfOrder

\* An entry of a create vector is empty, or names an output of a station.
CvTypes ==
  \A r \in Regs : /\ create_vector[r] \in {CVLINK_NULL} \cup [rs : Stations, odep : 1 .. 2]
                  /\ spec_create_vector[r] \in {CVLINK_NULL} \cup [rs : Stations, odep : 1 .. 2]

\* RUU and LSQ are rings: head, tail and number agree.
Rings ==
  /\ RUU_tail = (RUU_head + RUU_num) % RUU_size
  /\ LSQ_tail = (LSQ_head + LSQ_num) % LSQ_size

\* Loads and stores are in the LSQ, everything else, with the branches, in the RUU;
\* a store writes no register.
Kinds ==
  \A s \in Stations :
    /\ s[1] = "RUU" => ~ IsMem(rs[s].op)
    /\ s[1] = "LSQ" => ~ rs[s].ea_comp /\ ~ rs[s].recover_inst
    /\ s[1] = "LSQ" /\ InWindow(s) => IsMem(rs[s].op)
    /\ InWindow(s) /\ IsStore(rs[s].op) => rs[s].onames = <<NA, NA>>

\* The address computations among the first p entries of the RUU, and how many they are.
AgensBelow(p) == {q \in 0 .. p - 1 : rs[RuuAt(q)].ea_comp}
Rank(p)       == Cardinality(AgensBelow(p))

\* Every entry of the LSQ is the access of an address computation.
LsqIsRanked ==
  \A k \in 0 .. LSQ_num - 1 : \E p \in Window : rs[RuuAt(p)].ea_comp /\ Rank(p) = k

\* What is no branch was fetched as such.
FetchedStraight ==
  \A i \in DOMAIN fetch_data :
    ~ IsCtrl(InstAt(fetch_data[i].regs_PC).op) => fetch_data[i].pred_PC = fetch_data[i].regs_PC + 1

\* How far an instruction is, and where it still has to be looked for.
Flagged ==
  \A s \in Stations : InWindow(s) =>
    /\ rs[s].queued => ~ rs[s].issued
    /\ rs[s].completed => rs[s].issued
    /\ rs[s].queued \/ rs[s].issued => OPERANDS_READY(s)
    /\ OPERANDS_READY(s) /\ ~ rs[s].queued /\ ~ rs[s].issued => s[1] = "LSQ" /\ IsLoad(rs[s].op)

\* The links of a list to station s that carry tag t.
Places(q, s, t)  == {i \in DOMAIN q : q[i].rs = s /\ q[i].tag = t}
CountOf(q, s, t) == Cardinality(Places(q, s, t))
One(b) == IF b THEN 1 ELSE 0

\* The ready lists and the event queue hold one valid link to each instruction that
\* is queued, or under way, and no other.
Counted ==
  \A s \in Stations :
    /\ CountOf(ready_queue, s, rs[s].tag) + CountOf(node, s, rs[s].tag)
         = One(InWindow(s) /\ rs[s].queued)
    /\ CountOf(event_queue, s, rs[s].tag)
         = One(InWindow(s) /\ rs[s].issued /\ ~ rs[s].completed)

\* No list has a link with a tag that its station has not had yet, so
\* that a squash or a retirement cuts all links to it.
PastTags(q) == \A i \in DOMAIN q : q[i].tag <= rs[q[i].rs].tag
LinkAt(st, s, i, j) == st[s].odep_list[i][j]
PastChains(st) ==
  \A s \in Stations, i \in 1 .. 2 : \A j \in DOMAIN st[s].odep_list[i] :
    LinkAt(st, s, i, j).tag <= st[LinkAt(st, s, i, j).rs].tag
Tagged == PastTags(event_queue) /\ PastTags(ready_queue) /\ PastTags(node) /\ PastChains(rs)

\* The j-th link of the i-th output chain of s, in the stations st, is to an operand of
\* an instruction that is still there.
Waits(st, s, i, j) ==
  j \in DOMAIN st[s].odep_list[i] /\ LinkAt(st, s, i, j).tag = st[LinkAt(st, s, i, j).rs].tag

\* A consumer on an output chain is in the set W and misses that operand.
Wanted(st, W) ==
  \A s \in Stations, i \in 1 .. 2, j \in Nat : Waits(st, s, i, j) =>
    LET l == LinkAt(st, s, i, j) IN l.rs \in W /\ ~ st[l.rs].idep_ready[l.opnum]
\* It is on one chain only.
Alone(st) ==
  \A s, t \in Stations, i, k \in 1 .. 2, j, m \in Nat :
    /\ Waits(st, s, i, j) /\ Waits(st, t, k, m)
    /\ LinkAt(st, s, i, j).rs = LinkAt(st, t, k, m).rs
    /\ LinkAt(st, s, i, j).opnum = LinkAt(st, t, k, m).opnum
    => s = t /\ i = k /\ j = m

InFlight == {s \in Stations : InWindow(s)}
Chained == Wanted(rs, InFlight) /\ Alone(rs)

\* While a result is broadcast, its producer is complete and in the window, and the ready
\* list is walked by ruu_issue only.
Broadcasts ==
  /\ stage = "broadcast" => wb \in InFlight /\ rs[wb].completed
  /\ stage \notin {"broadcast", "panic"} => wb = NULL
  /\ stage \notin {"issue", "panic"} => node = <<>>

\* An entry of a create vector that counts is of an instruction of its path that has
\* not delivered its result.
Creates(s, i, r, spec) ==
  /\ InWindow(s) /\ ~ rs[s].completed
  /\ rs[s].spec_mode = spec /\ rs[s].onames[i] = r
CvLive ==
  \A r \in Regs :
    /\ create_vector[r] # CVLINK_NULL => Creates(create_vector[r].rs, create_vector[r].odep, r, FALSE)
    /\ r \in use_spec_cv /\ spec_create_vector[r] # CVLINK_NULL =>
         Creates(spec_create_vector[r].rs, spec_create_vector[r].odep, r, TRUE)

\* Nothing waits for an instruction that is complete or gone, or for an output that is none.
ChainsEnd ==
  \A s \in Stations, i \in 1 .. 2 :
    /\ s # wb /\ (~ InWindow(s) \/ rs[s].completed) => rs[s].odep_list[i] = <<>>
    /\ rs[s].onames[i] = NA => rs[s].odep_list[i] = <<>>

\* The station that has the outputs of the entry at q of the RUU, and whether register r is one.
Writer(q)    == IF rs[RuuAt(q)].ea_comp THEN AccessOf(q) ELSE RuuAt(q)
Writes(q, r) == \E i \in 1 .. 2 : rs[Writer(q)].onames[i] = r

\* The entries that write r: among the first p, of the correct path, and of a wrong one.
WritersBelow(p, r)  == {q \in 0 .. p - 1 : Writes(q, r)}
StraightWriters(r)  == {q \in Window : ~ rs[RuuAt(q)].spec_mode /\ Writes(q, r)}
AstrayWriters(r)    == {q \in Window : rs[RuuAt(q)].spec_mode /\ Writes(q, r)}
LastOf(S, q)        == q \in S /\ \A h \in S : h <= q

\* An address computation has DTMP for its output.
AgensName ==
  \A q \in Window : rs[RuuAt(q)].ea_comp => rs[RuuAt(q)].onames[1] = DTMP /\ rs[RuuAt(q)].onames[2] = NA

\* Entry e of a create vector is the last of the writers S, and empty if that one is complete.
Tracks(e, S) ==
  IF e = CVLINK_NULL THEN \A q \in S : LastOf(S, q) => rs[Writer(q)].completed
  ELSE \E q \in S : LastOf(S, q) /\ e.rs = Writer(q)

\* The create vector tracks the correct path, and its copy what a wrong path has written.
CvTracks ==
  \A r \in Regs \ {DTMP} :
    /\ Tracks(create_vector[r], StraightWriters(r))
    /\ r \in use_spec_cv <=> AstrayWriters(r) # {}
    /\ r \in use_spec_cv => Tracks(spec_create_vector[r], AstrayWriters(r))

\* Output i of station s is what operand k of x, at p, may wait for.
Supplies(p, x, k, s, i) ==
  LET r == OperandName(x, k)
  IN  \/ r = DTMP /\ s = RuuAt(p) /\ i = 1
      \/ /\ r \notin {NA, DTMP} /\ rs[s].onames[i] = r
         /\ \E q \in WritersBelow(p, r) : LastOf(WritersBelow(p, r), q) /\ s = Writer(q)
HasLink(st, s, i, x, k) ==
  \E j \in DOMAIN st[s].odep_list[i] :
    st[s].odep_list[i][j] = [rs |-> x, tag |-> st[x].tag, opnum |-> k]

\* An operand that is there waits for nothing, one that is missing is on the chain of its producer.
Settled(p, x, k) ==
  IF rs[x].idep_ready[k]
  THEN \A s \in Stations, i \in 1 .. 2 : Supplies(p, x, k, s, i) => rs[s].completed
  ELSE \E s \in Stations, i \in 1 .. 2 : Supplies(p, x, k, s, i) /\ HasLink(rs, s, i, x, k)
OperandsSettled == \A p \in Window : \A x \in OpsAt(p), k \in 1 .. 3 : Settled(p, x, k)

\* A load that is on its way has no older store without an address, and no older store to
\* its address without data that is not hidden by another one.
MemoryOrder ==
  \A p \in 0 .. LSQ_num - 1, q \in 0 .. LSQ_num - 1 :
    /\ q < p /\ IsLoad(rs[LsqAt(p)].op) /\ (rs[LsqAt(p)].queued \/ rs[LsqAt(p)].issued)
    /\ IsStore(rs[LsqAt(q)].op)
    => /\ STORE_ADDR_READY(LsqAt(q))
       /\ \/ rs[LsqAt(q)].addr # rs[LsqAt(p)].addr
          \/ OPERANDS_READY(LsqAt(q))
          \/ \E h \in q + 1 .. p - 1 : IsStore(rs[LsqAt(h)].op) /\ rs[LsqAt(h)].addr = rs[LsqAt(q)].addr

\* The stores without data that lsq_refresh has to remember.
StdUnknowns == {q \in 0 .. LSQ_num - 1 : Scanned(q) /\ StdUnknown(q)}

\* The simulator gives up for want of room only, of links or in std_unknowns.
PanicsForRoom ==
  stage = "panic" => free_links <= 0 \/ Cardinality(StdUnknowns) > MAX_STD_UNKNOWNS

IInv ==
  /\ TypeOK /\ CvTypes /\ Rings /\ Kinds
  /\ LsqFollowsRuu /\ LsqIsRanked /\ WrongPathIsTail
  /\ FetchedStraight
  /\ Flagged /\ Counted /\ Tagged /\ Chained /\ Broadcasts /\ CvLive /\ ChainsEnd
  /\ MemoryOrder /\ PanicsForRoom
  /\ AgensName /\ CvTracks /\ OperandsSettled
=============================================================================
