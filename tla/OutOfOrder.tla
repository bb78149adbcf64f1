----------------------------- MODULE OutOfOrder -----------------------------
(***************************************************************************)
(* The out-of-order pipeline of lab4/simplesim-3.0d-assig4/sim-outorder.c. *)
(* The pipeline stages of one cycle are called in reverse order; a stage   *)
(* is a loop, and one action is one turn of that loop, `stage' naming the  *)
(* function that is running.                                               *)
(*                                                                         *)
(* A struct RUU_station* is <<"RUU", i>> or <<"LSQ", i>>.  An RS_link      *)
(* carries the station and the tag it had when the link was made; a squash *)
(* or a retirement increments the station's tag, and so cuts every link.   *)
(* Operand k of the source is k + 1.  Absolute times are not kept: the     *)
(* time of an event is its distance from sim_cycle.  Instructions are      *)
(* executed at dispatch, as in the source, where the outcome of a branch   *)
(* and the address of an access are choices: values are not modelled.      *)
(* A panic or fatal of the source is the stage "panic".                    *)
(***************************************************************************)
EXTENDS ResourcePool, Integers, FiniteSets, SequencesExt

CONSTANTS
  RUU_size,             \* entries of the register update unit
  ruu_ifq_size,         \* entries of the IFETCH -> DISPATCH queue
  ruu_decode_width, ruu_issue_width, ruu_commit_width,
  fetch_speed,          \* front end relative to the core
  ruu_branch_penalty,   \* cycles fetch waits after a misprediction
  max_insts,            \* the simulation ends after as many correct-path instructions
  MAX_RS_LINKS,         \* links allocated at the start
  MAX_STD_UNKNOWNS,     \* stores without data that lsq_refresh can remember
  MD_TOTAL_REGS,        \* registers; the last one is DTMP
  Configs,              \* settings of the flags, and entries of the load/store queue
  Programs,             \* program texts
  Addrs,                \* addresses of loads and stores
  LoadLats, TlbLats,    \* what data cache and TLB answer to a load
  FetchLats,            \* what instruction cache and TLB answer to a fetch that misses
  Predictions(_, _)     \* what bpred_lookup may return for a branch of a text; 0 is no target

NA    == 0
DTMP  == MD_TOTAL_REGS
Regs  == 1 .. MD_TOTAL_REGS
NULL  == <<"NULL", 0>>                     \* no station
CVLINK_NULL == [rs |-> NULL, odep |-> 0]
RSLINK_NULL == [rs |-> NULL, tag |-> 0]
NoConsumers == <<<<>>, <<>>>>              \* empty output chains

\* The opcodes: flags and functional unit class, as in pisa.def.
OpTable ==
  [add     |-> [flags |-> {"ICOMP"},                    fu |-> "IntALU"],
   mult    |-> [flags |-> {"ICOMP", "LONGLAT"},         fu |-> "IntMULT"],
   lw      |-> [flags |-> {"MEM", "LOAD"},              fu |-> "RdPort"],
   sw      |-> [flags |-> {"MEM", "STORE"},             fu |-> "WrPort"],
   beq     |-> [flags |-> {"CTRL", "COND", "DIRJMP"},   fu |-> "IntALU"],
   j       |-> [flags |-> {"CTRL", "UNCOND", "DIRJMP"}, fu |-> "NA"],
   jr      |-> [flags |-> {"CTRL", "UNCOND"},           fu |-> "NA"],
   syscall |-> [flags |-> {"TRAP"},                     fu |-> "NA"],
   nop     |-> [flags |-> {"ICOMP"},                    fu |-> "IntALU"]]
MD_OP_FLAGS(op)   == OpTable[op].flags
MD_OP_FUCLASS(op) == OpTable[op].fu
IsStore(op) == "STORE" \in MD_OP_FLAGS(op)
IsLoad(op)  == "LOAD" \in MD_OP_FLAGS(op)
IsMem(op)   == "MEM" \in MD_OP_FLAGS(op)
IsCtrl(op)  == "CTRL" \in MD_OP_FLAGS(op)
IsDirect(op) == "DIRJMP" \in MD_OP_FLAGS(op)
MD_AGEN_OP  == "add"

\* An instruction: its opcode, output and input registers, and the target of a direct jump.
\* DTMP is no register of a program, and a store writes no register.
Named  == (Regs \ {DTMP}) \cup {NA}
Instrs == {i \in [op : DOMAIN OpTable, out : [1 .. 2 -> Named], in : [1 .. 3 -> Named], target : Nat] :
             IsStore(i.op) => i.out = <<NA, NA>>}
NOP == [op |-> "nop", out |-> <<NA, NA>>, in |-> <<NA, NA, NA>>, target |-> 0]

\* What sim_check_options demands.
PowersOfTwo == {2 ^ k : k \in 0 .. 30}
ASSUME SizesAssumption ==
  /\ RUU_size \in PowersOfTwo \ {1} /\ ruu_ifq_size \in PowersOfTwo
  /\ ruu_decode_width \in PowersOfTwo /\ ruu_issue_width \in PowersOfTwo
  /\ ruu_commit_width \in Nat \ {0} /\ fetch_speed \in Nat \ {0}
  /\ ruu_branch_penalty \in Nat \ {0} /\ max_insts \in Nat \ {0}
  /\ MAX_RS_LINKS \in Nat /\ MAX_STD_UNKNOWNS \in Nat /\ MD_TOTAL_REGS \in Nat \ {0}
  /\ \A c \in Configs : c.LSQ_size \in PowersOfTwo \ {1}

ASSUME ProgramAssumption ==
  /\ Programs \subseteq Seq(Instrs) /\ \A p \in Programs : p # <<>>
  /\ \A p \in Programs : \A pc \in DOMAIN p : Predictions(p, pc) \subseteq Nat
  /\ Configs \subseteq [inorder : BOOLEAN, include_spec : BOOLEAN, perfect : BOOLEAN, bugcompat : BOOLEAN,
                 LSQ_size : Nat]
  /\ Addrs \subseteq Nat
  /\ LoadLats \subseteq Nat \ {0} /\ TlbLats \subseteq Nat \ {0} /\ FetchLats \subseteq Nat \ {0}

VARIABLES
  code, config,         \* the program and the flags, fixed at the start
  rs,                   \* the stations of the RUU and the LSQ
  RUU_head, RUU_tail, RUU_num, LSQ_head, LSQ_tail, LSQ_num,
  create_vector, spec_create_vector, use_spec_cv,
  event_queue, ready_queue,
  node,                 \* the rest of the ready list that ruu_issue walks
  free_links,           \* links on the free list
  busy,                 \* per functional unit
  spec_mode, recover_PC,
  last_op,              \* for in-order issue
  fetch_data, fetch_pred_PC, ruu_fetch_issue_delay,
  missed_PC,            \* the address whose block the last miss of the I-cache fetched
  sim_num_insn, inst_seq,
  stage, n, branch_cnt, \* the function that runs, and its counters
  wb                    \* the station whose result ruu_writeback broadcasts

LSQ_size == config.LSQ_size
Stations == ({"RUU"} \X (0 .. RUU_size - 1)) \cup ({"LSQ"} \X (0 .. LSQ_size - 1))

windowVars == <<RUU_head, RUU_tail, RUU_num, LSQ_head, LSQ_tail, LSQ_num>>
cvVars     == <<create_vector, spec_create_vector, use_spec_cv>>
queueVars  == <<event_queue, ready_queue, node, free_links>>
specVars   == <<spec_mode, recover_PC>>
fetchVars  == <<fetch_data, fetch_pred_PC, ruu_fetch_issue_delay, missed_PC>>
countVars  == <<sim_num_insn, inst_seq>>
vars == <<code, config, rs, windowVars, cvVars, queueVars, busy, specVars, last_op,
          fetchVars, countVars, stage, n, branch_cnt, wb>>
-----------------------------------------------------------------------------
OPERANDS_READY(s)   == \A k \in 1 .. 3 : rs[s].idep_ready[k]
STORE_OP_READY(s)   == rs[s].idep_ready[1]
STORE_ADDR_READY(s) == rs[s].idep_ready[2]
RSLINK_VALID(l)     == l.tag = rs[l.rs].tag
CREATE_VECTOR(r)    == IF r \in use_spec_cv THEN spec_create_vector[r] ELSE create_vector[r]

RuuHead == <<"RUU", RUU_head>>
LsqHead == <<"LSQ", LSQ_head>>

\* Place of a station in its queue, counted from the head.
Pos(s) == IF s[1] = "RUU" THEN (s[2] - RUU_head) % RUU_size ELSE (s[2] - LSQ_head) % LSQ_size
InWindow(s) == Pos(s) < IF s[1] = "RUU" THEN RUU_num ELSE LSQ_num

\* The links in the lists of consumers of a set of stations, and how many they are.
ChainPlaces(S) == UNION {{p} \X DOMAIN rs[p[1]].odep_list[p[2]] : p \in S \X (1 .. 2)}
Links(S)       == Cardinality(ChainPlaces(S))

\* Insert e into the list q before the first element that is not Before it.
InsertSorted(q, e, Before(_)) ==
  LET passed == Cardinality({k \in DOMAIN q : \A i \in 1 .. k : Before(q[i])})
  IN  SubSeq(q, 1, passed) \o <<e>> \o SubSeq(q, passed + 1, Len(q))

\* readyq_enqueue of station s, whose fields are in st: memory accesses, long
\* operations and branches go first.
readyq_enqueue(q, s, st) ==
  LET link == [rs |-> s, tag |-> st.tag, seq |-> st.seq]
  IN  IF s[1] = "LSQ" \/ MD_OP_FLAGS(st.op) \cap {"LONGLAT", "CTRL"} # {}
      THEN <<link>> \o q
      ELSE InsertSorted(q, link, LAMBDA l : l.seq < st.seq)

\* eventq_queue_event, an event that is lat cycles away.
eventq_queue_event(s, lat) ==
  InsertSorted(event_queue, [rs |-> s, tag |-> rs[s].tag, when |-> lat], LAMBDA l : l.when < lat)

IdleStation == [op |-> "nop", PC |-> 0, ea_comp |-> FALSE, recover_inst |-> FALSE,
                spec_mode |-> FALSE, addr |-> 0, tag |-> 0, seq |-> 0,
                queued |-> FALSE, issued |-> FALSE, completed |-> FALSE,
                onames |-> <<NA, NA>>, odep_list |-> NoConsumers,
                idep_ready |-> [k \in 1 .. 3 |-> FALSE]]

\* sim_load_prog and the start of sim_main.
Init ==
  /\ code \in Programs /\ config \in Configs
  /\ rs = [s \in Stations |-> IdleStation]
  /\ RUU_head = 0 /\ RUU_tail = 0 /\ RUU_num = 0
  /\ LSQ_head = 0 /\ LSQ_tail = 0 /\ LSQ_num = 0
  /\ create_vector = [r \in Regs |-> CVLINK_NULL]
  /\ spec_create_vector = [r \in Regs |-> CVLINK_NULL]
  /\ use_spec_cv = {}
  /\ event_queue = <<>> /\ ready_queue = <<>> /\ node = <<>> /\ free_links = MAX_RS_LINKS
  /\ busy = [r \in Resources |-> 0]
  /\ spec_mode = FALSE /\ recover_PC = 0 /\ last_op = RSLINK_NULL
  /\ fetch_data = <<>> /\ fetch_pred_PC = 1 /\ ruu_fetch_issue_delay = 0 /\ missed_PC = 0
  /\ sim_num_insn = 0 /\ inst_seq = 0
  /\ stage = "commit" /\ n = 0 /\ branch_cnt = 0 /\ wb = NULL
-----------------------------------------------------------------------------

\* ruu_commit: the oldest entry of the RUU, with that of the LSQ if it computes an address.
StoreAtHead == rs[RuuHead].ea_comp /\ IsStore(rs[LsqHead].op)
StorePort   == res_get(busy, MD_OP_FUCLASS(rs[LsqHead].op))
CanCommit ==
  /\ RUU_num > 0 /\ n < ruu_commit_width
  /\ rs[RuuHead].completed
  /\ rs[RuuHead].ea_comp => rs[LsqHead].completed
  /\ StoreAtHead => StorePort # NULL_TEMPLATE

Commit ==
  /\ stage = "commit" /\ CanCommit
  /\ LET mem == rs[RuuHead].ea_comp
         gone == {RuuHead} \cup IF mem THEN {LsqHead} ELSE {}
     IN  /\ rs' = [s \in Stations |-> IF s \in gone THEN [rs[s] EXCEPT !.tag = @ + 1] ELSE rs[s]]
         /\ LSQ_head' = IF mem THEN (LSQ_head + 1) % LSQ_size ELSE LSQ_head
         /\ LSQ_num' = IF mem THEN LSQ_num - 1 ELSE LSQ_num
         /\ stage' = IF \/ mem /\ LSQ_num = 0
                        \/ rs[RuuHead].odep_list # NoConsumers
                        \/ StoreAtHead /\ busy[StorePort.master] > 0
                     THEN "panic" ELSE "commit"
  /\ busy' = IF StoreAtHead THEN [busy EXCEPT ![StorePort.master] = StorePort.issuelat] ELSE busy
  /\ RUU_head' = (RUU_head + 1) % RUU_size
  /\ RUU_num' = RUU_num - 1
  /\ n' = n + 1
  /\ UNCHANGED <<code, config, RUU_tail, LSQ_tail, cvVars, queueVars, specVars, last_op,
                 fetchVars, countVars, branch_cnt, wb>>

\* The rest of ruu_commit, and ruu_release_fu.
CommitEnd ==
  /\ stage = "commit" /\ ~ CanCommit
  /\ busy' = [r \in Resources |-> IF busy[r] > 0 THEN busy[r] - 1 ELSE 0]
  /\ stage' = "writeback"
  /\ UNCHANGED <<code, config, rs, windowVars, cvVars, queueVars, specVars, last_op,
                 fetchVars, countVars, n, branch_cnt, wb>>
-----------------------------------------------------------------------------
\* A mistake: a younger creator of the register is forgotten too.
WithoutAnyCreator(cv, s) ==
  [r \in Regs |-> IF \E i \in 1 .. 2 : rs[s].onames[i] = r THEN CVLINK_NULL ELSE cv[r]]

\* The create vector without the entries of s, whose results are in the registers now.
WithoutCreator(cv, s) ==
  [r \in Regs |-> IF \E i \in 1 .. 2 : rs[s].onames[i] = r /\ cv[r] = [rs |-> s, odep |-> i]
                  THEN CVLINK_NULL ELSE cv[r]]

\* The next event of ruu_writeback, if it has occurred.
EventDue == event_queue # <<>> /\ Head(event_queue).when <= 0

\* eventq_next_event: the receiver was squashed.
StaleEvent ==
  /\ stage = "writeback" /\ EventDue /\ ~ RSLINK_VALID(Head(event_queue))
  /\ event_queue' = Tail(event_queue)
  /\ free_links' = free_links + 1
  /\ UNCHANGED <<code, config, rs, windowVars, cvVars, ready_queue, node, busy, specVars,
                 last_op, fetchVars, countVars, stage, n, branch_cnt, wb>>

\* What ruu_writeback does with a completed station before it walks the consumers.
Completes(s) ==
  /\ stage = "writeback" /\ EventDue /\ RSLINK_VALID(Head(event_queue))
  /\ s = Head(event_queue).rs
  /\ event_queue' = Tail(event_queue)
  /\ wb' = s

WritebackPanics(s) ==
  ~ OPERANDS_READY(s) \/ rs[s].queued \/ ~ rs[s].issued \/ rs[s].completed

Writeback(s) ==
  /\ Completes(s) /\ ~ rs[s].recover_inst
  /\ rs' = [rs EXCEPT ![s].completed = TRUE]
  /\ create_vector' = IF rs[s].spec_mode THEN create_vector ELSE WithoutCreator(create_vector, s)
  /\ spec_create_vector' = IF rs[s].spec_mode THEN WithoutCreator(spec_create_vector, s)
                           ELSE spec_create_vector
  /\ free_links' = free_links + 1
  /\ stage' = IF WritebackPanics(s) THEN "panic" ELSE "broadcast"
  /\ UNCHANGED <<code, config, windowVars, use_spec_cv, ready_queue, node, busy, specVars,
                 last_op, fetchVars, countVars, n, branch_cnt>>

\* What ruu_recover squashes: the RUU behind the branch, and as many entries of
\* the LSQ, from its tail, as there are address computations among them.
SquashedRuu(b) == {s \in Stations : s[1] = "RUU" /\ InWindow(s) /\ Pos(s) > Pos(b)}
\* A mistake: address computations that are done are not counted.
UnfinishedMem(b) == Cardinality({s \in SquashedRuu(b) : rs[s].ea_comp /\ ~ rs[s].completed})
SquashedMem(b)   == Cardinality({s \in SquashedRuu(b) : rs[s].ea_comp})
SquashedLsq(b) == {s \in Stations : /\ s[1] = "LSQ" /\ InWindow(s)
                                    /\ Pos(s) >= LSQ_num - SquashedMem(b)}
Squashed(b)    == SquashedRuu(b) \cup SquashedLsq(b)

\* A mistake: the lists of the LSQ are dropped and not freed.
FreedRuu(b) == Links(SquashedRuu(b))
Freed(b)    == Links(Squashed(b))

\* A mispredicted branch completes: ruu_recover and tracer_recover.
Recover(b) ==
  /\ Completes(b) /\ rs[b].recover_inst
  /\ rs' = [s \in Stations |->
              IF s \in Squashed(b) THEN [rs[s] EXCEPT !.tag = @ + 1, !.odep_list = NoConsumers]
              ELSE IF s = b THEN [rs[s] EXCEPT !.completed = TRUE] ELSE rs[s]]
  /\ RUU_tail' = (b[2] + 1) % RUU_size
  /\ RUU_num' = Pos(b) + 1
  /\ LSQ_tail' = (LSQ_tail - SquashedMem(b)) % LSQ_size
  /\ LSQ_num' = LSQ_num - SquashedMem(b)
  /\ create_vector' = IF rs[b].spec_mode THEN create_vector ELSE WithoutCreator(create_vector, b)
  /\ spec_create_vector' = IF rs[b].spec_mode THEN WithoutCreator(spec_create_vector, b)
                           ELSE spec_create_vector
  /\ use_spec_cv' = {}
  /\ free_links' = free_links + 1 + Freed(b)
  /\ spec_mode' = FALSE
  /\ fetch_data' = <<>> /\ fetch_pred_PC' = recover_PC
  /\ ruu_fetch_issue_delay' = ruu_branch_penalty /\ missed_PC' = 0
  /\ stage' = IF \/ WritebackPanics(b) \/ b[1] = "LSQ" \/ ~ InWindow(b)
                 \/ SquashedMem(b) > LSQ_num \/ ~ spec_mode
              THEN "panic" ELSE "broadcast"
  /\ UNCHANGED <<code, config, RUU_head, LSQ_head, ready_queue, node, busy, recover_PC, last_op,
                 countVars, n, branch_cnt>>

\* A mistake: stores complete at dispatch, as the comment has it, and need not be queued.
NotFromLsq(s) == s[1] # "LSQ"

\* With all operands, everything but a load is queued at once; loads wait for lsq_refresh.
QueuedWhenReady(s) == s[1] = "LSQ" => IsStore(rs[s].op)

\* The first link of the output chains of wb: its consumer, if not squashed, has
\* one more operand, and is queued when that was the last.
Wake ==
  /\ stage = "broadcast" /\ rs[wb].odep_list # NoConsumers
  /\ LET i == IF rs[wb].odep_list[1] # <<>> THEN 1 ELSE 2
         l == Head(rs[wb].odep_list[i])
         ready == [rs[l.rs].idep_ready EXCEPT ![l.opnum] = TRUE]
         enqueue == RSLINK_VALID(l) /\ (\A k \in 1 .. 3 : ready[k]) /\ QueuedWhenReady(l.rs)
     IN  /\ rs' = [s \in Stations |->
                     IF s = wb THEN [rs[s] EXCEPT !.odep_list[i] = Tail(@)]
                     ELSE IF s = l.rs /\ RSLINK_VALID(l)
                     THEN [rs[s] EXCEPT !.idep_ready = ready, !.queued = IF enqueue THEN TRUE ELSE @] ELSE rs[s]]
         /\ ready_queue' = IF enqueue THEN readyq_enqueue(ready_queue, l.rs, rs[l.rs]) ELSE ready_queue
         /\ free_links' = IF enqueue THEN free_links ELSE free_links + 1
         /\ stage' = IF \/ RSLINK_VALID(l) /\ rs[l.rs].idep_ready[l.opnum]
                        \/ enqueue /\ (rs[l.rs].queued \/ free_links = 0)
                     THEN "panic" ELSE "broadcast"
  /\ UNCHANGED <<code, config, windowVars, cvVars, event_queue, node, busy, specVars, last_op,
                 fetchVars, countVars, n, branch_cnt, wb>>

WakeEnd ==
  /\ stage = "broadcast" /\ rs[wb].odep_list = NoConsumers
  /\ stage' = "writeback" /\ wb' = NULL
  /\ UNCHANGED <<code, config, rs, windowVars, cvVars, queueVars, busy, specVars, last_op,
                 fetchVars, countVars, n, branch_cnt>>

WritebackEnd ==
  /\ stage = "writeback" /\ ~ EventDue
  /\ stage' = (IF config.bugcompat THEN "dispatch" ELSE "refresh") /\ n' = 0
  /\ UNCHANGED <<code, config, rs, windowVars, cvVars, queueVars, busy, specVars, last_op,
                 fetchVars, countVars, branch_cnt, wb>>
-----------------------------------------------------------------------------
\* lsq_refresh walks the LSQ, position by position, up to the first store
\* whose address is not computed yet.
LsqAt(p) == <<"LSQ", (LSQ_head + p) % LSQ_size>>
StoreAt(p) == p < LSQ_num /\ IsStore(rs[LsqAt(p)].op)
\* A mistake: a store without its data is passed, whether it has its address or not.
ScansAll(p) == TRUE
Scanned(p) == \A q \in 0 .. p : StoreAt(q) => STORE_ADDR_READY(LsqAt(q))
StdUnknown(q) == StoreAt(q) /\ ~ OPERANDS_READY(LsqAt(q))

\* What std_unknowns holds for the store at q when the walk is at p: its
\* address, or 0 once a later store to it that has its data hides it.
UnknownAddr(q, p) ==
  IF \E h \in q + 1 .. p - 1 : /\ StoreAt(h) /\ OPERANDS_READY(LsqAt(h))
                               /\ rs[LsqAt(h)].addr = rs[LsqAt(q)].addr
  THEN 0 ELSE rs[LsqAt(q)].addr

LoadReady(p) ==
  /\ LET l == rs[LsqAt(p)]
     IN  IsLoad(l.op) /\ ~ l.queued /\ ~ l.issued /\ ~ l.completed
  /\ OPERANDS_READY(LsqAt(p))
  /\ Scanned(p)
  /\ \A q \in 0 .. p - 1 : StdUnknown(q) => UnknownAddr(q, p) # rs[LsqAt(p)].addr

\* lsq_refresh, which puts each load at the head of the ready list, and the start of ruu_issue.
Refresh ==
  /\ stage = "refresh"
  /\ LET loads == {p \in 0 .. LSQ_num - 1 : LoadReady(p)}
         link(p) == [rs |-> LsqAt(p), tag |-> rs[LsqAt(p)].tag, seq |-> rs[LsqAt(p)].seq]
     IN  /\ rs' = [s \in Stations |-> IF \E p \in loads : s = LsqAt(p)
                                      THEN [rs[s] EXCEPT !.queued = TRUE] ELSE rs[s]]
         /\ \E youngestFirst \in [1 .. Cardinality(loads) -> loads] :
              /\ \A i, j \in DOMAIN youngestFirst : i < j => youngestFirst[i] > youngestFirst[j]
              /\ node' = [i \in DOMAIN youngestFirst |-> link(youngestFirst[i])] \o ready_queue
         /\ ready_queue' = <<>>
         /\ free_links' = free_links - Cardinality(loads)
         /\ stage' = IF \/ free_links < Cardinality(loads)
                        \/ Cardinality({q \in 0 .. LSQ_num - 1 : Scanned(q) /\ StdUnknown(q)})
                             > MAX_STD_UNKNOWNS
                     THEN "panic" ELSE "issue"
  /\ n' = 0
  /\ UNCHANGED <<code, config, windowVars, cvVars, event_queue, busy, specVars, last_op,
                 fetchVars, countVars, branch_cnt, wb>>
-----------------------------------------------------------------------------
\* The next instruction of the ready list that ruu_issue looks at.
Candidate == Head(node).rs
Issuing == stage = "issue" /\ node # <<>> /\ n < ruu_issue_width /\ RSLINK_VALID(Head(node))
IssuePanics(s) == ~ OPERANDS_READY(s) \/ ~ rs[s].queued \/ rs[s].issued \/ rs[s].completed
issueRest == <<code, config, windowVars, cvVars, specVars, last_op, fetchVars, countVars,
               branch_cnt, wb>>

\* A store is done when it has its operands: its value is in the LSQ.
IssueStore ==
  /\ Issuing /\ IsStore(rs[Candidate].op)
  /\ rs' = [rs EXCEPT ![Candidate].queued = FALSE, ![Candidate].issued = TRUE,
                      ![Candidate].completed = TRUE]
  /\ node' = Tail(node) /\ free_links' = free_links + 1 /\ n' = n + 1
  /\ stage' = IF IssuePanics(Candidate) \/ rs[Candidate].onames # <<NA, NA>> THEN "panic" ELSE "issue"
  /\ UNCHANGED <<issueRest, event_queue, ready_queue, busy>>

\* Anything else starts, on unit fu if it needs one, and will complete in lat cycles.
Start(lat, fu) ==
  /\ rs' = [rs EXCEPT ![Candidate].queued = FALSE, ![Candidate].issued = TRUE]
  /\ event_queue' = eventq_queue_event(Candidate, lat)
  /\ node' = Tail(node) /\ n' = n + 1
  /\ busy' = IF fu = NULL_TEMPLATE THEN busy ELSE [busy EXCEPT ![fu.master] = fu.issuelat]
  /\ stage' = IF \/ IssuePanics(Candidate) \/ free_links = 0 \/ lat = 0
                 \/ fu # NULL_TEMPLATE /\ busy[fu.master] > 0 THEN "panic" ELSE "issue"
  /\ UNCHANGED <<issueRest, ready_queue, free_links>>

\* An operation that needs no functional unit.
IssueFree ==
  /\ Issuing /\ ~ IsStore(rs[Candidate].op) /\ MD_OP_FUCLASS(rs[Candidate].op) = "NA"
  /\ Start(1, NULL_TEMPLATE)

\* A load finds the value of an older store in the LSQ.
Forwarded(s) == \E t \in Stations : /\ t[1] = "LSQ" /\ Pos(t) < Pos(s)
                                    /\ IsStore(rs[t].op) /\ rs[t].addr = rs[s].addr

FuFor(s) == res_get(busy, MD_OP_FUCLASS(rs[s].op))

IssueLoad ==
  /\ Issuing /\ IsLoad(rs[Candidate].op) /\ FuFor(Candidate) # NULL_TEMPLATE
  /\ \E cache \in (IF Forwarded(Candidate) THEN {1} ELSE LoadLats), tlb \in TlbLats :
       Start(IF cache > tlb THEN cache ELSE tlb, FuFor(Candidate))

IssueOp ==
  /\ Issuing /\ ~ IsMem(rs[Candidate].op) /\ MD_OP_FUCLASS(rs[Candidate].op) # "NA"
  /\ FuFor(Candidate) # NULL_TEMPLATE
  /\ Start(FuFor(Candidate).oplat, FuFor(Candidate))

\* No unit is free, or the issue width is used up: back to the ready list.
Requeue ==
  /\ stage = "issue" /\ node # <<>> /\ RSLINK_VALID(Head(node))
  /\ \/ n >= ruu_issue_width
     \/ /\ ~ IsStore(rs[Candidate].op) /\ MD_OP_FUCLASS(rs[Candidate].op) # "NA"
        /\ FuFor(Candidate) = NULL_TEMPLATE
  /\ ready_queue' = readyq_enqueue(ready_queue, Candidate, rs[Candidate])
  /\ node' = Tail(node)
  /\ stage' = IF (n < ruu_issue_width /\ IssuePanics(Candidate)) \/ free_links = 0
              THEN "panic" ELSE "issue"
  /\ UNCHANGED <<issueRest, rs, event_queue, free_links, busy, n>>

StaleNode ==
  /\ stage = "issue" /\ node # <<>> /\ ~ RSLINK_VALID(Head(node))
  /\ node' = Tail(node) /\ free_links' = free_links + 1
  /\ UNCHANGED <<issueRest, rs, event_queue, ready_queue, busy, n, stage>>

IssueEnd ==
  /\ stage = "issue" /\ node = <<>>
  /\ stage' = (IF config.bugcompat THEN "fetch" ELSE "dispatch") /\ n' = 0
  /\ UNCHANGED <<issueRest, rs, queueVars, busy>>
-----------------------------------------------------------------------------
\* The instruction at an address; anything outside the text is fetched as a nop.
InText(pc) == pc \in DOMAIN code
InstOf(text, pc) == IF pc \in DOMAIN text THEN text[pc] ELSE NOP
InstAt(pc) == InstOf(code, pc)

\* regs_NPC after the instruction at pc.  A register jump stays in the text on the
\* correct path.
NextPCs(text, pc) ==
  LET i == InstOf(text, pc)
  IN  IF ~ IsCtrl(i.op) THEN {pc + 1}
      ELSE IF ~ IsDirect(i.op) THEN DOMAIN text
      ELSE IF "COND" \in MD_OP_FLAGS(i.op) THEN {pc + 1, i.target} ELSE {i.target}

\* A mistake: a trap does not wait for the machine to drain.
TrapOvertakes ==
  /\ n < ruu_decode_width * fetch_speed
  /\ RUU_num < RUU_size /\ LSQ_num < LSQ_size /\ fetch_data # <<>>
  /\ config.include_spec \/ ~ spec_mode
  /\ ~ (config.inorder /\ last_op # RSLINK_NULL /\ RSLINK_VALID(last_op) /\ ~ OPERANDS_READY(last_op.rs))

CanDispatch ==
  /\ n < ruu_decode_width * fetch_speed
  /\ RUU_num < RUU_size /\ LSQ_num < LSQ_size /\ fetch_data # <<>>
  /\ config.include_spec \/ ~ spec_mode
  /\ ~ (config.inorder /\ last_op # RSLINK_NULL /\ RSLINK_VALID(last_op) /\ ~ OPERANDS_READY(last_op.rs))
  /\ InstAt(Head(fetch_data).regs_PC).op = "syscall" => RUU_num = 0

\* Station t of ruu_link_idep: operand k of x waits for the creator c of its register, if
\* there is one.
LinkedStation(st, t, x, k, c) ==
  LET known == IF t = x THEN [st EXCEPT !.idep_ready[k] = (c = CVLINK_NULL)] ELSE st
      link  == [rs |-> x, tag |-> rs[x].tag, opnum |-> k]
  IN  IF t = c.rs THEN [known EXCEPT !.odep_list[c.odep] = <<link>> \o @] ELSE known

ruu_link_idep(stations, x, k, c) == [t \in Stations |-> LinkedStation(stations[t], t, x, k, c)]

CreatorOf(r) == IF r = NA THEN CVLINK_NULL ELSE CREATE_VECTOR(r)

\* ruu_install_odep: x creates the registers names.
ruu_install_odep(cv, x, names) ==
  [r \in Regs |-> IF r = names[2] THEN [rs |-> x, odep |-> 2]
                  ELSE IF r = names[1] THEN [rs |-> x, odep |-> 1] ELSE cv[r]]

\* Station s, filled in with what ruu_dispatch knows of the instruction at pc.
Filled(s, op, pc, mem, recover, addr, seq, names) ==
  [op |-> op, PC |-> pc, ea_comp |-> mem, recover_inst |-> recover, spec_mode |-> spec_mode,
   addr |-> addr, tag |-> rs[s].tag, seq |-> seq,
   queued |-> FALSE, issued |-> FALSE, completed |-> FALSE, onames |-> names,
   odep_list |-> [i \in 1 .. 2 |-> IF names[i] = NA THEN rs[s].odep_list[i] ELSE <<>>],
   idep_ready |-> rs[s].idep_ready]

\* Set the create vector of the mode, SET_CREATE_VECTOR.
Install(cvOf(_), names) ==
  IF spec_mode
  THEN /\ spec_create_vector' = cvOf(spec_create_vector)
       /\ use_spec_cv' = use_spec_cv \cup names
       /\ UNCHANGED create_vector
  ELSE /\ create_vector' = cvOf(create_vector)
       /\ UNCHANGED <<spec_create_vector, use_spec_cv>>

\* The predicted address is wrong, but decode can tell: fetch is redirected and
\* no wrong path is entered.
Redirect(npc) ==
  LET f == Head(fetch_data)
  IN  \/ config.perfect /\ f.pred_PC # npc
      \/ /\ IsDirect(InstAt(f.regs_PC).op) /\ InstAt(f.regs_PC).target # f.pred_PC
         /\ f.pred_PC # f.regs_PC + 1

\* A mistake: branches of the wrong path are mispredicted too.
MispredictedAgain(npc) == Head(fetch_data).pred_PC # npc /\ ~ Redirect(npc)

\* The trace generator leaves the correct path after this instruction.
Mispredicted(npc) == ~ spec_mode /\ Head(fetch_data).pred_PC # npc /\ ~ Redirect(npc)

\* The part of ruu_dispatch that every instruction goes through; npc is its regs_NPC.
Execute(npc) ==
  /\ fetch_data' = IF Redirect(npc) THEN <<>> ELSE Tail(fetch_data)
  /\ fetch_pred_PC' = IF Redirect(npc) THEN npc ELSE fetch_pred_PC
  /\ ruu_fetch_issue_delay' = IF Redirect(npc) /\ ~ config.perfect THEN ruu_branch_penalty
                              ELSE ruu_fetch_issue_delay
  /\ missed_PC' = IF Redirect(npc) /\ ~ config.perfect THEN 0 ELSE missed_PC
  /\ sim_num_insn' = IF spec_mode THEN sim_num_insn ELSE sim_num_insn + 1
  /\ spec_mode' = (spec_mode \/ Mispredicted(npc))
  /\ recover_PC' = IF Mispredicted(npc) THEN npc ELSE recover_PC
  /\ UNCHANGED <<code, config, RUU_head, LSQ_head, event_queue, node, busy, branch_cnt, wb>>

DispatchNop ==
  /\ stage = "dispatch" /\ CanDispatch
  /\ InstAt(Head(fetch_data).regs_PC).op = "nop"
  /\ \E npc \in NextPCs(code, Head(fetch_data).regs_PC) :
       /\ Execute(npc)
       /\ stage' = IF Mispredicted(npc) THEN "panic" ELSE "dispatch"
  /\ UNCHANGED <<rs, RUU_tail, RUU_num, LSQ_tail, LSQ_num, cvVars, ready_queue, free_links,
                 last_op, inst_seq, n>>

\* An instruction that does not access memory.
DispatchOp ==
  /\ stage = "dispatch" /\ CanDispatch
  /\ \E pc \in {Head(fetch_data).regs_PC} : \E npc \in NextPCs(code, pc) :
     LET i == InstAt(pc)
         s == <<"RUU", RUU_tail>>
         filled == [rs EXCEPT ![s] = Filled(s, i.op, pc, FALSE, Mispredicted(npc), 0, inst_seq + 1, i.out)]
         linked == ruu_link_idep(ruu_link_idep(ruu_link_idep(filled,
                     s, 1, CreatorOf(i.in[1])), s, 2, CreatorOf(i.in[2])), s, 3, CreatorOf(i.in[3]))
         waits == {k \in 1 .. 3 : ~ linked[s].idep_ready[k]}
         ready == waits = {}
     IN  /\ i.op # "nop" /\ ~ IsMem(i.op)
         /\ Execute(npc)
         /\ rs' = [linked EXCEPT ![s].queued = ready]
         /\ Install(LAMBDA cv : ruu_install_odep(cv, s, i.out), {i.out[1], i.out[2]} \ {NA})
         /\ ready_queue' = IF ready THEN readyq_enqueue(ready_queue, s, filled[s]) ELSE ready_queue
         /\ free_links' = free_links - IF ready THEN 1 ELSE Cardinality(waits)
         /\ last_op' = IF ready THEN RSLINK_NULL ELSE [rs |-> s, tag |-> rs[s].tag]
         /\ inst_seq' = inst_seq + 1
         /\ stage' = IF (i.op = "syscall" /\ spec_mode) \/ free_links' < 0 THEN "panic" ELSE "dispatch"
  /\ RUU_tail' = (RUU_tail + 1) % RUU_size /\ RUU_num' = RUU_num + 1
  /\ n' = n + 1
  /\ UNCHANGED <<LSQ_tail, LSQ_num>>

\* A load or store: an address computation in the RUU, which hands its result
\* over in DTMP, and an access in the LSQ.
DispatchMem ==
  /\ stage = "dispatch" /\ CanDispatch
  /\ \E pc \in {Head(fetch_data).regs_PC} : \E npc \in NextPCs(code, pc), addr \in Addrs :
     LET i == InstAt(pc)
         s == <<"RUU", RUU_tail>>
         l == <<"LSQ", LSQ_tail>>
         filled == [rs EXCEPT
           ![s] = Filled(s, MD_AGEN_OP, pc, TRUE, Mispredicted(npc), 0, inst_seq + 1, <<DTMP, NA>>),
           ![l] = Filled(l, i.op, pc, FALSE, FALSE, addr, inst_seq + 2, i.out)]
         agen == ruu_link_idep(ruu_link_idep(ruu_link_idep(filled,
                   s, 1, CVLINK_NULL), s, 2, CreatorOf(i.in[2])), s, 3, CreatorOf(i.in[3]))
         linked == ruu_link_idep(ruu_link_idep(ruu_link_idep(agen,
                   l, 1, CreatorOf(i.in[1])), l, 2, [rs |-> s, odep |-> 1]), l, 3, CVLINK_NULL)
         waits(x) == Cardinality({k \in 1 .. 3 : ~ linked[x].idep_ready[k]})
         ready == waits(s) = 0
         queue == IF ready THEN readyq_enqueue(ready_queue, s, filled[s]) ELSE ready_queue
         storeReady == IsStore(i.op) /\ waits(l) = 0
     IN  /\ IsMem(i.op)
         /\ Execute(npc)
         /\ rs' = [linked EXCEPT ![s].queued = ready, ![l].queued = storeReady]
         /\ Install(LAMBDA cv : ruu_install_odep(ruu_install_odep(cv, s, <<DTMP, NA>>), l, i.out),
                    {DTMP, i.out[1], i.out[2]} \ {NA})
         /\ ready_queue' = IF storeReady THEN readyq_enqueue(queue, l, filled[l]) ELSE queue
         /\ free_links' = free_links - waits(s) - waits(l) - (IF ready THEN 1 ELSE 0)
                                     - (IF storeReady THEN 1 ELSE 0)
         /\ last_op' = [rs |-> l, tag |-> rs[l].tag]
         /\ inst_seq' = inst_seq + 2
         /\ stage' = IF free_links' < 0 THEN "panic" ELSE "dispatch"
  /\ RUU_tail' = (RUU_tail + 1) % RUU_size /\ RUU_num' = RUU_num + 1
  /\ LSQ_tail' = (LSQ_tail + 1) % LSQ_size /\ LSQ_num' = LSQ_num + 1
  /\ n' = n + 1

DispatchEnd ==
  /\ stage = "dispatch" /\ ~ CanDispatch
  /\ stage' = (IF config.bugcompat THEN "refresh" ELSE "fetch") /\ n' = 0
  /\ UNCHANGED <<code, config, rs, windowVars, cvVars, queueVars, busy, specVars, last_op,
                 fetchVars, countVars, branch_cnt, wb>>
-----------------------------------------------------------------------------
fetchRest == <<code, config, rs, windowVars, cvVars, queueVars, busy, specVars, last_op, countVars, wb>>

\* A mistake: the queue is not looked at.
FetchesIntoFullQueue ==
  ruu_fetch_issue_delay = 0 /\ n < ruu_decode_width * fetch_speed /\ branch_cnt < fetch_speed

CanFetch ==
  /\ ruu_fetch_issue_delay = 0 /\ n < ruu_decode_width * fetch_speed
  /\ Len(fetch_data) < ruu_ifq_size /\ branch_cnt < fetch_speed

\* ruu_fetch: one instruction, and where its predecessor in the queue says it is.
Fetch ==
  /\ stage = "fetch" /\ CanFetch
  /\ LET op == InstAt(fetch_pred_PC).op
     IN  \E target \in (IF ~ config.perfect /\ IsCtrl(op) THEN Predictions(code, fetch_pred_PC) ELSE {0}) :
           LET next == IF target = 0 THEN fetch_pred_PC + 1 ELSE target
           IN  /\ fetch_data' = Append(fetch_data, [regs_PC |-> fetch_pred_PC, pred_PC |-> next])
               /\ fetch_pred_PC' = next
               /\ branch_cnt' = IF target = 0 THEN branch_cnt ELSE branch_cnt + 1
  /\ missed_PC' = 0
  /\ n' = n + 1
  /\ UNCHANGED <<fetchRest, ruu_fetch_issue_delay, stage>>

\* The instruction cache or TLB misses, and the same address is fetched again after
\* lat cycles: its block is there then, unless fetch went elsewhere meanwhile or
\* a recovery or a redirection (missed_PC' = 0) ended the wait before it came.
FetchMiss ==
  /\ stage = "fetch" /\ CanFetch /\ InText(fetch_pred_PC) /\ missed_PC # fetch_pred_PC
  /\ \E lat \in FetchLats : ruu_fetch_issue_delay' = lat - 1
  /\ missed_PC' = fetch_pred_PC
  /\ stage' = "cycle"
  /\ UNCHANGED <<fetchRest, fetch_data, fetch_pred_PC, n, branch_cnt>>

FetchEnd ==
  /\ stage = "fetch" /\ ~ CanFetch
  /\ ruu_fetch_issue_delay' = IF ruu_fetch_issue_delay > 0 THEN ruu_fetch_issue_delay - 1 ELSE 0
  /\ stage' = "cycle"
  /\ UNCHANGED <<fetchRest, fetch_data, fetch_pred_PC, missed_PC, n, branch_cnt>>

\* The next cycle of sim_main, or its end, and the checks at its start.
NextCycle ==
  /\ stage = "cycle"
  /\ event_queue' = [i \in DOMAIN event_queue |-> [event_queue[i] EXCEPT !.when = @ - 1]]
  /\ n' = 0 /\ branch_cnt' = 0
  /\ stage' = IF sim_num_insn >= max_insts THEN "returned"
              ELSE IF \/ RUU_num < LSQ_num
                      \/ (RUU_head + RUU_num) % RUU_size # RUU_tail
                      \/ (LSQ_head + LSQ_num) % LSQ_size # LSQ_tail THEN "panic" ELSE "commit"
  /\ UNCHANGED <<code, config, rs, windowVars, cvVars, ready_queue, node, free_links, busy, specVars,
                 last_op, fetchVars, countVars, wb>>

\* sim_main has returned.
Stopped == stage = "returned" /\ UNCHANGED vars

Cycle ==
  \/ Commit \/ CommitEnd
  \/ StaleEvent \/ WakeEnd \/ Wake \/ WritebackEnd
  \/ \E s \in Stations : Writeback(s) \/ Recover(s)
  \/ Refresh
  \/ IssueStore \/ IssueFree \/ IssueLoad \/ IssueOp \/ Requeue \/ StaleNode \/ IssueEnd
  \/ DispatchNop \/ DispatchOp \/ DispatchMem \/ DispatchEnd
  \/ Fetch \/ FetchMiss \/ FetchEnd
  \/ NextCycle

Next == Cycle \/ Stopped

Spec == Init /\ [][Next]_vars

\* The loop of sim_main waits for nothing.
FairSpec == Spec /\ WF_vars(Cycle)
-----------------------------------------------------------------------------
Links_ == [rs : Stations, tag : Nat, opnum : 1 .. 3]
Station == [op : DOMAIN OpTable, PC : Nat, ea_comp : BOOLEAN, recover_inst : BOOLEAN,
            spec_mode : BOOLEAN, addr : Nat, tag : Nat, seq : Nat,
            queued : BOOLEAN, issued : BOOLEAN, completed : BOOLEAN,
            onames : [1 .. 2 -> Regs \cup {NA}], odep_list : [1 .. 2 -> Seq(Links_)],
            idep_ready : [1 .. 3 -> BOOLEAN]]
CVLinks == [rs : Stations \cup {NULL}, odep : 0 .. 2]
ReadyLinks == [rs : Stations, tag : Nat, seq : Nat]
Stages == {"commit", "writeback", "broadcast", "refresh", "issue", "dispatch", "fetch", "cycle",
           "returned", "panic"}

\* The variables have their types; in particular the queues stay within their sizes.
TypeOK ==
  /\ code \in Programs /\ config \in Configs
  /\ rs \in [Stations -> Station]
  /\ RUU_head \in 0 .. RUU_size - 1 /\ RUU_tail \in 0 .. RUU_size - 1 /\ RUU_num \in 0 .. RUU_size
  /\ LSQ_head \in 0 .. LSQ_size - 1 /\ LSQ_tail \in 0 .. LSQ_size - 1 /\ LSQ_num \in 0 .. LSQ_size
  /\ create_vector \in [Regs -> CVLinks] /\ spec_create_vector \in [Regs -> CVLinks]
  /\ use_spec_cv \subseteq Regs
  /\ event_queue \in Seq([rs : Stations, tag : Nat, when : Int])
  /\ ready_queue \in Seq(ReadyLinks) /\ node \in Seq(ReadyLinks)
  /\ free_links \in Int /\ busy \in [Resources -> Nat]
  /\ spec_mode \in BOOLEAN /\ recover_PC \in Nat
  /\ last_op \in [rs : Stations \cup {NULL}, tag : Nat]
  /\ fetch_data \in Seq([regs_PC : Nat, pred_PC : Nat]) /\ Len(fetch_data) <= ruu_ifq_size
  /\ fetch_pred_PC \in Nat /\ ruu_fetch_issue_delay \in Nat /\ missed_PC \in Nat
  /\ sim_num_insn \in Nat /\ inst_seq \in Nat
  /\ stage \in Stages /\ n \in Nat /\ branch_cnt \in Nat /\ wb \in Stations \cup {NULL}

\* None of the panics of the pipeline is ever reached: no result comes back to a
\* squashed or unfinished instruction, no unit takes two operations, the
\* RUU and the LSQ stay in step, and recovery finds its branch.
NoPanic == stage # "panic"

RuuAt(p) == <<"RUU", (RUU_head + p) % RUU_size>>
Window   == 0 .. RUU_num - 1
\* The access of the load or store whose address computation is at p.
AccessOf(p) == LsqAt(Cardinality({q \in 0 .. p - 1 : rs[RuuAt(q)].ea_comp}))
OpsAt(p) == {RuuAt(p)} \cup IF rs[RuuAt(p)].ea_comp THEN {AccessOf(p)} ELSE {}

\* The register operand k of x names; DTMP for the address of an access.
OperandName(x, k) ==
  LET in == InstAt(rs[x].PC).in
  IN  IF x[1] = "LSQ" THEN <<in[1], DTMP, NA>>[k]
      ELSE IF rs[x].ea_comp /\ k = 1 THEN NA ELSE in[k]

\* The outputs, as a station and an index, that x at p may wait for: those of the youngest
\* older instruction that writes the register, or of its own address computation.
Producers(p, x, k) ==
  LET r == OperandName(x, k)
      Outputs(q) == {o \in OpsAt(q) \X (1 .. 2) : rs[o[1]].onames[o[2]] = r}
      older == {q \in 0 .. p - 1 : Outputs(q) # {}}
  IN  IF r = NA THEN {}
      ELSE IF r = DTMP THEN {<<RuuAt(p), 1>>}
      ELSE IF older = {} THEN {} ELSE Outputs(Max(older))

LinksTo(x, k, s, i) ==
  {j \in DOMAIN rs[s].odep_list[i] :
     rs[s].odep_list[i][j] = [rs |-> x, tag |-> rs[x].tag, opnum |-> k]}

\* Register dependences: an operand is missing exactly as long as the youngest older writer
\* of its register, on the same path, has not delivered it; and this writer will, once.
\* The create vectors, their copy for the wrong path, and the output chains make it so.
WaitsForYoungest ==
  \A p \in Window : \A x \in OpsAt(p), k \in 1 .. 3 :
    IF rs[x].idep_ready[k]
    THEN \A o \in Producers(p, x, k) : rs[o[1]].completed
    ELSE \E o \in Producers(p, x, k) :
           /\ rs[o[1]].completed => o[1] = wb
           /\ Cardinality(LinksTo(x, k, o[1], o[2])) = 1

\* Memory dependences: when a load is on its way, all older stores have their
\* addresses, and the youngest one to its address has its data.
LoadsSeeStores ==
  \A p \in 0 .. LSQ_num - 1 :
    LET l == rs[LsqAt(p)]
        same == {q \in 0 .. p - 1 : StoreAt(q) /\ rs[LsqAt(q)].addr = l.addr}
    IN  IsLoad(l.op) /\ (l.queued \/ l.issued) =>
          /\ \A q \in 0 .. p - 1 : StoreAt(q) => STORE_ADDR_READY(LsqAt(q))
          /\ same # {} => OPERANDS_READY(LsqAt(Max(same)))

\* No instruction is forgotten: one that has its operands is in the ready list, or in
\* the event queue, or completed, or a load that lsq_refresh will look at; and it is in
\* no queue twice.
NoneForgotten ==
  \A s \in Stations : InWindow(s) =>
    LET Valid(q) == Cardinality({i \in DOMAIN q : q[i].rs = s /\ q[i].tag = rs[s].tag})
        in_ready == Valid(ready_queue) + Valid(node)
    IN  /\ in_ready = IF rs[s].queued THEN 1 ELSE 0
        /\ Valid(event_queue) = IF rs[s].issued /\ ~ rs[s].completed THEN 1 ELSE 0
        /\ rs[s].queued => ~ rs[s].issued
        /\ rs[s].queued \/ rs[s].issued => OPERANDS_READY(s)
        /\ OPERANDS_READY(s) /\ ~ rs[s].queued /\ ~ rs[s].issued => s[1] = "LSQ" /\ IsLoad(rs[s].op)

\* A wrong path is the tail of the window: there is one exactly while a mispredicted
\* branch has not completed, and everything younger belongs to it.
WrongPathIsTail ==
  LET branches == {p \in Window : rs[RuuAt(p)].recover_inst /\ ~ rs[RuuAt(p)].completed}
  IN  /\ spec_mode <=> branches # {}
      /\ \A b \in branches, p \in Window : rs[RuuAt(p)].spec_mode <=> p > b
      /\ ~ spec_mode => use_spec_cv = {} /\ \A p \in Window : ~ rs[RuuAt(p)].spec_mode

\* The LSQ holds the accesses of the address computations in the RUU, in their order,
\* also after wrong paths were squashed from both.
LsqFollowsRuu ==
  LET mem == {p \in Window : rs[RuuAt(p)].ea_comp}
  IN  /\ Cardinality(mem) = LSQ_num
      /\ \A p \in mem : /\ rs[AccessOf(p)].PC = rs[RuuAt(p)].PC
                        /\ rs[AccessOf(p)].spec_mode = rs[RuuAt(p)].spec_mode
                        /\ IsMem(rs[AccessOf(p)].op)

\* No link leaks: every one is on the free list, in a queue, or on an output chain.
NoLinkLost ==
  free_links + Len(event_queue) + Len(ready_queue) + Len(node) + Links(Stations) = MAX_RS_LINKS

\* The simulation of a program that goes on reaches max_insts.
Terminates == <>(stage = "returned")
=============================================================================
