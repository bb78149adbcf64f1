--------------------------- MODULE TomasuloProofs ---------------------------
(***************************************************************************)
(* Proofs about the pipeline, for every size, latency and trace; all but   *)
(* the types for traces that do not end in a trap.                         *)
(*                                                                         *)
(* Four parts, each with one lemma per action: the types; no instruction   *)
(* executes before the results it reads are out (RawInv); the map table    *)
(* and the tags name exactly the producers in flight, and the units        *)
(* exactly the stations that have started (TagInv); the pipeline           *)
(* implements the dataflow machine.  TypeInv is inductive, TypeInv and     *)
(* RawInv together are, and TagInv is given those two.                     *)
(***************************************************************************)
EXTENDS TomasuloInvariant, TomasuloRefinement, FiniteSetTheorems, WellFoundedInduction, TLAPS

\* A set of natural numbers that is not empty has a least element: of the
\* intervals from 0 to its elements one is minimal for strict inclusion.
LEMMA LeastExists ==
  ASSUME NEW S \in SUBSET Nat, S # {}
  PROVE  \E m \in S : \A n \in S : m <= n
<1> DEFINE T == {0 .. n : n \in S}
<1>1. T \subseteq FiniteSubsetsOf(Nat) /\ T # {}
  <2>1. ASSUME NEW n \in S PROVE 0 .. n \in SUBSET Nat /\ IsFiniteSet(0 .. n)
    BY FS_Interval
  <2> QED BY <2>1 DEF FiniteSubsetsOf
<1>2. PICK x \in T : \A y \in T : ~ (<<y, x>> \in StrictSubsetOrdering(Nat))
  <2> HIDE DEF T
  <2> QED BY <1>1, FS_StrictSubsetOrderingWellFounded, WFMin
<1>3. PICK m \in S : x = 0 .. m
  BY DEF T
<1>4. ASSUME NEW n \in S PROVE m <= n
  <2>1. SUFFICES ASSUME n < m PROVE FALSE
    OBVIOUS
  <2>2. 0 .. n \in T /\ 0 .. n \subseteq 0 .. m /\ 0 .. n # 0 .. m
    <3>1. m \in 0 .. m /\ m \notin 0 .. n
      BY <2>1
    <3> QED BY <2>1, <3>1 DEF T
  <2>3. 0 .. n \in SUBSET Nat /\ 0 .. m \in SUBSET Nat
    BY <2>1
  <2>4. <<0 .. n, 0 .. m>> \in StrictSubsetOrdering(Nat)
    <3> HIDE DEF T
    <3>1. <<0 .. n, 0 .. m>> \in (SUBSET Nat) \X (SUBSET Nat)
      BY <2>3
    <3> QED BY <2>2, <3>1 DEF StrictSubsetOrdering
  <2> QED
    <3> HIDE DEF T
    <3> QED BY <1>2, <1>3, <2>2, <2>4
<1> QED
  BY <1>4

\* The recorded instructions lie inside the allocated pages.
LEMMA IndexIsAllocated == Index \subseteq Pointers
<1>1. sim_num_insn < Allocated
  BY TraceAssumption DEF Allocated
<1> QED
  BY <1>1, TraceAssumption DEF Index, Pointers, Allocated

\* The scans for the oldest instruction and for the first free slot.
LEMMA OldestIsLeast ==
  ASSUME NEW S \in SUBSET Index, S # {}
  PROVE  Oldest(S) \in S /\ \A q \in S : Oldest(S) <= q
<1>1. \A p \in S : index(p) = p
  BY DEF index
<1>2. \E p \in S : \A q \in S : index(p) <= index(q)
  <2>1. S \in SUBSET Nat
    BY DEF Index
  <2> QED BY <1>1, <2>1, LeastExists
<1>3. Oldest(S) \in S /\ \A q \in S : index(Oldest(S)) <= index(q)
  <2> DEFINE P(p) == \A q \in S : index(p) <= index(q)
  <2>1. Oldest(S) = CHOOSE p \in S : P(p)
    BY DEF Oldest
  <2>2. \E p \in S : P(p)
    BY <1>2
  <2> HIDE DEF P
  <2>3. Oldest(S) \in S /\ P(Oldest(S))
    BY <2>1, <2>2
  <2> QED BY <2>3 DEF P
<1> QED
  BY <1>1, <1>3

LEMMA OldestType ==
  ASSUME NEW S \in SUBSET Index
  PROVE  Oldest(S) \in S \cup {NULL}
BY OldestIsLeast DEF Oldest

LEMMA FirstFreeIsLeast ==
  ASSUME NEW S \in SUBSET Nat, S # {}
  PROVE  FirstFree(S) \in S /\ \A j \in S : FirstFree(S) <= j
<1> DEFINE P(i) == \A j \in S : i <= j
<1>1. FirstFree(S) = CHOOSE i \in S : P(i)
  BY DEF FirstFree
<1>2. \E i \in S : P(i)
  BY LeastExists
<1> HIDE DEF P
<1>3. FirstFree(S) \in S /\ P(FirstFree(S))
  BY <1>1, <1>2
<1> QED
  BY <1>3 DEF P

LEMMA ReleaseType ==
  ASSUME NEW D, NEW f \in [D -> Index \cup {NULL}], NEW S
  PROVE  /\ Release(f, S) \in [D -> Index \cup {NULL}]
         /\ \A i \in D : Release(f, S)[i] = IF f[i] \in S THEN NULL ELSE f[i]
BY DEF Release

LEMMA HeldType ==
  ASSUME NEW D, NEW f \in [D -> Index \cup {NULL}]
  PROVE  /\ Held(f) \subseteq Index
         /\ \A p \in Held(f) : \E i \in D : f[i] = p
BY DEF Held, Index

-----------------------------------------------------------------------------
(* Type correctness.  The queue size stays in range only because a stale    *)
(* slot never reaches the head, so TypeOK is not inductive: StaleTail says  *)
(* when the slots past the size may still hold something.                   *)

QueueSlots == 0 .. INSTR_QUEUE_SIZE - 1

StaleTail ==
  \/ \A i \in QueueSlots : i >= instr_queue_size => instr_queue[i] = NULL
  \/ /\ fetch_index >= sim_num_insn
     /\ instr_queue_size > 0 \/ stage \in {"end", "done"}
  \/ /\ fetch_index < sim_num_insn
     /\ instr_queue_size = INSTR_QUEUE_SIZE - 1
     /\ stage # "dispatch"

TypeInv == TypeOK /\ StaleTail

LEMMA TypeInit == Init => TypeInv
<1> SUFFICES ASSUME Init PROVE TypeInv
  OBVIOUS
<1> USE SizesAssumption, TraceAssumption
<1>1. TypeOK
  BY DEF Init, TypeOK, Regs, NULL, Stages
<1>2. StaleTail
  BY DEF Init, StaleTail, QueueSlots
<1> QED
  BY <1>1, <1>2 DEF TypeInv

LEMMA StaleTailStays ==
  ASSUME TypeInv, UNCHANGED <<queueVars, fetch_index>>,
         stage' # "dispatch", stage \notin {"end", "done"}
  PROVE  StaleTail'
BY DEF TypeInv, StaleTail, queueVars

LEMMA TypeRetire == TypeInv /\ CDB_To_retire => TypeInv'
<1> SUFFICES ASSUME TypeInv, CDB_To_retire PROVE TypeInv'
  OBVIOUS
<1> USE DEF TypeInv
<1>1. StaleTail'
  BY StaleTailStays DEF CDB_To_retire
<1>2. map_table' \in [Regs -> Index \cup {NULL}]
  <2>1. map_table \in [Regs -> Index \cup {NULL}]
    BY DEF TypeOK
  <2>2. ClearedMapTable \in [Regs -> Index \cup {NULL}]
    BY <2>1, ReleaseType DEF ClearedMapTable
  <2> QED BY <2>1, <2>2 DEF CDB_To_retire
<1>3. commonDataBus' \in Index \cup {NULL}
  BY DEF CDB_To_retire, TypeOK
<1>4. Q' \in [Pointers -> [1 .. 3 -> Index \cup {NULL}]]
  <2>1. Q \in [Pointers -> [1 .. 3 -> Index \cup {NULL}]]
    BY DEF TypeOK
  <2>2. ASSUME NEW p \in Pointers
        PROVE  Release(Q[p], {commonDataBus}) \in [1 .. 3 -> Index \cup {NULL}]
    BY <2>1, ReleaseType
  <2>3. \/ Q' = Q
        \/ Q' = [p \in Pointers |->
                   IF p \in Listeners THEN Release(Q[p], {commonDataBus}) ELSE Q[p]]
    BY DEF CDB_To_retire
  <2> QED
    BY <2>1, <2>2, <2>3
<1> QED
  BY <1>1, <1>2, <1>3, <1>4 DEF CDB_To_retire, TypeOK, queueVars, unitVars, Stages

\* The instruction the bus goes to, and why the scans find it.
LEMMA BusWinner ==
  ASSUME TypeOK
  PROVE  /\ BusCandidates \subseteq Index
         /\ Oldest(BusCandidates) \in BusCandidates \cup {NULL}
<1>1. BusCandidates \subseteq Index
  BY HeldType DEF TypeOK, BusCandidates, CompletedINT, Completed, Leaving
<1> QED
  BY <1>1, OldestType

LEMMA TypeExecute == TypeInv /\ execute_To_CDB => TypeInv'
<1> SUFFICES ASSUME TypeInv, execute_To_CDB PROVE TypeInv'
  OBVIOUS
<1> USE DEF TypeInv
<1>1. StaleTail'
  BY StaleTailStays DEF execute_To_CDB
<1>2. commonDataBus' \in Index \cup {NULL}
  BY BusWinner DEF execute_To_CDB, TypeOK
<1>3. tom_cdb_cycle' \in [Pointers -> Int]
  BY DEF execute_To_CDB, TypeOK
<1>4. /\ fuINT' \in [0 .. FU_INT_SIZE - 1 -> Index \cup {NULL}]
      /\ fuFP' \in [0 .. FU_FP_SIZE - 1 -> Index \cup {NULL}]
      /\ reservINT' \in [0 .. RESERV_INT_SIZE - 1 -> Index \cup {NULL}]
      /\ reservFP' \in [0 .. RESERV_FP_SIZE - 1 -> Index \cup {NULL}]
  <2>1. /\ fuINT \in [0 .. FU_INT_SIZE - 1 -> Index \cup {NULL}]
        /\ fuFP \in [0 .. FU_FP_SIZE - 1 -> Index \cup {NULL}]
        /\ reservINT \in [0 .. RESERV_INT_SIZE - 1 -> Index \cup {NULL}]
        /\ reservFP \in [0 .. RESERV_FP_SIZE - 1 -> Index \cup {NULL}]
    BY DEF TypeOK
  <2>2. \A S : /\ Release(fuINT, S) \in [0 .. FU_INT_SIZE - 1 -> Index \cup {NULL}]
               /\ Release(fuFP, S) \in [0 .. FU_FP_SIZE - 1 -> Index \cup {NULL}]
               /\ Release(reservINT, S) \in [0 .. RESERV_INT_SIZE - 1 -> Index \cup {NULL}]
               /\ Release(reservFP, S) \in [0 .. RESERV_FP_SIZE - 1 -> Index \cup {NULL}]
    BY <2>1, ReleaseType
  <2> QED BY <2>2 DEF execute_To_CDB
<1> QED
  BY <1>1, <1>2, <1>3, <1>4 DEF execute_To_CDB, TypeOK, queueVars, Stages

LEMMA TypeIssue == TypeInv /\ issue_To_execute => TypeInv'
<1> SUFFICES ASSUME TypeInv, issue_To_execute PROVE TypeInv'
  OBVIOUS
<1> USE DEF TypeInv
<1>1. StaleTail'
  BY StaleTailStays DEF issue_To_execute
<1>2. ReadyFP \in SUBSET Index /\ ReadyINT \in SUBSET Index
  BY HeldType DEF TypeOK, ReadyFP, ReadyINT
<1>3. /\ Oldest(ReadyFP) \in Index \cup {NULL}
      /\ Oldest(ReadyINT) \in Index \cup {NULL}
      /\ Oldest(ReadyINT \ {Oldest(ReadyINT)}) \in Index \cup {NULL}
  BY <1>2, OldestType
<1>4. fuFP' \in [0 .. FU_FP_SIZE - 1 -> Index \cup {NULL}]
  BY <1>3, SizesAssumption DEF issue_To_execute, TypeOK
<1>5. fuINT' \in [0 .. FU_INT_SIZE - 1 -> Index \cup {NULL}]
  BY <1>3 DEF issue_To_execute, TypeOK
<1>6. tom_execute_cycle' \in [Pointers -> Int]
  BY DEF issue_To_execute, TypeOK
<1> QED
  BY <1>1, <1>4, <1>5, <1>6 DEF issue_To_execute, TypeOK, queueVars, Stages

LEMMA TypeFetch == TypeInv /\ fetch_To_dispatch => TypeInv'
<1> SUFFICES ASSUME TypeInv, fetch_To_dispatch PROVE TypeInv'
  OBVIOUS
<1> USE SizesAssumption, TraceAssumption
<1>1. \A queue, since : since \in [Pointers -> Int]
        => Dispatched(queue, since) \in [Pointers -> Int]
  BY DEF Dispatched, TypeInv, TypeOK
<1>2. ASSUME NEW p \in Pointers, Fetch(p) PROVE TypeInv'
  <2>1. instr_queue_size \in QueueSlots
    BY <1>2 DEF TypeInv, TypeOK, Fetch, CanFetch, QueueSlots
  <2>2. StaleTail'
    <3>1. \A i \in QueueSlots : i > instr_queue_size => instr_queue[i] = NULL
      BY <1>2 DEF TypeInv, TypeOK, StaleTail, Fetch, CanFetch, QueueSlots
    <3>2. \A i \in QueueSlots : i >= instr_queue_size' => instr_queue'[i] = NULL
      BY <1>2, <2>1, <3>1 DEF TypeInv, TypeOK, Fetch, CanFetch, tmPushInsQueue, QueueSlots
    <3> QED BY <3>2 DEF StaleTail
  <2>3. /\ instr_queue' \in [0 .. INSTR_QUEUE_SIZE - 1 -> Pointers \cup {NULL}]
        /\ instr_queue_size' \in 0 .. INSTR_QUEUE_SIZE
    BY <1>2, <2>1 DEF TypeInv, TypeOK, Fetch, CanFetch, tmPushInsQueue, QueueSlots
  <2>4. fetch_index' \in 0 .. sim_num_insn
    BY <1>2 DEF Fetch, index, Index
  <2>5. /\ tom_dispatch_cycle' \in [Pointers -> Int]
        /\ tom_issue_cycle' \in [Pointers -> Int]
        /\ tom_execute_cycle' \in [Pointers -> Int]
        /\ tom_cdb_cycle' \in [Pointers -> Int]
    <3>1. \A f \in [Pointers -> Int] : [f EXCEPT ![p] = -1] \in [Pointers -> Int]
      OBVIOUS
    <3>2. /\ tom_dispatch_cycle \in [Pointers -> Int]
          /\ tom_issue_cycle \in [Pointers -> Int]
          /\ tom_execute_cycle \in [Pointers -> Int]
          /\ tom_cdb_cycle \in [Pointers -> Int]
      BY DEF TypeInv, TypeOK
    <3>3. Dispatched(instr_queue', [tom_dispatch_cycle EXCEPT ![p] = -1])
            \in [Pointers -> Int]
      BY <1>1, <3>1, <3>2
    <3> QED BY <1>2, <3>1, <3>2, <3>3 DEF Fetch
  <2> QED
    BY <1>2, <2>2, <2>3, <2>4, <2>5 DEF TypeInv, TypeOK, Fetch, unitVars, Stages
<1>3. CASE FetchNothing
  <2>1. StaleTail'
    BY <1>3 DEF TypeInv, TypeOK, StaleTail, FetchNothing, CanFetch, queueVars
  <2>2. tom_dispatch_cycle' \in [Pointers -> Int]
    BY <1>1, <1>3 DEF TypeInv, TypeOK, FetchNothing
  <2> QED
    BY <1>3, <2>1, <2>2 DEF TypeInv, TypeOK, FetchNothing, queueVars, unitVars, Stages
<1>4. CASE FetchCrash
  <2>1. StaleTail'
    BY <1>4, StaleTailStays DEF FetchCrash
  <2> QED
    BY <1>4, <2>1 DEF TypeInv, TypeOK, FetchCrash, queueVars, unitVars, Stages
<1> QED
  BY <1>2, <1>3, <1>4 DEF fetch_To_dispatch

\* At dispatch, whatever slot 0 holds is in the queue.
LEMMA HeadIsQueued ==
  ASSUME TypeInv, stage = "dispatch", head # NULL
  PROVE  instr_queue_size > 0
BY SizesAssumption DEF TypeInv, TypeOK, StaleTail, QueueSlots, head

LEMMA PopKeepsTail ==
  ASSUME TypeInv, stage = "dispatch", head # NULL, tmPopInsQueue,
         stage' = "end", UNCHANGED fetch_index
  PROVE  /\ StaleTail'
         /\ instr_queue' \in [0 .. INSTR_QUEUE_SIZE - 1 -> Pointers \cup {NULL}]
         /\ instr_queue_size' \in 0 .. INSTR_QUEUE_SIZE
<1> USE SizesAssumption, TraceAssumption
<1>1. instr_queue_size \in 1 .. INSTR_QUEUE_SIZE
  BY HeadIsQueued DEF TypeInv, TypeOK
<1>2. /\ instr_queue' \in [0 .. INSTR_QUEUE_SIZE - 1 -> Pointers \cup {NULL}]
      /\ instr_queue_size' \in 0 .. INSTR_QUEUE_SIZE
  BY <1>1 DEF TypeInv, TypeOK, tmPopInsQueue
<1>3. StaleTail'
  <2>1. CASE instr_queue_size = INSTR_QUEUE_SIZE
    BY <2>1 DEF TypeInv, TypeOK, StaleTail, tmPopInsQueue
  <2>2. CASE /\ instr_queue_size < INSTR_QUEUE_SIZE
             /\ \A i \in QueueSlots : i >= instr_queue_size => instr_queue[i] = NULL
    <3>1. \A i \in QueueSlots : i >= instr_queue_size' => instr_queue'[i] = NULL
      BY <1>1, <2>2 DEF TypeInv, TypeOK, tmPopInsQueue, QueueSlots
    <3> QED BY <3>1 DEF StaleTail
  <2>3. CASE fetch_index >= sim_num_insn
    BY <2>3 DEF StaleTail
  <2> QED
    BY <1>1, <2>1, <2>2, <2>3 DEF TypeInv, TypeOK, StaleTail
<1> QED
  BY <1>2, <1>3

LEMMA RenameType ==
  ASSUME TypeOK, Rename, head \in Index
  PROVE  /\ Q' \in [Pointers -> [1 .. 3 -> Index \cup {NULL}]]
         /\ map_table' \in [Regs -> Index \cup {NULL}]
BY IndexIsAllocated DEF TypeOK, Rename

LEMMA TypeDispatch == TypeInv /\ dispatch_To_issue => TypeInv'
<1> SUFFICES ASSUME TypeInv, dispatch_To_issue PROVE TypeInv'
  OBVIOUS
<1>1. tom_issue_cycle' \in [Pointers -> Int]
  BY DEF TypeInv, TypeOK, dispatch_To_issue
<1>2. CASE HeadStays /\ UNCHANGED <<queueVars, reservINT, reservFP, Q, map_table>>
  <2>1. StaleTail'
    BY <1>2 DEF TypeInv, StaleTail, dispatch_To_issue, queueVars
  <2> QED
    BY <1>1, <1>2, <2>1 DEF TypeInv, TypeOK, dispatch_To_issue, queueVars, unitVars, Stages
<1>3. CASE Issues
  <2>1. /\ head # NULL
        /\ tmPopInsQueue
    BY <1>3 DEF Issues, IssueControl, IssueINT, IssueFP
  <2>2. /\ StaleTail'
        /\ instr_queue' \in [0 .. INSTR_QUEUE_SIZE - 1 -> Pointers \cup {NULL}]
        /\ instr_queue_size' \in 0 .. INSTR_QUEUE_SIZE
    BY <2>1, PopKeepsTail DEF dispatch_To_issue
  <2>3. /\ reservINT' \in [0 .. RESERV_INT_SIZE - 1 -> Index \cup {NULL}]
        /\ reservFP' \in [0 .. RESERV_FP_SIZE - 1 -> Index \cup {NULL}]
        /\ Q' \in [Pointers -> [1 .. 3 -> Index \cup {NULL}]]
        /\ map_table' \in [Regs -> Index \cup {NULL}]
    <3>1. CASE IssueControl
      BY <3>1 DEF IssueControl, TypeInv, TypeOK
    <3>2. CASE IssueINT
      <4>1. head \in Index
        BY <3>2 DEF IssueINT, USES_INT_FU, op
      <4> QED BY <3>2, <4>1, RenameType DEF IssueINT, TypeInv, TypeOK
    <3>3. CASE IssueFP
      <4>1. head \in Index
        BY <3>3 DEF IssueFP, USES_FP_FU, op
      <4> QED BY <3>3, <4>1, RenameType DEF IssueFP, TypeInv, TypeOK
    <3> QED BY <1>3, <3>1, <3>2, <3>3 DEF Issues
  <2> QED
    BY <1>1, <2>2, <2>3 DEF TypeInv, TypeOK, dispatch_To_issue, unitVars, Stages
<1> QED
  BY <1>2, <1>3 DEF dispatch_To_issue

LEMMA TypeEnd == TypeInv /\ EndCycle => TypeInv'
<1> SUFFICES ASSUME TypeInv, EndCycle PROVE TypeInv'
  OBVIOUS
<1>1. StaleTail'
  BY DEF TypeInv, TypeOK, StaleTail, EndCycle, is_simulation_done, queueVars
<1> QED
  BY <1>1 DEF TypeInv, TypeOK, EndCycle, queueVars, unitVars, Stages

LEMMA TypeStep == TypeInv /\ [Next]_vars => TypeInv'
<1> SUFFICES ASSUME TypeInv, [Next]_vars PROVE TypeInv'
  OBVIOUS
<1>1. CASE runTomasulo
  BY <1>1, TypeRetire, TypeExecute, TypeIssue, TypeFetch, TypeDispatch, TypeEnd
     DEF runTomasulo
<1>2. CASE UNCHANGED vars
  BY <1>2 DEF vars, TypeInv, TypeOK, StaleTail
<1> QED
  BY <1>1, <1>2 DEF Next, Stopped

\* Whatever the trace, also one that ends in traps, the pipeline's state
\* stays in range: the queue never overflows nor pops when it is empty, and
\* only recorded instructions reach the stations, the units and the bus.
THEOREM TypeCorrect == Spec => []TypeOK
<1>1. TypeInv => TypeOK
  BY DEF TypeInv
<1> QED
  BY TypeInit, TypeStep, <1>1, PTL DEF Spec

-----------------------------------------------------------------------------
\* What is said of the program alone does not change.
LEMMA ProgramStays ==
  ASSUME trace' = trace
  PROVE  /\ \A p : op(p)' = op(p)
         /\ \A j, r : Writes(j, r)' <=> Writes(j, r)
         /\ \A j, i, k : Produces(j, i, k)' <=> Produces(j, i, k)
         /\ NoTrailingTrap' <=> NoTrailingTrap
<1>1. \A p : op(p)' = op(p)
  BY DEF op
<1>2. \A j, r : Writes(j, r)' <=> Writes(j, r)
  BY <1>1 DEF Writes
<1>3. \A j, i, k : Produces(j, i, k)' <=> Produces(j, i, k)
  BY <1>2 DEF Produces
<1> QED
  BY <1>1, <1>2, <1>3 DEF NoTrailingTrap

\* A result that is out stays out, unless its instruction takes the bus again.
LEMMA OutStays ==
  ASSUME TypeOK, NEW j \in Index, Out(j), tom_cdb_cycle'[j] = tom_cdb_cycle[j],
         cycle' \in {cycle, cycle + 1}, commonDataBus' # j
  PROVE  Out(j)'
BY IndexIsAllocated DEF TypeOK, Out

LEMMA RawInit == Init /\ NoTrailingTrap => RawInv
<1> SUFFICES ASSUME Init, NoTrailingTrap PROVE RawInv
  OBVIOUS
<1> USE TraceAssumption, SizesAssumption, IndexIsAllocated
<1>1. \A p \in Index : ~Issued(p) /\ tom_execute_cycle[p] = 0 /\ tom_cdb_cycle[p] = 0
  BY DEF Init, Issued
<1>2. Listeners = {} /\ Held(fuINT) = {} /\ Held(fuFP) = {}
  BY DEF Init, Listeners, Held
<1>3. Unissued /\ InOrder /\ QueueOrdered /\ QueueComplete
  BY <1>1 DEF Init, Unissued, InOrder, QueueOrdered, QueueComplete
<1>4. StationsHold /\ BusHolds /\ MapNames /\ TagsName /\ RawResolved
  BY <1>1, <1>2 DEF Init, StationsHold, BusHolds, MapNames, TagsName, RawResolved, LastWriter
<1> QED
  BY <1>3, <1>4 DEF RawInv, Init

-----------------------------------------------------------------------------
\* The broadcast: a tag that is cleared named a result that is now out.
LEMMA RawRetire ==
  ASSUME TypeInv, RawInv, CDB_To_retire
  PROVE  RawInv'
<1> USE DEF RawInv, TypeInv
<1>0. /\ trace' = trace /\ cycle' = cycle
      /\ UNCHANGED <<instr_queue, instr_queue_size, fetch_index, reservINT, reservFP,
                     fuINT, fuFP, tom_issue_cycle, tom_execute_cycle, tom_cdb_cycle>>
  BY DEF CDB_To_retire, queueVars, unitVars
<1>1. CASE ~BusExpired
  <2>1. UNCHANGED <<Q, map_table, commonDataBus>>
    BY <1>1 DEF CDB_To_retire
  <2> QED
    BY <1>0, <2>1, ProgramStays
       DEF Unissued, InOrder, QueueOrdered, QueueComplete, StationsHold, BusHolds,
           MapNames, TagsName, RawResolved, Issued, LastWriter, Out, Listeners
<1>2. CASE BusExpired
  <2>0. PICK b \in Index : b = commonDataBus
    BY <1>2 DEF BusExpired, TypeOK
  <2>1. Out(b)' /\ commonDataBus' = NULL
    BY <1>0, <1>2, <2>0, IndexIsAllocated
       DEF CDB_To_retire, Out, BusHolds, BusExpired, TypeOK, Index, NULL
  <2>2. \A j \in Index : Out(j) => Out(j)'
    BY <1>0, <2>1 DEF Out, Index, NULL
  <2>3. Unissued' /\ InOrder' /\ QueueOrdered' /\ QueueComplete' /\ StationsHold'
    BY <1>0, ProgramStays
       DEF Unissued, InOrder, QueueOrdered, QueueComplete, StationsHold, Issued, Listeners
  <2>4. BusHolds'
    BY <2>1 DEF BusHolds
  <2>5. MapNames'
    <3> SUFFICES ASSUME NEW r \in Regs, NEW j \in Index, LastWriter(j, r)'
                 PROVE  map_table'[r] = j \/ (map_table'[r] = NULL /\ Out(j)')
      BY DEF MapNames
    <3>1. LastWriter(j, r)
      BY <1>0, ProgramStays DEF LastWriter, Issued
    <3>2. map_table'[r] = IF map_table[r] = commonDataBus THEN NULL ELSE map_table[r]
      BY <1>2 DEF CDB_To_retire, ClearedMapTable, Release, TypeOK
    <3> QED
      BY <2>0, <2>1, <2>2, <3>1, <3>2 DEF MapNames
  <2>6. TagsName'
    <3> SUFFICES ASSUME NEW i \in Listeners, NEW j \in Index, NEW k \in 1 .. 3,
                        Produces(j, i, k)
                 PROVE  Q'[i][k] = j \/ (Q'[i][k] = NULL /\ Out(j)')
      BY <1>0, ProgramStays DEF TagsName, Listeners
    <3>1. i \in Pointers
      BY HeldType, IndexIsAllocated DEF TypeOK, Listeners
    <3>2. Q'[i][k] = IF Q[i][k] = commonDataBus THEN NULL ELSE Q[i][k]
      <4>1. Q'[i] = Release(Q[i], {commonDataBus})
        BY <1>2, <3>1 DEF CDB_To_retire
      <4>2. Q[i] \in [1 .. 3 -> Index \cup {NULL}]
        BY <3>1 DEF TypeOK
      <4> QED BY <4>1, <4>2, ReleaseType
    <3> QED
      BY <2>0, <2>1, <2>2, <3>2 DEF TagsName
  <2>7. RawResolved'
    BY <1>0, ProgramStays DEF RawResolved
  <2> QED
    BY <1>0, <2>3, <2>4, <2>5, <2>6, <2>7, ProgramStays
<1> QED
  BY <1>1, <1>2

\* The winner had no result out: nothing that is out is overwritten.
LEMMA RawExecute ==
  ASSUME TypeInv, RawInv, execute_To_CDB
  PROVE  RawInv'
<1> USE DEF RawInv, TypeInv
<1> DEFINE winner == IF commonDataBus = NULL THEN Oldest(BusCandidates) ELSE NULL
           gone   == Leaving \cup ({winner} \ {NULL})
<1>0. /\ trace' = trace /\ cycle' = cycle
      /\ UNCHANGED <<instr_queue, instr_queue_size, fetch_index, map_table, Q,
                     tom_issue_cycle, tom_execute_cycle>>
      /\ commonDataBus' = IF winner = NULL THEN commonDataBus ELSE winner
      /\ tom_cdb_cycle' = [p \in Pointers |->
                             IF p = winner THEN cycle ELSE tom_cdb_cycle[p]]
      /\ fuINT' = Release(fuINT, gone)
      /\ fuFP'  = Release(fuFP, {winner} \ {NULL})
      /\ reservINT' = Release(reservINT, gone)
      /\ reservFP'  = Release(reservFP, {winner} \ {NULL})
  BY DEF execute_To_CDB, queueVars
<1>1. winner # NULL => /\ winner \in Held(fuINT) \cup Held(fuFP)
                       /\ winner \in Index /\ Issued(winner) /\ tom_cdb_cycle[winner] <= 0
  <2>1. BusCandidates \subseteq Held(fuINT) \cup Held(fuFP)
    BY DEF BusCandidates, Completed, CompletedINT
  <2>2. winner # NULL => winner \in BusCandidates
    BY BusWinner
  <2> HIDE DEF winner
  <2> QED BY <2>1, <2>2, BusWinner DEF StationsHold, Listeners
<1> HIDE DEF winner
<1>a. \A j \in Index : tom_cdb_cycle[j] \in Int /\ tom_execute_cycle[j] \in Int
  BY IndexIsAllocated DEF TypeOK
<1>2. \A j \in Index : Out(j) => Out(j)' /\ tom_cdb_cycle'[j] = tom_cdb_cycle[j]
  BY <1>0, <1>1, <1>a, IndexIsAllocated DEF Out, Index, NULL
<1>3. \A j \in Index : j # winner => tom_cdb_cycle'[j] = tom_cdb_cycle[j]
  BY <1>0, IndexIsAllocated
<1>4. /\ Held(fuINT)' = Held(fuINT) \ gone /\ Held(fuFP)' = Held(fuFP) \ {winner}
      /\ Held(reservINT)' = Held(reservINT) \ gone
      /\ Held(reservFP)' = Held(reservFP) \ {winner}
  BY <1>0 DEF Held, Release, TypeOK
<1>5. Unissued' /\ InOrder' /\ QueueOrdered' /\ QueueComplete'
  <2>1. Unissued'
    BY <1>0, <1>1, <1>3 DEF Unissued, Issued, Index, NULL
  <2>2. InOrder'
    BY <1>0, ProgramStays DEF InOrder, Issued
  <2>3. QueueOrdered' /\ QueueComplete'
    BY <1>0, ProgramStays DEF QueueOrdered, QueueComplete, Issued
  <2> QED BY <2>1, <2>2, <2>3
<1>6. StationsHold'
  <2>1. Listeners' \subseteq Listeners \ {winner}
    BY <1>4 DEF Listeners, gone, Held
  <2>2. Listeners \subseteq Index
    BY HeldType DEF Listeners, TypeOK
  <2>3. /\ Held(fuINT)' \subseteq Held(reservINT)'
        /\ Held(fuFP)' \subseteq Held(reservFP)'
    BY <1>4 DEF StationsHold
  <2> QED
    BY <1>0, <1>3, <2>1, <2>2, <2>3 DEF StationsHold, Issued
<1>7. BusHolds'
  BY <1>0, <1>1, IndexIsAllocated DEF BusHolds, Issued, TypeOK
<1>8. MapNames'
  BY <1>0, <1>2, ProgramStays DEF MapNames, LastWriter, Issued
<1>9. TagsName'
  BY <1>0, <1>2, <1>4, ProgramStays DEF TagsName, Listeners
<1>10. RawResolved'
  BY <1>0, <1>1, <1>3, <1>a, ProgramStays DEF RawResolved, Index, NULL
<1> QED
  BY <1>0, <1>5, <1>6, <1>7, <1>8, <1>9, <1>10, ProgramStays

\* What starts has every operand: its producers are out, and the result of
\* an instruction that is out went on the bus in an earlier cycle.
LEMMA RawIssue ==
  ASSUME TypeInv, RawInv, issue_To_execute
  PROVE  RawInv'
<1> USE DEF RawInv, TypeInv
<1> DEFINE
      fp_next  == IF fuFP[0] = NULL THEN Oldest(ReadyFP) ELSE NULL
      first    == FirstFree(Free(fuINT))
      second   == FirstFree(Free(fuINT) \ {first})
      oldest   == Oldest(ReadyINT)
      next0    == IF first = -1 THEN NULL ELSE oldest
      next1    == IF second = -1 THEN NULL ELSE Oldest(ReadyINT \ {oldest})
      started  == {fp_next, next0, next1} \ {NULL}
<1>0. /\ trace' = trace /\ cycle' = cycle
      /\ UNCHANGED <<instr_queue, instr_queue_size, fetch_index, reservINT, reservFP,
                     commonDataBus, map_table, Q, tom_issue_cycle, tom_cdb_cycle>>
      /\ fuFP' = [fuFP EXCEPT ![0] = IF fp_next = NULL THEN @ ELSE fp_next]
      /\ fuINT' = [i \in DOMAIN fuINT |-> CASE i = first  -> next0
                                            [] i = second -> next1
                                            [] OTHER      -> fuINT[i]]
      /\ tom_execute_cycle' = [p \in Pointers |->
                                 IF p \in started THEN cycle ELSE tom_execute_cycle[p]]
  BY DEF issue_To_execute, queueVars
<1>1. ReadyFP \in SUBSET Index /\ ReadyINT \in SUBSET Index
  BY HeldType DEF TypeOK, ReadyFP, ReadyINT
<1>2. /\ fp_next \in ReadyFP \cup {NULL}
      /\ next0 \in ReadyINT \cup {NULL}
      /\ next1 \in ReadyINT \cup {NULL}
  BY <1>1, OldestType
<1> HIDE DEF fp_next, first, second, next0, next1, oldest
<1>3. started \subseteq Listeners /\ \A p \in started : OperandsReady(p)
  BY <1>2 DEF ReadyFP, ReadyINT, Listeners
<1>4. Listeners \subseteq Index /\ Listeners' = Listeners
  BY <1>0, HeldType DEF Listeners, TypeOK
<1> HIDE DEF started
<1>5. Unissued'
  BY <1>0, <1>3, <1>4, IndexIsAllocated DEF Unissued, StationsHold, Issued
<1>6. InOrder' /\ QueueOrdered' /\ QueueComplete'
  BY <1>0, ProgramStays DEF InOrder, QueueOrdered, QueueComplete, Issued
<1>7. StationsHold'
  <2>1. Held(fuINT)' \subseteq Held(reservINT)'
    <3> SUFFICES ASSUME NEW i \in DOMAIN fuINT, fuINT'[i] # NULL
                 PROVE  fuINT'[i] \in Held(reservINT)
      BY <1>0 DEF Held
    <3>1. fuINT'[i] \in {next0, next1, fuINT[i]}
      BY <1>0
    <3> QED
      BY <1>2, <3>1 DEF Held, ReadyINT, StationsHold
  <2>2. Held(fuFP)' \subseteq Held(reservFP)'
    <3> SUFFICES ASSUME NEW i \in DOMAIN fuFP, fuFP'[i] # NULL
                 PROVE  fuFP'[i] \in Held(reservFP)
      BY <1>0 DEF Held
    <3>1. fuFP'[i] \in {fp_next, fuFP[i]}
      BY <1>0 DEF TypeOK
    <3> QED
      BY <1>2, <3>1 DEF Held, ReadyFP, StationsHold
  <2> QED
    BY <1>0, <1>4, <2>1, <2>2 DEF StationsHold, Issued
<1>8. BusHolds'
  BY <1>0 DEF BusHolds, Issued
<1>9. MapNames'
  BY <1>0, ProgramStays DEF MapNames, LastWriter, Issued, Out
<1>10. TagsName'
  BY <1>0, <1>4, ProgramStays DEF TagsName, Out
<1>11. RawResolved'
  <2> SUFFICES ASSUME NEW i \in Index, NEW j \in Index, NEW k \in 1 .. 3,
                      tom_execute_cycle'[i] > 0, Produces(j, i, k)
               PROVE  /\ tom_cdb_cycle[j] > 0
                      /\ tom_cdb_cycle[j] < tom_execute_cycle'[i]
    BY <1>0, ProgramStays DEF RawResolved
  <2>1. CASE i \in started
    <3>1. Q[i][k] = NULL
      BY <1>3, <2>1 DEF OperandsReady
    <3>2. Out(j)
      BY <1>3, <2>1, <3>1 DEF TagsName, Index, NULL
    <3> QED
      BY <1>0, <2>1, <3>2, IndexIsAllocated DEF Out
  <2>2. CASE i \notin started
    BY <1>0, <2>2, IndexIsAllocated DEF RawResolved
  <2> QED BY <2>1, <2>2
<1> QED
  BY <1>0, <1>5, <1>6, <1>7, <1>8, <1>9, <1>10, <1>11, ProgramStays

\* fetch finds the next instruction that is no trap, and it is a recorded one.
LEMMA FetchFindsInstruction ==
  ASSUME TypeInv, NoTrailingTrap, NEW p \in Pointers, Fetch(p)
  PROVE  /\ p \in Index /\ p > fetch_index /\ ~IS_TRAP(op(p)) /\ fetch_index' = p
         /\ \A q \in Index : q > fetch_index /\ q < p => IS_TRAP(op(q))
<1> USE TraceAssumption
<1>1. sim_num_insn \in NextEntry
  BY IndexIsAllocated DEF Fetch, CanFetch, NextEntry, NoTrailingTrap, Index
<1>2. p \in Index
  BY <1>1 DEF Fetch, Index, Pointers, NextEntry
<1> QED
  BY <1>2, IndexIsAllocated DEF Fetch, NextEntry, index, Index, TypeInv, TypeOK

LEMMA RawFetch ==
  ASSUME TypeInv, RawInv, fetch_To_dispatch
  PROVE  RawInv'
<1> USE DEF RawInv, TypeInv
<1>1. CASE FetchNothing \/ FetchCrash
  <2>1. /\ trace' = trace /\ cycle' = cycle
        /\ UNCHANGED <<instr_queue, instr_queue_size, reservINT, reservFP, fuINT, fuFP,
                       commonDataBus, map_table, fetch_index, Q, tom_issue_cycle,
                       tom_execute_cycle, tom_cdb_cycle>>
    BY <1>1 DEF FetchNothing, FetchCrash, queueVars, unitVars
  <2>2. Unissued' /\ InOrder' /\ QueueOrdered' /\ QueueComplete'
    BY <2>1, ProgramStays DEF Unissued, InOrder, QueueOrdered, QueueComplete, Issued
  <2>3. StationsHold' /\ BusHolds' /\ MapNames' /\ TagsName' /\ RawResolved'
    BY <2>1, ProgramStays DEF StationsHold, BusHolds, MapNames, TagsName, RawResolved,
                              Issued, LastWriter, Out, Listeners
  <2> QED
    BY <2>1, <2>2, <2>3, ProgramStays
<1>2. ASSUME NEW p \in Pointers, Fetch(p) PROVE RawInv'
  <2>0. /\ trace' = trace /\ cycle' = cycle
        /\ UNCHANGED <<reservINT, reservFP, fuINT, fuFP, commonDataBus, map_table, Q>>
        /\ instr_queue' = [instr_queue EXCEPT ![instr_queue_size] = p]
        /\ instr_queue_size' = instr_queue_size + 1
        /\ tom_issue_cycle'   = [tom_issue_cycle EXCEPT ![p] = -1]
        /\ tom_execute_cycle' = [tom_execute_cycle EXCEPT ![p] = -1]
        /\ tom_cdb_cycle'     = [tom_cdb_cycle EXCEPT ![p] = -1]
    BY <1>2 DEF Fetch, CanFetch, unitVars, tmPushInsQueue
  <2>1. /\ p \in Index /\ p > fetch_index /\ ~IS_TRAP(op(p)) /\ fetch_index' = p
        /\ \A q \in Index : q > fetch_index /\ q < p => IS_TRAP(op(q))
    BY <1>2, FetchFindsInstruction
  <2>2. \A q \in Index : /\ Issued(q)' <=> Issued(q)
                         /\ tom_cdb_cycle[q] > 0 <=> tom_cdb_cycle'[q] > 0
                         /\ tom_execute_cycle[q] > 0 <=> tom_execute_cycle'[q] > 0
                         /\ q # p => /\ tom_cdb_cycle'[q] = tom_cdb_cycle[q]
                                     /\ tom_execute_cycle'[q] = tom_execute_cycle[q]
    BY <2>0, <2>1, IndexIsAllocated DEF TypeOK, Issued, Unissued
  <2>3. /\ ~Issued(p) /\ tom_cdb_cycle[p] <= 0 /\ tom_execute_cycle[p] <= 0
        /\ ~(tom_cdb_cycle[p] > 0) /\ ~(tom_execute_cycle[p] > 0)
    BY <2>1, IndexIsAllocated DEF Unissued, TypeOK
  <2>4. \A q \in Index : Out(q) => q # p /\ Out(q)'
    BY <2>0, <2>2, <2>3 DEF Out
  <2>5. Listeners \subseteq Index /\ Listeners' = Listeners
    BY <2>0, HeldType DEF Listeners, TypeOK
  <2>6. instr_queue_size \in QueueSlots
    BY <1>2, SizesAssumption DEF Fetch, CanFetch, TypeOK, QueueSlots
  <2>7. /\ \A i \in 0 .. instr_queue_size - 1 : instr_queue'[i] = instr_queue[i]
        /\ instr_queue'[instr_queue_size] = p
    BY <2>0, <2>6 DEF TypeOK, QueueSlots
  <2>8. Unissued'
    <3>1. ASSUME NEW q \in Index, q > fetch_index'
          PROVE  ~Issued(q)'
      BY <2>1, <2>2, <3>1 DEF Unissued, TypeOK, Index
    <3>2. ASSUME NEW q \in Index, ~Issued(q)'
          PROVE  tom_execute_cycle'[q] <= 0 /\ tom_cdb_cycle'[q] <= 0
      <4>1. CASE q = p
        BY <2>0, <2>1, IndexIsAllocated, <4>1 DEF TypeOK
      <4>2. CASE q # p
        BY <2>2, <3>2, <4>2 DEF Unissued
      <4> QED
        BY <4>1, <4>2
    <3> QED
      BY <3>1, <3>2 DEF Unissued
  <2>9. InOrder'
    BY <2>0, <2>2, ProgramStays DEF InOrder
  <2>10. QueueOrdered'
    <3>1. ASSUME NEW i \in 0 .. instr_queue_size
          PROVE  /\ instr_queue'[i] \in 1 .. p
                 /\ ~IS_TRAP(op(instr_queue'[i])) /\ ~Issued(instr_queue'[i])
                 /\ i < instr_queue_size => instr_queue'[i] < p
      <4>1. CASE i = instr_queue_size
        BY <2>1, <2>3, <2>7, <4>1 DEF Index
      <4>2. CASE i < instr_queue_size
        BY <2>1, <2>6, <2>7, <4>2 DEF QueueOrdered, QueueSlots, TypeOK, Index
      <4> QED BY <4>1, <4>2, <2>6 DEF QueueSlots
    <3>2. \A i \in 0 .. instr_queue_size : instr_queue'[i] \in Index
      BY <3>1, <2>1, TraceAssumption DEF Index
    <3>3. ASSUME NEW i \in 0 .. instr_queue_size, NEW j \in 0 .. instr_queue_size, i < j
          PROVE  instr_queue'[i] < instr_queue'[j]
      <4>1. CASE j = instr_queue_size
        BY <2>7, <3>1, <3>3, <4>1
      <4>2. CASE j < instr_queue_size
        BY <2>6, <2>7, <3>3, <4>2 DEF QueueOrdered, QueueSlots
      <4> QED BY <4>1, <4>2, <2>6 DEF QueueSlots
    <3>4. instr_queue_size' - 1 = instr_queue_size
      BY <2>0, <2>6 DEF QueueSlots
    <3>5. \A i \in 0 .. instr_queue_size :
            ~(tom_issue_cycle'[instr_queue'[i]] > 0)
      BY <2>2, <3>1, <3>2 DEF Issued
    <3>6. \A i \in 0 .. instr_queue_size :
            trace'[instr_queue'[i]].op # "trap"
      BY <2>0, <3>1, <3>2 DEF op, IS_TRAP
    <3> QED
      BY <2>1, <3>1, <3>2, <3>3, <3>4, <3>5, <3>6 DEF QueueOrdered, Issued, op, IS_TRAP
  <2>11. QueueComplete'
    <3>a. instr_queue_size' - 1 = instr_queue_size /\ 1 .. p \subseteq Index
      BY <2>0, <2>1, <2>6, TraceAssumption DEF QueueSlots, Index
    <3> SUFFICES ASSUME NEW q \in 1 .. p
                 PROVE  \/ IS_TRAP(op(q)) \/ Issued(q)
                        \/ \E i \in 0 .. instr_queue_size : instr_queue'[i] = q
      BY <2>0, <2>1, <2>2, <3>a, ProgramStays DEF QueueComplete
    <3>1. CASE q <= fetch_index
      <4>1. \/ IS_TRAP(op(q)) \/ Issued(q)
            \/ \E i \in 0 .. instr_queue_size - 1 : instr_queue[i] = q
        <5>1. q \in 1 .. fetch_index
          BY <2>1, <3>1, <3>a DEF TypeOK, Index
        <5> QED BY <5>1 DEF QueueComplete
      <4> QED BY <2>6, <2>7, <4>1 DEF QueueSlots
    <3>2. CASE q > fetch_index /\ q < p
      BY <2>1, <3>2, <3>a
    <3>3. CASE q = p
      BY <2>6, <2>7, <3>3 DEF QueueSlots
    <3> QED
      BY <2>1, <3>1, <3>2, <3>3 DEF TypeOK, Index
  <2>12. StationsHold'
    BY <2>0, <2>2, <2>3, <2>5 DEF StationsHold
  <2>13. BusHolds'
    BY <2>0, <2>2, <2>3 DEF BusHolds, TypeOK
  <2>14. MapNames'
    BY <2>0, <2>2, <2>4, ProgramStays DEF MapNames, LastWriter
  <2>15. TagsName'
    BY <2>0, <2>4, <2>5, ProgramStays DEF TagsName
  <2>16. RawResolved'
    <3> SUFFICES ASSUME NEW i \in Index, NEW j \in Index, NEW k \in 1 .. 3,
                        tom_execute_cycle'[i] > 0, Produces(j, i, k)
                 PROVE  tom_cdb_cycle'[j] > 0 /\ tom_cdb_cycle'[j] < tom_execute_cycle'[i]
      BY <2>0, ProgramStays DEF RawResolved
    <3>1. tom_cdb_cycle[j] > 0 /\ tom_cdb_cycle[j] < tom_execute_cycle[i] /\ i # p /\ j # p
      BY <2>2, <2>3 DEF RawResolved
    <3> QED BY <2>2, <3>1
  <2> QED
    BY <2>0, <2>8, <2>9, <2>10, <2>11, <2>12, <2>13, <2>14, <2>15, <2>16, ProgramStays
<1> QED
  BY <1>1, <1>2 DEF fetch_To_dispatch

-----------------------------------------------------------------------------
\* The head of the queue is the oldest instruction that is not issued.
LEMMA HeadIsOldest ==
  ASSUME TypeInv, RawInv, stage = "dispatch", head # NULL
  PROVE  /\ head \in Index /\ head <= fetch_index
         /\ ~IS_TRAP(op(head)) /\ ~Issued(head)
         /\ \A q \in Index : q < head /\ ~IS_TRAP(op(q)) => Issued(q)
         /\ \A q \in Index : q > head => ~Issued(q)
<1> USE DEF RawInv
<1>1. instr_queue_size > 0 /\ instr_queue_size \in Int
  BY HeadIsQueued DEF TypeInv, TypeOK
<1>2. head \in 1 .. fetch_index /\ ~IS_TRAP(op(head)) /\ ~Issued(head)
  BY <1>1 DEF QueueOrdered, head
<1>3. head \in Index /\ 1 .. fetch_index \subseteq Index
  BY <1>2, TraceAssumption DEF TypeInv, TypeOK, Index
<1>4. ASSUME NEW q \in Index, q < head, ~IS_TRAP(op(q)) PROVE Issued(q)
  <2>1. q \in 1 .. fetch_index
    BY <1>2, <1>3, <1>4 DEF Index, TypeInv, TypeOK
  <2>2. Issued(q) \/ \E i \in 0 .. instr_queue_size - 1 : instr_queue[i] = q
    BY <1>4, <2>1 DEF QueueComplete
  <2>3. ASSUME NEW i \in 0 .. instr_queue_size - 1, instr_queue[i] = q PROVE FALSE
    BY <1>1, <1>2, <1>3, <1>4, <2>3 DEF QueueOrdered, head, Index
  <2> QED BY <2>2, <2>3
<1>5. ASSUME NEW q \in Index, q > head PROVE ~Issued(q)
  BY <1>2, <1>3, <1>5 DEF InOrder, Index
<1> QED
  BY <1>2, <1>3, <1>4, <1>5 DEF Index, TypeInv, TypeOK

\* Renaming: the producer of an operand is the last issued writer of it.
LEMMA ProducerIsLastWriter ==
  ASSUME TypeInv, RawInv, stage = "dispatch", head # NULL,
         NEW j \in Index, NEW k \in 1 .. 3, Produces(j, head, k)
  PROVE  LastWriter(j, trace[head].r_in[k])
<1>1. ~IS_TRAP(op(j))
  BY DEF Produces, Writes, WRITES_CDB, IS_TRAP
<1>2. Issued(j)
  BY <1>1, HeadIsOldest DEF Produces
<1>3. ASSUME NEW h \in Index, j < h, Issued(h) PROVE ~Writes(h, trace[head].r_in[k])
  <2>1. h < head
    BY <1>3, HeadIsOldest DEF Index
  <2> QED BY <1>3, <2>1 DEF Produces
<1> QED
  BY <1>2, <1>3 DEF LastWriter, Produces

\* Filling a free station adds its instruction to those held.
LEMMA StationFilled ==
  ASSUME NEW D, NEW f \in [D -> Index \cup {NULL}], NEW i \in DOMAIN f, f[i] = NULL,
         NEW h \in Index
  PROVE  Held([f EXCEPT ![i] = h]) = Held(f) \cup {h}
<1>1. \A p : p \in Held([f EXCEPT ![i] = h]) <=> p \in Held(f) \cup {h}
  BY DEF Held, Index, NULL
<1> QED
  BY <1>1

LEMMA RawDispatch ==
  ASSUME TypeInv, RawInv, dispatch_To_issue
  PROVE  RawInv'
<1> USE DEF RawInv, TypeInv
<1>0. /\ trace' = trace /\ cycle' = cycle /\ stage = "dispatch"
      /\ UNCHANGED <<fuINT, fuFP, commonDataBus, fetch_index, tom_execute_cycle, tom_cdb_cycle>>
  BY DEF dispatch_To_issue, unitVars
<1>1. CASE /\ HeadStays
           /\ UNCHANGED <<queueVars, reservINT, reservFP, Q, map_table, tom_issue_cycle>>
  <2>1. UNCHANGED <<instr_queue, instr_queue_size, reservINT, reservFP, Q, map_table,
                    tom_issue_cycle>>
    BY <1>1 DEF queueVars
  <2>2. Unissued' /\ InOrder' /\ QueueOrdered' /\ QueueComplete'
    BY <1>0, <2>1, ProgramStays DEF Unissued, InOrder, QueueOrdered, QueueComplete, Issued
  <2>3. StationsHold' /\ BusHolds' /\ MapNames' /\ TagsName' /\ RawResolved'
    BY <1>0, <2>1, ProgramStays DEF StationsHold, BusHolds, MapNames, TagsName,
                                    RawResolved, Issued, LastWriter, Out, Listeners
  <2> QED
    BY <1>0, <2>2, <2>3, ProgramStays
<1>2. CASE Issues /\ tom_issue_cycle' = [tom_issue_cycle EXCEPT ![head] = cycle]
  <2>0. PICK h \in Index : h = head
    BY <1>0, <1>2, HeadIsOldest DEF Issues, IssueControl, IssueINT, IssueFP
  <2>1. /\ h <= fetch_index /\ ~IS_TRAP(op(h)) /\ ~Issued(h)
        /\ \A q \in Index : q < h /\ ~IS_TRAP(op(q)) => Issued(q)
        /\ \A q \in Index : q > h => ~Issued(q)
        /\ head # NULL /\ instr_queue_size > 0
    BY <1>0, <2>0, HeadIsOldest, HeadIsQueued DEF Index, NULL
  <2>2. Issued(h)' /\ \A q \in Index : q # h => (Issued(q)' <=> Issued(q))
    BY <1>2, <2>0, IndexIsAllocated DEF Issued, TypeOK
  <2>3. \A q \in Index : Out(q)' <=> Out(q)
    BY <1>0 DEF Out
  <2>4. /\ instr_queue_size' = instr_queue_size - 1
        /\ \A i \in 0 .. instr_queue_size - 2 : instr_queue'[i] = instr_queue[i + 1]
    <3>1. tmPopInsQueue
      BY <1>2 DEF Issues, IssueControl, IssueINT, IssueFP
    <3>2. /\ instr_queue \in [0 .. INSTR_QUEUE_SIZE - 1 -> Pointers \cup {NULL}]
          /\ instr_queue_size \in 1 .. INSTR_QUEUE_SIZE
      BY <2>1 DEF TypeOK
    <3> QED
      BY <3>1, <3>2, SizesAssumption DEF tmPopInsQueue
  <2>5. Unissued'
    BY <1>0, <2>1, <2>2, TraceAssumption DEF Unissued, TypeOK, Index
  <2>6. InOrder'
    BY <1>0, <2>1, <2>2, ProgramStays DEF InOrder
  <2>7. QueueOrdered'
    <3>0. 1 .. fetch_index \subseteq Index
      BY TraceAssumption DEF TypeOK, Index
    <3>1. ASSUME NEW i \in 0 .. instr_queue_size - 2
          PROVE  /\ instr_queue'[i] \in 1 .. fetch_index /\ instr_queue'[i] \in Index
                 /\ trace'[instr_queue'[i]].op # "trap"
                 /\ ~(tom_issue_cycle'[instr_queue'[i]] > 0)
      <4>1. i + 1 \in 0 .. instr_queue_size - 1 /\ 0 \in 0 .. instr_queue_size - 1 /\ 0 < i + 1
        BY DEF TypeOK
      <4>2. /\ instr_queue[i + 1] \in 1 .. fetch_index
            /\ ~IS_TRAP(op(instr_queue[i + 1])) /\ ~Issued(instr_queue[i + 1])
            /\ instr_queue[0] < instr_queue[i + 1]
        BY <4>1 DEF QueueOrdered
      <4>3. instr_queue[i + 1] \in Index /\ instr_queue[i + 1] # h
        BY <2>0, <3>0, <4>2 DEF head, Index
      <4>4. trace[instr_queue[i + 1]].op # "trap"
        BY <4>2, <4>3 DEF op, IS_TRAP
      <4>5. ~(tom_issue_cycle'[instr_queue[i + 1]] > 0)
        BY <2>2, <4>2, <4>3 DEF Issued
      <4> QED BY <1>0, <2>4, <4>2, <4>3, <4>4, <4>5
    <3>2. ASSUME NEW i \in 0 .. instr_queue_size - 2, NEW j \in 0 .. instr_queue_size - 2, i < j
          PROVE  instr_queue'[i] < instr_queue'[j]
      <4>1. /\ i + 1 \in 0 .. instr_queue_size - 1 /\ j + 1 \in 0 .. instr_queue_size - 1
            /\ i + 1 < j + 1
        BY <3>2 DEF TypeOK
      <4> QED BY <2>4, <4>1 DEF QueueOrdered
    <3>3. instr_queue_size' - 1 = instr_queue_size - 2
      BY <2>4 DEF TypeOK
    <3> QED BY <1>0, <3>1, <3>2, <3>3 DEF QueueOrdered, Issued, op, IS_TRAP
  <2>8. QueueComplete'
    <3>0. instr_queue_size' - 1 = instr_queue_size - 2 /\ 1 .. fetch_index \subseteq Index
      BY <2>4, TraceAssumption DEF TypeOK, Index
    <3> SUFFICES ASSUME NEW q \in 1 .. fetch_index, ~IS_TRAP(op(q)), ~Issued(q), q # h
                 PROVE  \E i \in 0 .. instr_queue_size - 2 : instr_queue'[i] = q
      BY <1>0, <2>2, <3>0, ProgramStays DEF QueueComplete
    <3>1. PICK i \in 0 .. instr_queue_size - 1 : instr_queue[i] = q
      BY DEF QueueComplete
    <3>2. i # 0
      BY <2>0, <3>1 DEF head
    <3>3. i - 1 \in 0 .. instr_queue_size - 2 /\ i = (i - 1) + 1
      BY <3>2 DEF TypeOK
    <3> QED BY <2>4, <3>1, <3>3
  <2>9. BusHolds'
    BY <1>0, <2>1, <2>2 DEF BusHolds, TypeOK
  <2>10. StationsHold' /\ Listeners' \subseteq Listeners \cup {h}
    <3>1. /\ \/ reservINT' = reservINT
             \/ \E i \in DOMAIN reservINT : reservINT[i] = NULL /\ reservINT' = [reservINT EXCEPT ![i] = h]
          /\ \/ reservFP' = reservFP
             \/ \E i \in DOMAIN reservFP : reservFP[i] = NULL /\ reservFP' = [reservFP EXCEPT ![i] = h]
      <4>1. /\ Free(reservINT) # {} => FirstFree(Free(reservINT)) \in Free(reservINT)
            /\ Free(reservFP) # {} => FirstFree(Free(reservFP)) \in Free(reservFP)
        <5>1. Free(reservINT) \in SUBSET Nat /\ Free(reservFP) \in SUBSET Nat
          BY SizesAssumption DEF Free, TypeOK
        <5> QED BY <5>1, FirstFreeIsLeast
      <4> QED BY <1>2, <2>0, <4>1 DEF Issues, IssueControl, IssueINT, IssueFP, Free
    <3>2. /\ Held(reservINT) \subseteq Held(reservINT)'
          /\ Held(reservINT)' \subseteq Held(reservINT) \cup {h}
          /\ Held(reservFP) \subseteq Held(reservFP)'
          /\ Held(reservFP)' \subseteq Held(reservFP) \cup {h}
      <4>1. /\ reservINT \in [0 .. RESERV_INT_SIZE - 1 -> Index \cup {NULL}]
            /\ reservFP \in [0 .. RESERV_FP_SIZE - 1 -> Index \cup {NULL}]
        BY DEF TypeOK
      <4>2. \A i \in DOMAIN reservINT : reservINT[i] = NULL
              => Held([reservINT EXCEPT ![i] = h]) = Held(reservINT) \cup {h}
        BY <4>1, StationFilled
      <4>3. \A i \in DOMAIN reservFP : reservFP[i] = NULL
              => Held([reservFP EXCEPT ![i] = h]) = Held(reservFP) \cup {h}
        BY <4>1, StationFilled
      <4>4. Held(reservINT)' = Held(reservINT') /\ Held(reservFP)' = Held(reservFP')
        BY DEF Held
      <4>5. Held(reservINT') \in {Held(reservINT), Held(reservINT) \cup {h}}
        BY <3>1, <4>2
      <4>6. Held(reservFP') \in {Held(reservFP), Held(reservFP) \cup {h}}
        BY <3>1, <4>3
      <4> QED BY <4>4, <4>5, <4>6
    <3>3. tom_cdb_cycle[h] <= 0
      BY <2>1 DEF Unissued
    <3> QED
      BY <1>0, <2>2, <3>2, <3>3, HeldType DEF StationsHold, Listeners, TypeOK
  <2>11. CASE IssueControl
    <3>1. UNCHANGED <<reservINT, reservFP, Q, map_table>> /\ \A r : ~Writes(h, r)
      BY <2>0, <2>11 DEF IssueControl, Writes, IS_CTRL, WRITES_CDB
    <3>2. MapNames'
      BY <1>0, <2>2, <2>3, <3>1, ProgramStays DEF MapNames, LastWriter
    <3>3. TagsName'
      BY <1>0, <2>3, <3>1, ProgramStays DEF TagsName, Listeners
    <3> QED
      BY <1>0, <2>5, <2>6, <2>7, <2>8, <2>9, <2>10, <3>2, <3>3, ProgramStays DEF RawResolved
  <2>12. CASE Rename
    <3>1. \A r \in Regs : map_table'[r] = IF Writes(h, r) THEN h ELSE map_table[r]
      BY <2>0, <2>12 DEF Rename, Writes
    <3>2. \A q \in Index : q # h => Q'[q] = Q[q]
      BY <2>0, <2>12, IndexIsAllocated DEF Rename, TypeOK
    <3>3. \A k \in 1 .. 3 : trace[h].r_in[k] \in Regs
                              => Q'[h][k] = map_table[trace[h].r_in[k]]
      BY <2>0, <2>12, IndexIsAllocated DEF Rename, TypeOK
    <3>4. MapNames'
      <4> SUFFICES ASSUME NEW r \in Regs, NEW j \in Index, LastWriter(j, r)'
                   PROVE  map_table'[r] = j \/ (map_table'[r] = NULL /\ Out(j))
        BY <1>0, <2>3 DEF MapNames
      <4>1. Writes(j, r) /\ (j = h \/ Issued(j))
        BY <1>0, <2>2, ProgramStays DEF LastWriter
      <4>2. CASE j = h
        BY <3>1, <4>1, <4>2
      <4>3. CASE j # h
        <5>1. j < h
          BY <2>1, <4>1, <4>3 DEF Index
        <5>2. ~Writes(h, r)
          BY <1>0, <2>2, <5>1, ProgramStays DEF LastWriter
        <5>3. LastWriter(j, r)
          BY <1>0, <2>1, <2>2, <4>1, <4>3, ProgramStays DEF LastWriter
        <5> QED BY <3>1, <5>2, <5>3 DEF MapNames
      <4> QED BY <4>2, <4>3
    <3>5. TagsName'
      <4> SUFFICES ASSUME NEW i \in Listeners \cup {h}, NEW j \in Index, NEW k \in 1 .. 3,
                          Produces(j, i, k)
                   PROVE  Q'[i][k] = j \/ (Q'[i][k] = NULL /\ Out(j))
        BY <1>0, <2>3, <2>10, ProgramStays DEF TagsName
      <4>1. CASE i = h
        <5>1. LastWriter(j, trace[h].r_in[k]) /\ trace[h].r_in[k] \in Regs
          BY <1>0, <2>0, <2>1, <4>1, ProducerIsLastWriter DEF Produces
        <5> QED BY <3>3, <4>1, <5>1 DEF MapNames
      <4>2. CASE i # h
        <5>1. i \in Listeners /\ i \in Index
          BY <4>2, HeldType DEF Listeners, TypeOK
        <5> QED BY <3>2, <4>2, <5>1 DEF TagsName
      <4> QED BY <4>1, <4>2
    <3> QED
      BY <1>0, <2>5, <2>6, <2>7, <2>8, <2>9, <2>10, <3>4, <3>5, ProgramStays DEF RawResolved
  <2> QED
    BY <1>2, <2>11, <2>12 DEF Issues, IssueINT, IssueFP
<1> QED
  BY <1>1, <1>2 DEF dispatch_To_issue

LEMMA RawEnd ==
  ASSUME TypeInv, RawInv, EndCycle
  PROVE  RawInv'
<1> USE DEF RawInv, TypeInv
<1>0. /\ trace' = trace /\ cycle' = cycle + 1 /\ cycle \in Nat
      /\ UNCHANGED <<instr_queue, instr_queue_size, reservINT, reservFP, fuINT, fuFP,
                     commonDataBus, map_table, fetch_index, Q, tom_issue_cycle,
                     tom_execute_cycle, tom_cdb_cycle>>
  BY DEF EndCycle, queueVars, unitVars, TypeOK
<1>1. \A j \in Index : Out(j) => Out(j)'
  BY <1>0, OutStays DEF Out
<1>2. Unissued' /\ InOrder' /\ QueueOrdered' /\ QueueComplete'
  BY <1>0, ProgramStays DEF Unissued, InOrder, QueueOrdered, QueueComplete, Issued
<1>3. StationsHold' /\ RawResolved'
  BY <1>0, ProgramStays DEF StationsHold, Listeners, Issued, RawResolved
<1>4. BusHolds'
  BY <1>0 DEF BusHolds, Issued
<1>5. MapNames' /\ TagsName'
  BY <1>0, <1>1, ProgramStays DEF MapNames, TagsName, LastWriter, Listeners, Issued
<1> QED
  BY <1>0, <1>2, <1>3, <1>4, <1>5, ProgramStays

LEMMA RawStep == TypeInv /\ RawInv /\ [Next]_vars => RawInv'
<1> SUFFICES ASSUME TypeInv, RawInv, [Next]_vars PROVE RawInv'
  OBVIOUS
<1>1. CASE runTomasulo
  BY <1>1, RawRetire, RawExecute, RawIssue, RawFetch, RawDispatch, RawEnd DEF runTomasulo
<1>2. CASE UNCHANGED vars
  BY <1>2, ProgramStays
     DEF vars, RawInv, Unissued, InOrder, QueueOrdered, QueueComplete, StationsHold,
         BusHolds, MapNames, TagsName, RawResolved, Issued, LastWriter, Out, Listeners
<1> QED
  BY <1>1, <1>2 DEF Next, Stopped

LEMMA RawInvariant == Spec /\ NoTrailingTrap => [](TypeInv /\ RawInv)
<1>1. Init /\ NoTrailingTrap => TypeInv /\ RawInv
  BY TypeInit, RawInit
<1>2. (TypeInv /\ RawInv) /\ [Next]_vars => (TypeInv /\ RawInv)'
  BY TypeStep, RawStep
<1> QED
  BY <1>1, <1>2, PTL DEF Spec

\* "All RAW dependences need to have been resolved with stalls before an
\* instruction enters execute", for any sizes, latencies and trace that ends
\* in an instruction fetch can find.
THEOREM DependencesResolved == Spec /\ NoTrailingTrap => []RawResolved
<1>1. TypeInv /\ RawInv => RawResolved
  BY DEF RawInv
<1> QED
  BY RawInvariant, <1>1, PTL

\* The queue is the window between the youngest issued and the youngest
\* fetched instruction, whatever tmPopInsQueue leaves in the slots behind it:
\* nothing is issued twice, out of order, or never.
THEOREM QueueCorrect == Spec /\ NoTrailingTrap => []QueueIsTheWindow
<1>1. TypeInv /\ RawInv => QueueIsTheWindow
  <2> SUFFICES ASSUME TypeInv, RawInv PROVE QueueIsTheWindow
    OBVIOUS
  <2>1. Queued = {p \in 1 .. fetch_index : ~IS_TRAP(op(p)) /\ ~Issued(p)}
    <3>1. ASSUME NEW p \in Queued
          PROVE  p \in 1 .. fetch_index /\ ~IS_TRAP(op(p)) /\ ~Issued(p)
      BY DEF Queued, RawInv, QueueOrdered
    <3>2. ASSUME NEW p \in 1 .. fetch_index, ~IS_TRAP(op(p)), ~Issued(p)
          PROVE  p \in Queued
      BY <3>2 DEF Queued, RawInv, QueueComplete
    <3> QED BY <3>1, <3>2
  <2> QED
    BY <2>1, HeadIsQueued DEF QueueIsTheWindow, RawInv, QueueOrdered
<1> QED
  BY RawInvariant, <1>1, PTL

-----------------------------------------------------------------------------
(***************************************************************************)
(* Map table, tags and units: TagInv is inductive given TypeInv and RawInv. *)
(***************************************************************************)

LEMMA TagInit == Init => TagInv
<1> SUFFICES ASSUME Init PROVE TagInv
  OBVIOUS
<1>1. Listeners = {} /\ Held(fuINT) = {} /\ Held(fuFP) = {}
      /\ Held(reservINT) = {} /\ Held(reservFP) = {}
  BY DEF Init, Listeners, Held
<1>2. MapExact /\ TagsExact /\ StationClasses
  BY <1>1 DEF Init, MapExact, TagsExact, StationClasses
<1>3. NoTagsYet /\ MarkedUnstarted
  BY IndexIsAllocated DEF Init, NoTagsYet, MarkedUnstarted
<1>4. UnitsMatchStations
  BY <1>1 DEF Init, UnitsMatchStations
<1> QED
  BY <1>2, <1>3, <1>4 DEF TagInv

\* The broadcast clears the tags of the one instruction that leaves the bus.
LEMMA TagRetire ==
  ASSUME TypeInv, RawInv, TagInv, CDB_To_retire
  PROVE  TagInv'
<1> USE DEF TagInv, TypeInv
<1>0. /\ trace' = trace
      /\ UNCHANGED <<fetch_index, reservINT, reservFP, fuINT, fuFP, tom_issue_cycle,
                     tom_execute_cycle>>
  BY DEF CDB_To_retire, unitVars
<1>1. Listeners' = Listeners /\ Listeners \subseteq Index
  BY <1>0, HeldType DEF Listeners, TypeOK
<1>2. StationClasses' /\ MarkedUnstarted' /\ UnitsMatchStations'
  BY <1>0, ProgramStays DEF StationClasses, MarkedUnstarted, UnitsMatchStations
<1>3. /\ \A r \in Regs : map_table'[r] \in {map_table[r], NULL}
      /\ \A i \in Index : \A k \in 1 .. 3 : Q'[i][k] \in {Q[i][k], NULL}
      /\ \A r \in Regs : map_table'[r] # NULL => map_table'[r] # commonDataBus \/ commonDataBus' = commonDataBus
      /\ \A i \in Listeners : \A k \in 1 .. 3 :
           Q'[i][k] # NULL => Q'[i][k] # commonDataBus \/ commonDataBus' = commonDataBus
      /\ commonDataBus' \in {commonDataBus, NULL}
  <2>1. CASE ~BusExpired
    BY <2>1, <1>1 DEF CDB_To_retire
  <2>2. CASE BusExpired
    <3>1. \A r \in Regs : map_table'[r] = IF map_table[r] = commonDataBus THEN NULL ELSE map_table[r]
      BY <2>2 DEF CDB_To_retire, ClearedMapTable, Release, TypeOK
    <3>2. ASSUME NEW i \in Index, NEW k \in 1 .. 3
          PROVE  Q'[i][k] = IF i \in Listeners /\ Q[i][k] = commonDataBus THEN NULL ELSE Q[i][k]
      <4>1. Q'[i] = IF i \in Listeners THEN Release(Q[i], {commonDataBus}) ELSE Q[i]
        BY <2>2, IndexIsAllocated DEF CDB_To_retire
      <4>2. Q[i] \in [1 .. 3 -> Index \cup {NULL}]
        BY IndexIsAllocated DEF TypeOK
      <4> QED BY <4>1, <4>2, ReleaseType
    <3>3. commonDataBus' = NULL
      BY <2>2 DEF CDB_To_retire
    <3> QED BY <1>1, <3>1, <3>2, <3>3
  <2> QED BY <2>1, <2>2
<1>4. InFlight' = InFlight \/ (commonDataBus' = NULL /\ InFlight \subseteq InFlight' \cup {commonDataBus})
  BY <1>0, <1>3 DEF InFlight
<1>5. NoTagsYet'
  BY <1>0, <1>3 DEF NoTagsYet, Issued
<1>6. MapExact'
  BY <1>0, <1>3, <1>4, ProgramStays DEF MapExact, LastWriter, Issued, InFlight
<1>7. TagsExact'
  <2> SUFFICES ASSUME NEW i \in Listeners, NEW k \in 1 .. 3, Q'[i][k] # NULL
               PROVE  Q'[i][k] \in InFlight' /\ Produces(Q'[i][k], i, k)
    BY <1>0, <1>1, ProgramStays DEF TagsExact
  <2> QED BY <1>1, <1>3, <1>4 DEF TagsExact, InFlight
<1> QED
  BY <1>2, <1>5, <1>6, <1>7

\* What leaves a station without the bus writes no result, so nothing names it.
LEMMA TagExecute ==
  ASSUME TypeInv, RawInv, TagInv, execute_To_CDB
  PROVE  TagInv'
<1> USE DEF TagInv, TypeInv
<1> DEFINE winner == IF commonDataBus = NULL THEN Oldest(BusCandidates) ELSE NULL
           gone   == Leaving \cup ({winner} \ {NULL})
<1>0. /\ trace' = trace
      /\ UNCHANGED <<fetch_index, map_table, Q, tom_issue_cycle, tom_execute_cycle>>
      /\ commonDataBus' = IF winner = NULL THEN commonDataBus ELSE winner
      /\ fuINT' = Release(fuINT, gone)
      /\ fuFP'  = Release(fuFP, {winner} \ {NULL})
      /\ reservINT' = Release(reservINT, gone)
      /\ reservFP'  = Release(reservFP, {winner} \ {NULL})
  BY DEF execute_To_CDB
<1>1. winner # NULL => commonDataBus = NULL
  OBVIOUS
<1>2. \A p \in Leaving : ~WRITES_CDB(op(p))
  BY DEF Leaving
<1> HIDE DEF winner
<1>3. /\ Held(fuINT)' = Held(fuINT) \ gone /\ Held(fuFP)' = Held(fuFP) \ {winner}
      /\ Held(reservINT)' = Held(reservINT) \ gone
      /\ Held(reservFP)' = Held(reservFP) \ {winner}
  BY <1>0 DEF Held, Release, TypeOK
<1>4. InFlight \subseteq InFlight' \cup Leaving
  <2>1. NULL \notin Held(reservINT) \cup Held(reservFP)
    BY DEF Held
  <2> QED BY <1>0, <1>1, <1>3, <2>1 DEF InFlight
<1>5. Listeners' \subseteq Listeners /\ Listeners \subseteq Index
  BY <1>3, HeldType DEF Listeners, TypeOK
<1>6. NoTagsYet' /\ MarkedUnstarted'
  BY <1>0, ProgramStays DEF NoTagsYet, MarkedUnstarted, Issued
<1>7. MapExact'
  BY <1>0, <1>2, <1>4, ProgramStays DEF MapExact, LastWriter, Writes, Issued
<1>8. TagsExact'
  BY <1>0, <1>2, <1>4, <1>5, ProgramStays DEF TagsExact, Produces, Writes
<1>9. StationClasses'
  BY <1>0, <1>3, ProgramStays DEF StationClasses
<1>10. UnitsMatchStations'
  <2>1. /\ Held(fuINT)' = {p \in Held(reservINT)' : tom_execute_cycle'[p] > 0}
        /\ Held(fuFP)'  = {p \in Held(reservFP)' : tom_execute_cycle'[p] > 0}
    BY <1>0, <1>3 DEF UnitsMatchStations
  <2>2. \A i, j \in DOMAIN fuINT' : fuINT'[i] = fuINT'[j] => i = j \/ fuINT'[i] = NULL
    BY <1>0 DEF UnitsMatchStations, Release
  <2> QED BY <2>1, <2>2 DEF UnitsMatchStations
<1> QED
  BY <1>6, <1>7, <1>8, <1>9, <1>10

\* What starts is ready and had not started: it is in one unit.
LEMMA TagIssue ==
  ASSUME TypeInv, RawInv, TagInv, issue_To_execute
  PROVE  TagInv'
<1> USE DEF TagInv, TypeInv
<1> DEFINE
      fp_next  == IF fuFP[0] = NULL THEN Oldest(ReadyFP) ELSE NULL
      first    == FirstFree(Free(fuINT))
      second   == FirstFree(Free(fuINT) \ {first})
      oldest   == Oldest(ReadyINT)
      next0    == IF first = -1 THEN NULL ELSE oldest
      next1    == IF second = -1 THEN NULL ELSE Oldest(ReadyINT \ {oldest})
      started  == {fp_next, next0, next1} \ {NULL}
<1>0. /\ trace' = trace /\ cycle' = cycle
      /\ UNCHANGED <<fetch_index, reservINT, reservFP, commonDataBus, map_table, Q,
                     tom_issue_cycle>>
      /\ fuFP' = [fuFP EXCEPT ![0] = IF fp_next = NULL THEN @ ELSE fp_next]
      /\ fuINT' = [i \in DOMAIN fuINT |-> CASE i = first  -> next0
                                            [] i = second -> next1
                                            [] OTHER      -> fuINT[i]]
      /\ tom_execute_cycle' = [p \in Pointers |->
                                 IF p \in started THEN cycle ELSE tom_execute_cycle[p]]
  BY DEF issue_To_execute
<1>1. ReadyFP \in SUBSET Index /\ ReadyINT \in SUBSET Index
  BY HeldType DEF TypeOK, ReadyFP, ReadyINT
<1>2. /\ fp_next \in ReadyFP \cup {NULL}
      /\ next0 \in ReadyINT \cup {NULL}
      /\ next1 \in ReadyINT \cup {NULL}
      /\ next1 # NULL => next0 # next1
  <2>1. /\ oldest \in ReadyINT \cup {NULL}
        /\ Oldest(ReadyINT \ {oldest}) \in (ReadyINT \ {oldest}) \cup {NULL}
    BY <1>1, OldestType
  <2>2. Oldest(ReadyFP) \in ReadyFP \cup {NULL}
    BY <1>1, OldestType
  <2>3. NULL \notin ReadyINT
    BY <1>1 DEF Index, NULL
  <2>4. next1 # NULL => next1 # oldest /\ next1 \in ReadyINT
    BY <2>1
  <2> QED BY <2>1, <2>2, <2>3, <2>4
<1>3. fp_next # NULL => fuFP[0] = NULL
  OBVIOUS
<1>4. Free(fuINT) \in SUBSET Nat
  BY SizesAssumption DEF Free, TypeOK
<1>5. /\ next0 # NULL => first \in Free(fuINT)
      /\ next1 # NULL => second \in Free(fuINT) /\ second # first
      /\ first \in Free(fuINT) \/ first = -1
      /\ second \in Free(fuINT) \/ second = -1
      /\ first # second \/ second = -1
  BY <1>4, FirstFreeIsLeast DEF FirstFree
<1> HIDE DEF fp_next, first, second, next0, next1, oldest
<1>6. MapExact' /\ TagsExact' /\ NoTagsYet' /\ StationClasses'
  BY <1>0, ProgramStays DEF MapExact, TagsExact, NoTagsYet, StationClasses, LastWriter,
                            Issued, InFlight, Listeners
<1>7. MarkedUnstarted'
  BY <1>0, TraceAssumption, IndexIsAllocated, ProgramStays
     DEF MarkedUnstarted, RawInv, TypeOK, Index
<1>8. Held(reservINT) \subseteq Index /\ Held(reservFP) \subseteq Index
  BY HeldType DEF TypeOK
<1>9. /\ {next0, next1} \ {NULL} \subseteq Held(reservINT)
      /\ {fp_next} \ {NULL} \subseteq Held(reservFP)
      /\ \A p \in Held(reservINT) : p \notin Held(reservFP)
  BY <1>2 DEF ReadyINT, ReadyFP, StationClasses, USES_INT_FU, USES_FP_FU
<1>10. \A p \in Index : tom_execute_cycle'[p] > 0
                          <=> p \in started \/ tom_execute_cycle[p] > 0
  <2> HIDE DEF started
  <2> QED BY <1>0, IndexIsAllocated DEF RawInv, TypeOK
<1>11. {next0, next1} \cap Held(fuINT) = {}
  <2>1. \A p \in Held(fuINT) : tom_execute_cycle[p] > 0 /\ p # NULL
    BY DEF UnitsMatchStations, Held
  <2> QED BY <1>2, <2>1 DEF ReadyINT
<1>12. Held(fuINT') = Held(fuINT) \cup ({next0, next1} \ {NULL})
  <2>1. ASSUME NEW p, p \in Held(fuINT) PROVE p \in Held(fuINT')
    <3>1. PICK i \in DOMAIN fuINT : fuINT[i] = p /\ p # NULL
      BY <2>1 DEF Held
    <3>2. i # first /\ i # second
      BY <1>5, <3>1 DEF Free, TypeOK
    <3>3. fuINT'[i] = fuINT[i] /\ i \in DOMAIN fuINT'
      BY <1>0, <3>1, <3>2
    <3> QED BY <3>1, <3>3 DEF Held
  <2>2. next0 # NULL => next0 \in Held(fuINT')
    <3>1. next0 # NULL => first \in DOMAIN fuINT' /\ fuINT'[first] = next0
      BY <1>0, <1>4, <1>5 DEF Free
    <3> QED BY <3>1 DEF Held
  <2>3. next1 # NULL => next1 \in Held(fuINT')
    <3>1. next1 # NULL => second \in DOMAIN fuINT' /\ fuINT'[second] = next1
      BY <1>0, <1>4, <1>5 DEF Free
    <3> QED BY <3>1 DEF Held
  <2>4. ASSUME NEW p, p \in Held(fuINT')
        PROVE  p \in Held(fuINT) \cup ({next0, next1} \ {NULL})
    BY <1>0, <2>4 DEF Held
  <2> QED BY <2>1, <2>2, <2>3, <2>4
<1>13. Held(fuFP') = Held(fuFP) \cup ({fp_next} \ {NULL})
  <2>1. CASE fp_next = NULL
    <3>1. fuFP' = fuFP
      BY <1>0, <2>1 DEF TypeOK
    <3> QED BY <2>1, <3>1
  <2>2. CASE fp_next # NULL
    <3>1. fuFP' = [fuFP EXCEPT ![0] = fp_next] /\ fp_next \in Index
      BY <1>0, <1>1, <1>2, <2>2
    <3>2. 0 \in DOMAIN fuFP /\ fuFP \in [0 .. FU_FP_SIZE - 1 -> Index \cup {NULL}]
      BY SizesAssumption DEF TypeOK
    <3>3. Held([fuFP EXCEPT ![0] = fp_next]) = Held(fuFP) \cup {fp_next}
      BY <1>3, <2>2, <3>1, <3>2, StationFilled
    <3> QED BY <2>2, <3>1, <3>3
  <2> QED BY <2>1, <2>2
<1>14. ASSUME NEW i \in DOMAIN fuINT', NEW j \in DOMAIN fuINT', fuINT'[i] = fuINT'[j],
              fuINT'[i] # NULL
       PROVE  i = j
  <2>1. i \in DOMAIN fuINT /\ j \in DOMAIN fuINT
    BY <1>0
  <2>2. \A n \in DOMAIN fuINT : fuINT'[n] # NULL =>
          \/ n = first /\ fuINT'[n] = next0
          \/ n = second /\ fuINT'[n] = next1
          \/ fuINT'[n] = fuINT[n] /\ fuINT[n] \in Held(fuINT)
    BY <1>0 DEF Held
  <2> QED BY <1>2, <1>11, <1>14, <2>1, <2>2 DEF UnitsMatchStations
<1>15. UnitsMatchStations'
  <2>1. Held(fuINT') = {p \in Held(reservINT) : tom_execute_cycle'[p] > 0}
    BY <1>8, <1>9, <1>10, <1>12 DEF UnitsMatchStations
  <2>2. Held(fuFP') = {p \in Held(reservFP) : tom_execute_cycle'[p] > 0}
    BY <1>8, <1>9, <1>10, <1>13 DEF UnitsMatchStations
  <2> QED BY <1>0, <1>14, <2>1, <2>2 DEF UnitsMatchStations
<1> QED
  BY <1>6, <1>7, <1>15

\* What is fetched has a clean slate and waits in the queue.
LEMMA TagFetch ==
  ASSUME TypeInv, RawInv, TagInv, fetch_To_dispatch
  PROVE  TagInv'
<1> USE DEF TagInv, TypeInv
<1>1. CASE FetchNothing \/ FetchCrash
  <2>1. /\ trace' = trace
        /\ UNCHANGED <<reservINT, reservFP, fuINT, fuFP, commonDataBus, map_table,
                       fetch_index, Q, tom_issue_cycle, tom_execute_cycle>>
    BY <1>1 DEF FetchNothing, FetchCrash, unitVars
  <2>2. NoTagsYet' /\ MapExact' /\ TagsExact'
    BY <2>1, ProgramStays DEF NoTagsYet, MapExact, TagsExact, LastWriter, Issued, InFlight,
                              Listeners
  <2>3. StationClasses' /\ MarkedUnstarted' /\ UnitsMatchStations'
    BY <2>1, ProgramStays DEF StationClasses, MarkedUnstarted, UnitsMatchStations
  <2> QED BY <2>2, <2>3
<1>2. ASSUME NEW p \in Pointers, Fetch(p) PROVE TagInv'
  <2>0. /\ trace' = trace
        /\ UNCHANGED <<reservINT, reservFP, fuINT, fuFP, commonDataBus, map_table, Q>>
        /\ tom_issue_cycle'   = [tom_issue_cycle EXCEPT ![p] = -1]
        /\ tom_execute_cycle' = [tom_execute_cycle EXCEPT ![p] = -1]
    BY <1>2 DEF Fetch, unitVars
  <2>1. /\ p \in Index /\ p > fetch_index /\ ~IS_TRAP(op(p)) /\ fetch_index' = p
        /\ \A q \in Index : q > fetch_index /\ q < p => IS_TRAP(op(q))
    BY <1>2, FetchFindsInstruction DEF RawInv
  <2>2. ~Issued(p) /\ ~(tom_execute_cycle[p] > 0)
    BY <2>1, IndexIsAllocated DEF RawInv, Unissued, TypeOK
  <2>3. \A q \in Index : /\ Issued(q)' <=> Issued(q)
                         /\ tom_execute_cycle'[q] > 0 <=> tom_execute_cycle[q] > 0
                         /\ q # p => tom_execute_cycle'[q] = tom_execute_cycle[q]
                         /\ q = p => tom_execute_cycle'[q] = -1
    BY <2>0, <2>1, <2>2, IndexIsAllocated DEF TypeOK, Issued
  <2>4. Held(reservINT) \subseteq Index /\ Held(reservFP) \subseteq Index
    BY HeldType DEF TypeOK
  <2>5. NoTagsYet' /\ StationClasses'
    BY <2>0, <2>3, ProgramStays DEF NoTagsYet, StationClasses
  <2>6. MapExact'
    BY <2>0, <2>3, ProgramStays DEF MapExact, LastWriter, InFlight, TypeOK
  <2>7. TagsExact'
    BY <2>0, ProgramStays DEF TagsExact, InFlight, Listeners
  <2>8. MarkedUnstarted'
    <3> SUFFICES ASSUME NEW q \in 1 .. p
                 PROVE  IS_TRAP(op(q)) \/ tom_execute_cycle'[q] = -1 \/ tom_execute_cycle'[q] > 0
      BY <2>0, <2>1, ProgramStays DEF MarkedUnstarted
    <3>1. q \in Index /\ (q = p \/ q \in 1 .. fetch_index \/ (q > fetch_index /\ q < p))
      BY <2>1, TraceAssumption DEF Index, TypeOK
    <3> QED BY <2>1, <2>3, <3>1 DEF MarkedUnstarted
  <2>9. UnitsMatchStations'
    BY <2>0, <2>3, <2>4 DEF UnitsMatchStations
  <2> QED BY <2>5, <2>6, <2>7, <2>8, <2>9
<1> QED
  BY <1>1, <1>2 DEF fetch_To_dispatch

\* The station the head takes: it joins those of its class.
LEMMA StationsOfTheHead ==
  ASSUME TypeOK, NEW h \in Index, h = head, Issues
  PROVE  /\ Held(reservINT') = Held(reservINT) \cup (IF USES_INT_FU(op(h)) THEN {h} ELSE {})
         /\ Held(reservFP')  = Held(reservFP) \cup (IF USES_FP_FU(op(h)) THEN {h} ELSE {})
<1>1. /\ reservINT \in [0 .. RESERV_INT_SIZE - 1 -> Index \cup {NULL}]
      /\ reservFP \in [0 .. RESERV_FP_SIZE - 1 -> Index \cup {NULL}]
  BY DEF TypeOK
<1>2. Free(reservINT) \in SUBSET Nat /\ Free(reservFP) \in SUBSET Nat
  BY SizesAssumption DEF Free, TypeOK
<1>3. CASE IssueControl
  BY <1>3 DEF IssueControl, IS_CTRL, USES_INT_FU, USES_FP_FU
<1>4. CASE IssueINT
  <2> DEFINE s == FirstFree(Free(reservINT))
  <2>1. s \in DOMAIN reservINT /\ reservINT[s] = NULL
    BY <1>2, <1>4, FirstFreeIsLeast DEF IssueINT, Free
  <2>2. reservINT' = [reservINT EXCEPT ![s] = h] /\ reservFP' = reservFP
    BY <1>4 DEF IssueINT
  <2> HIDE DEF s
  <2>3. Held([reservINT EXCEPT ![s] = h]) = Held(reservINT) \cup {h}
    <3>1. \A i \in DOMAIN reservINT : reservINT[i] = NULL
            => Held([reservINT EXCEPT ![i] = h]) = Held(reservINT) \cup {h}
      BY <1>1, StationFilled
    <3> QED BY <2>1, <3>1
  <2> QED BY <1>4, <2>2, <2>3 DEF IssueINT, USES_INT_FU, USES_FP_FU
<1>5. CASE IssueFP
  <2> DEFINE s == FirstFree(Free(reservFP))
  <2>1. s \in DOMAIN reservFP /\ reservFP[s] = NULL
    BY <1>2, <1>5, FirstFreeIsLeast DEF IssueFP, Free
  <2>2. reservFP' = [reservFP EXCEPT ![s] = h] /\ reservINT' = reservINT
    BY <1>5 DEF IssueFP
  <2> HIDE DEF s
  <2>3. Held([reservFP EXCEPT ![s] = h]) = Held(reservFP) \cup {h}
    <3>1. \A i \in DOMAIN reservFP : reservFP[i] = NULL
            => Held([reservFP EXCEPT ![i] = h]) = Held(reservFP) \cup {h}
      BY <1>1, StationFilled
    <3> QED BY <2>1, <3>1
  <2> QED BY <1>5, <2>2, <2>3 DEF IssueFP, USES_INT_FU, USES_FP_FU
<1> QED
  BY <1>3, <1>4, <1>5 DEF Issues

\* Renaming: a tag comes from the map table, which named the last writer.
LEMMA TagDispatch ==
  ASSUME TypeInv, RawInv, TagInv, dispatch_To_issue
  PROVE  TagInv'
<1> USE DEF TagInv, TypeInv
<1>0. /\ trace' = trace /\ stage = "dispatch"
      /\ UNCHANGED <<fuINT, fuFP, commonDataBus, fetch_index, tom_execute_cycle>>
  BY DEF dispatch_To_issue, unitVars
<1>1. MarkedUnstarted'
  BY <1>0, ProgramStays DEF MarkedUnstarted
<1>2. CASE /\ HeadStays
           /\ UNCHANGED <<queueVars, reservINT, reservFP, Q, map_table, tom_issue_cycle>>
  <2>1. NoTagsYet' /\ MapExact' /\ TagsExact'
    BY <1>0, <1>2, ProgramStays DEF NoTagsYet, MapExact, TagsExact, LastWriter, Issued,
                                    InFlight, Listeners
  <2>2. StationClasses' /\ UnitsMatchStations'
    BY <1>0, <1>2, ProgramStays DEF StationClasses, UnitsMatchStations
  <2> QED BY <1>1, <2>1, <2>2
<1>3. CASE Issues /\ tom_issue_cycle' = [tom_issue_cycle EXCEPT ![head] = cycle]
  <2>0. PICK h \in Index : h = head
    BY <1>0, <1>3, HeadIsOldest DEF Issues, IssueControl, IssueINT, IssueFP
  <2>1. /\ h <= fetch_index /\ ~IS_TRAP(op(h)) /\ ~Issued(h)
        /\ \A q \in Index : q < h /\ ~IS_TRAP(op(q)) => Issued(q)
        /\ \A q \in Index : q > h => ~Issued(q)
        /\ head # NULL
    BY <1>0, <2>0, HeadIsOldest DEF Index, NULL
  <2>2. Issued(h)' /\ \A q \in Index : q # h => (Issued(q)' <=> Issued(q))
    BY <1>3, <2>0, IndexIsAllocated DEF Issued, TypeOK, RawInv
  <2>3. ~(tom_execute_cycle[h] > 0)
    BY <2>1, IndexIsAllocated DEF RawInv, Unissued, TypeOK
  <2>4. /\ Held(reservINT') = Held(reservINT) \cup (IF USES_INT_FU(op(h)) THEN {h} ELSE {})
        /\ Held(reservFP')  = Held(reservFP) \cup (IF USES_FP_FU(op(h)) THEN {h} ELSE {})
    BY <1>3, <2>0, StationsOfTheHead
  <2>5. StationClasses'
    BY <1>0, <2>4, ProgramStays DEF StationClasses
  <2>6. UnitsMatchStations'
    BY <1>0, <2>3, <2>4 DEF UnitsMatchStations
  <2>7. InFlight \subseteq InFlight'
    BY <1>0, <2>4 DEF InFlight
  <2>8. \A j \in Index : \A r \in Regs :
          LastWriter(j, r) /\ ~Writes(h, r) => LastWriter(j, r)'
    BY <1>0, <2>1, <2>2, ProgramStays DEF LastWriter
  <2>9. CASE IssueControl
    <3>1. /\ UNCHANGED <<reservINT, reservFP, Q, map_table>>
          /\ \A r : ~Writes(h, r)
          /\ ~USES_INT_FU(op(h)) /\ ~USES_FP_FU(op(h))
      BY <2>0, <2>9 DEF IssueControl, Writes, IS_CTRL, WRITES_CDB, USES_INT_FU, USES_FP_FU
    <3>2. NoTagsYet'
      BY <1>0, <2>2, <3>1 DEF NoTagsYet
    <3>3. MapExact'
      BY <1>0, <2>7, <2>8, <3>1 DEF MapExact, TypeOK
    <3>4. TagsExact'
      BY <1>0, <2>7, <3>1, ProgramStays DEF TagsExact, Listeners
    <3> QED BY <1>1, <2>5, <2>6, <3>2, <3>3, <3>4
  <2>10. CASE Rename /\ (USES_INT_FU(op(h)) \/ USES_FP_FU(op(h)))
    <3>1. \A r \in Regs : map_table'[r] = IF Writes(h, r) THEN h ELSE map_table[r]
      BY <2>0, <2>10 DEF Rename, Writes
    <3>2. \A q \in Index : q # h => Q'[q] = Q[q]
      BY <2>0, <2>10, IndexIsAllocated DEF Rename, TypeOK
    <3>3. \A k \in 1 .. 3 : Q'[h][k] = IF trace[h].r_in[k] \in Regs
                                       THEN map_table[trace[h].r_in[k]] ELSE Q[h][k]
      BY <2>0, <2>10, IndexIsAllocated DEF Rename, TypeOK
    <3>4. h \in InFlight'
      BY <2>4, <2>10 DEF InFlight
    <3>5. NoTagsYet'
      BY <2>2, <3>2 DEF NoTagsYet
    <3>6. MapExact'
      <4> SUFFICES ASSUME NEW r \in Regs, map_table'[r] # NULL
                   PROVE  (map_table[r] \in InFlight /\ LastWriter(map_table[r], r))'
        BY DEF MapExact
      <4>1. CASE Writes(h, r)
        <5>1. LastWriter(h, r)'
          BY <1>0, <2>1, <2>2, <4>1, ProgramStays DEF LastWriter, Index
        <5> QED BY <3>1, <3>4, <4>1, <5>1
      <4>2. CASE ~Writes(h, r)
        BY <2>7, <2>8, <3>1, <4>2 DEF MapExact, TypeOK
      <4> QED BY <4>1, <4>2
    <3>7. TagsExact'
      <4> SUFFICES ASSUME NEW i \in Listeners', NEW k \in 1 .. 3, Q'[i][k] # NULL
                   PROVE  Q'[i][k] \in InFlight' /\ Produces(Q'[i][k], i, k)
        BY <1>0, ProgramStays DEF TagsExact
      <4>1. CASE i = h
        <5> DEFINE r == trace[h].r_in[k]
                   j == Q'[h][k]
        <5>1. r \in Regs /\ j = map_table[r] /\ j # NULL
          BY <2>1, <3>3, <4>1 DEF NoTagsYet
        <5>2. j \in InFlight /\ LastWriter(j, r) /\ j \in Index
          BY <5>1 DEF MapExact, TypeOK
        <5> HIDE DEF j, r
        <5>3. j < h
          BY <2>1, <5>2 DEF LastWriter, Index
        <5>4. ASSUME NEW g \in Index, j < g, g < h PROVE ~Writes(g, r)
          <6>1. Writes(g, r) => ~IS_TRAP(op(g))
            BY DEF Writes, WRITES_CDB, IS_TRAP
          <6> QED BY <2>1, <5>2, <5>4, <6>1 DEF LastWriter
        <5> QED BY <2>7, <4>1, <5>1, <5>2, <5>3, <5>4 DEF Produces, LastWriter, j, r
      <4>2. CASE i # h
        <5>1. i \in Listeners
          BY <2>4, <4>2 DEF Listeners
        <5>2. i \in Index
          BY <5>1, HeldType DEF Listeners, TypeOK
        <5> QED BY <2>7, <3>2, <4>2, <5>1, <5>2 DEF TagsExact
      <4> QED BY <4>1, <4>2
    <3> QED BY <1>1, <2>5, <2>6, <3>5, <3>6, <3>7
  <2> QED
    BY <1>3, <2>0, <2>9, <2>10 DEF Issues, IssueINT, IssueFP
<1> QED
  BY <1>2, <1>3 DEF dispatch_To_issue

LEMMA TagStays ==
  ASSUME TagInv, trace' = trace,
         UNCHANGED <<reservINT, reservFP, fuINT, fuFP, commonDataBus, map_table,
                     fetch_index, Q, tom_issue_cycle, tom_execute_cycle>>
  PROVE  TagInv'
<1>1. NoTagsYet' /\ MapExact' /\ TagsExact'
  BY ProgramStays DEF TagInv, NoTagsYet, MapExact, TagsExact, LastWriter, Issued, InFlight,
                      Listeners
<1>2. StationClasses' /\ MarkedUnstarted' /\ UnitsMatchStations'
  BY ProgramStays DEF TagInv, StationClasses, MarkedUnstarted, UnitsMatchStations
<1> QED
  BY <1>1, <1>2 DEF TagInv

LEMMA TagStep == TypeInv /\ RawInv /\ TagInv /\ [Next]_vars => TagInv'
<1> SUFFICES ASSUME TypeInv, RawInv, TagInv, [Next]_vars PROVE TagInv'
  OBVIOUS
<1>1. CASE EndCycle \/ UNCHANGED vars
  BY <1>1, TagStays DEF EndCycle, vars, unitVars
<1>2. CASE runTomasulo
  BY <1>1, <1>2, TagRetire, TagExecute, TagIssue, TagFetch, TagDispatch DEF runTomasulo
<1> QED
  BY <1>1, <1>2 DEF Next, Stopped

LEMMA TagInvariant == Spec /\ NoTrailingTrap => [](TypeInv /\ RawInv /\ TagInv)
<1>1. Init /\ NoTrailingTrap => TypeInv /\ RawInv /\ TagInv
  BY TypeInit, RawInit, TagInit
<1>2. (TypeInv /\ RawInv /\ TagInv) /\ [Next]_vars => (TypeInv /\ RawInv /\ TagInv)'
  BY TypeStep, RawStep, TagStep
<1> QED
  BY <1>1, <1>2, PTL DEF Spec

-----------------------------------------------------------------------------
\* No lost wake-up, for any sizes, latencies and trace that does not end in a
\* trap: what a station or the map table waits for is in flight and will
\* write the bus.
THEOREM TagsNameTheInFlight == Spec /\ NoTrailingTrap => []TagsInFlight
<1>1. TypeInv /\ RawInv /\ TagInv => TagsInFlight
  <2> SUFFICES ASSUME TypeInv, RawInv, TagInv PROVE TagsInFlight
    OBVIOUS
  <2>1. ASSUME NEW t \in Held(map_table) PROVE t \in InFlight /\ WRITES_CDB(op(t))
    BY DEF Held, TagInv, MapExact, LastWriter, Writes, TypeInv, TypeOK
  <2>2. ASSUME NEW p \in Held(reservINT) \cup Held(reservFP), NEW t \in Held(Q[p])
        PROVE  t \in InFlight /\ WRITES_CDB(op(t))
    <3>1. p \in Listeners /\ p \in Pointers
      BY HeldType, IndexIsAllocated DEF Listeners, TypeInv, TypeOK
    <3>2. PICK k \in 1 .. 3 : Q[p][k] = t /\ t # NULL
      BY <3>1 DEF Held, TypeInv, TypeOK
    <3> QED BY <3>1, <3>2 DEF TagInv, TagsExact, Produces, Writes
  <2> QED BY <2>1, <2>2 DEF TagsInFlight
<1> QED
  BY TagInvariant, <1>1, PTL

\* The map table is never stale and never early: for each register it names
\* the youngest issued instruction that writes it exactly while that one is
\* in flight.
THEOREM MapTableCorrect == Spec /\ NoTrailingTrap => []MapTableIsYoungest
<1>1. TypeInv /\ RawInv /\ TagInv => MapTableIsYoungest
  <2> SUFFICES ASSUME TypeInv, RawInv, TagInv,
                      NEW r \in Regs, NEW j \in Index, Issued(j), Writes(j, r),
                      \A h \in Index : h > j /\ Writes(h, r) => ~Issued(h)
               PROVE  map_table[r] = IF j \in InFlight THEN j ELSE NULL
    BY DEF MapTableIsYoungest
  <2>1. LastWriter(j, r)
    BY DEF LastWriter, Index
  <2>2. map_table[r] = j \/ (map_table[r] = NULL /\ Out(j))
    BY <2>1 DEF RawInv, MapNames
  <2>3. Out(j) => j \notin InFlight
    <3>1. Out(j) => j \notin Listeners
      BY IndexIsAllocated DEF Out, RawInv, StationsHold, TypeInv, TypeOK
    <3> QED BY <3>1 DEF Out, InFlight, Listeners
  <2>4. j # NULL /\ (map_table[r] = j => j \in InFlight)
    BY DEF TagInv, MapExact, Index, NULL
  <2> QED BY <2>2, <2>3, <2>4
<1> QED
  BY TagInvariant, <1>1, PTL

\* An instruction in a unit keeps its station and one that has started is in
\* exactly one unit, so that the scans that clear both arrays agree.
THEOREM UnitsAgree == Spec /\ NoTrailingTrap => []UnitsMatchStations
<1>1. TypeInv /\ RawInv /\ TagInv => UnitsMatchStations
  BY DEF TagInv
<1> QED
  BY TagInvariant, <1>1, PTL

-----------------------------------------------------------------------------
\* A station whose producers have all left the bus is one the scans see.
LEMMA ReadyIsSeen ==
  ASSUME TypeInv, RawInv, TagInv, NEW i \in Listeners,
         \A k \in 1 .. 3 : \A h \in Index : Produces(h, i, k) => h \notin InFlight
  PROVE  /\ i \in Held(reservFP) => i \in ReadyFP
         /\ i \in Held(reservINT) /\ ~(tom_execute_cycle[i] > 0) => i \in ReadyINT
<1>1. i \in Index
  BY HeldType DEF Listeners, TypeInv, TypeOK
<1>2. OperandsReady(i)
  <2> SUFFICES ASSUME NEW k \in 1 .. 3, Q[i][k] # NULL PROVE FALSE
    BY DEF OperandsReady
  <2>1. Q[i][k] \in Index
    BY <1>1, IndexIsAllocated DEF TypeInv, TypeOK
  <2> QED BY <2>1 DEF TagInv, TagsExact
<1>3. i \in 1 .. fetch_index /\ ~IS_TRAP(op(i))
  <2>1. ~IS_TRAP(op(i))
    BY DEF TagInv, StationClasses, Listeners, USES_INT_FU, USES_FP_FU, IS_TRAP
  <2> QED BY <1>1, <2>1 DEF RawInv, StationsHold, Unissued, Index, TypeInv, TypeOK
<1>4. ~(tom_execute_cycle[i] > 0) => tom_execute_cycle[i] = -1
  BY <1>3 DEF TagInv, MarkedUnstarted
<1> QED
  BY <1>2, <1>4 DEF ReadyFP, ReadyINT

\* "We prioritize old instructions (in program order) over new ones, if they
\* both contend for the same functional unit", for any sizes and trace that
\* does not end in a trap: nothing that could have started is passed by a
\* younger instruction of its class.
THEOREM OldestStarts == Spec /\ NoTrailingTrap => OldestStartsFirst
<1>1. ASSUME TypeInv, RawInv, TagInv, issue_To_execute,
             NEW i \in Index, NEW j \in Index, i < j,
             tom_execute_cycle[j] <= 0, tom_execute_cycle'[j] > 0,
             {i, j} \subseteq Held(reservINT) \/ {i, j} \subseteq Held(reservFP),
             tom_execute_cycle[i] <= 0,
             \A k \in 1 .. 3 : \A h \in Index : Produces(h, i, k) => h \notin InFlight
      PROVE  tom_execute_cycle'[i] > 0
  <2> USE <1>1
  <2> DEFINE
        fp_next  == IF fuFP[0] = NULL THEN Oldest(ReadyFP) ELSE NULL
        first    == FirstFree(Free(fuINT))
        second   == FirstFree(Free(fuINT) \ {first})
        oldest   == Oldest(ReadyINT)
        next0    == IF first = -1 THEN NULL ELSE oldest
        next1    == IF second = -1 THEN NULL ELSE Oldest(ReadyINT \ {oldest})
        started  == {fp_next, next0, next1} \ {NULL}
  <2>1. /\ tom_execute_cycle' = [p \in Pointers |->
                                   IF p \in started THEN cycle ELSE tom_execute_cycle[p]]
        /\ cycle >= 1 /\ i \in Pointers /\ j \in Pointers
    BY IndexIsAllocated DEF issue_To_execute, RawInv
  <2>2. ReadyFP \in SUBSET Index /\ ReadyINT \in SUBSET Index
    BY HeldType DEF TypeInv, TypeOK, ReadyFP, ReadyINT
  <2>3. /\ i \in Held(reservFP) => i \in ReadyFP
        /\ i \in Held(reservINT) => i \in ReadyINT
    <3>1. ~(tom_execute_cycle[i] > 0)
      BY <2>1 DEF TypeInv, TypeOK
    <3> QED BY <3>1, ReadyIsSeen DEF Listeners
  <2>4. \A p \in Held(reservINT) : p \notin Held(reservFP)
    BY DEF TagInv, StationClasses, USES_INT_FU, USES_FP_FU
  <2>5. ReadyFP \subseteq Held(reservFP) /\ ReadyINT \subseteq Held(reservINT)
    BY DEF ReadyFP, ReadyINT
  <2>6. second # -1 => first # -1
    <3>1. Free(fuINT) \in SUBSET Nat
      BY SizesAssumption DEF Free, TypeInv, TypeOK
    <3>2. second # -1 => Free(fuINT) # {}
      BY DEF FirstFree
    <3> QED BY <3>1, <3>2, FirstFreeIsLeast
  <2>7. j \in started
    <3> HIDE DEF started
    <3> QED BY <2>1 DEF TypeInv, TypeOK
  <2>8. i \in started
    <3>1. CASE i \in Held(reservFP)
      <4>1. j = fp_next /\ fp_next = Oldest(ReadyFP)
        <5>1. next0 \in ReadyINT \cup {NULL} /\ next1 \in ReadyINT \cup {NULL}
          BY <2>2, OldestType
        <5>2. j # NULL /\ j \notin ReadyINT
          BY <2>4, <2>5, <3>1 DEF Index, NULL
        <5> HIDE DEF next0, next1
        <5> QED BY <2>7, <5>1, <5>2
      <4>2. \A q \in ReadyFP : Oldest(ReadyFP) <= q
        BY <2>2, <2>3, <3>1, OldestIsLeast
      <4> QED BY <2>3, <3>1, <4>1, <4>2 DEF Index
    <3>2. CASE i \in Held(reservINT)
      <4>1. i \in ReadyINT /\ oldest \in ReadyINT /\ \A q \in ReadyINT : oldest <= q
        BY <2>2, <2>3, <3>2, OldestIsLeast
      <4>2. CASE oldest = i
        <5>1. j # fp_next
          <6>1. fp_next \in ReadyFP \cup {NULL}
            BY <2>2, OldestType
          <6> HIDE DEF fp_next
          <6> QED BY <2>4, <2>5, <3>2, <6>1 DEF Index, NULL
        <5>2. j # oldest /\ j # NULL /\ i # NULL
          BY <4>2 DEF Index, NULL
        <5>3. first # -1
          BY <2>6, <2>7, <5>1, <5>2
        <5> QED BY <4>2, <5>2, <5>3
      <4>3. CASE oldest # i
        <5>1. Oldest(ReadyINT \ {oldest}) <= i
          BY <2>2, <4>1, <4>3, OldestIsLeast
        <5>2. fp_next \in ReadyFP \cup {NULL}
          BY <2>2, OldestType
        <5>3. j \notin ReadyFP /\ j # NULL
          BY <2>4, <2>5, <3>2 DEF Index, NULL
        <5>4. j \in {oldest, Oldest(ReadyINT \ {oldest})}
          <6> HIDE DEF fp_next
          <6> QED BY <2>7, <5>2, <5>3
        <5>5. oldest <= i /\ i < j /\ i \in Nat /\ j \in Nat
          BY <4>1 DEF Index
        <5> HIDE DEF oldest
        <5> QED BY <5>1, <5>4, <5>5
      <4> QED BY <4>2, <4>3
    <3> QED BY <3>1, <3>2
  <2> HIDE DEF started
  <2> QED BY <2>1, <2>8 DEF TypeInv, TypeOK
<1>2. ASSUME TypeInv, RawInv, NEW j \in Index, tom_execute_cycle[j] <= 0,
             tom_execute_cycle'[j] > 0, [Next]_vars
      PROVE  issue_To_execute
  <2>1. ASSUME NEW p \in Pointers, Fetch(p) PROVE FALSE
    BY <1>2, <2>1, IndexIsAllocated DEF Fetch, TypeInv, TypeOK
  <2>2. ~(UNCHANGED tom_execute_cycle)
    BY <1>2, IndexIsAllocated DEF TypeInv, TypeOK
  <2> QED
    BY <1>2, <2>1, <2>2
       DEF Next, runTomasulo, Stopped, vars, CDB_To_retire, execute_To_CDB,
           fetch_To_dispatch, FetchNothing, FetchCrash, dispatch_To_issue, EndCycle
<1>3. (TypeInv /\ RawInv /\ TagInv) /\ [Next]_vars =>
        [\A i, j \in Index :
           /\ i < j /\ tom_execute_cycle[j] <= 0 /\ tom_execute_cycle'[j] > 0
           /\ \/ {i, j} \subseteq Held(reservINT)
              \/ {i, j} \subseteq Held(reservFP)
           /\ tom_execute_cycle[i] <= 0
           /\ \A k \in 1 .. 3 : \A h \in Index : Produces(h, i, k) => h \notin InFlight
           => tom_execute_cycle'[i] > 0]_vars
  BY <1>1, <1>2
<1> QED
  BY TagInvariant, <1>3, PTL DEF Spec, OldestStartsFirst

\* The bus goes to the oldest result, for any sizes, latencies and trace that
\* does not end in a trap: whatever still waits in a unit with its result is
\* younger.
THEOREM OldestBroadcasts == Spec /\ NoTrailingTrap => OldestBroadcastsFirst
<1>1. ASSUME TypeInv, RawInv, TagInv, execute_To_CDB,
             commonDataBus' \notin {commonDataBus, NULL},
             NEW p \in Held(fuINT') \cup Held(fuFP')
      PROVE  \/ cycle - tom_execute_cycle[p] <
                  (IF USES_FP_FU(op(p)) THEN FU_FP_LATENCY ELSE FU_INT_LATENCY)
             \/ p > commonDataBus'
  <2> USE <1>1
  <2> DEFINE winner == IF commonDataBus = NULL THEN Oldest(BusCandidates) ELSE NULL
             gone   == Leaving \cup ({winner} \ {NULL})
  <2>1. /\ commonDataBus' = winner /\ winner # NULL
        /\ fuINT' = Release(fuINT, gone)
        /\ fuFP'  = Release(fuFP, {winner} \ {NULL})
    BY DEF execute_To_CDB
  <2>2. commonDataBus = NULL /\ winner = Oldest(BusCandidates)
    BY <2>1
  <2>3. BusCandidates \in SUBSET Index /\ BusCandidates # {}
    <3>1. Held(fuINT) \subseteq Index /\ Held(fuFP) \subseteq Index
      BY HeldType DEF TypeInv, TypeOK
    <3> QED
      BY <2>1, <2>2, <3>1 DEF BusCandidates, Completed, CompletedINT, Leaving, Oldest
  <2>4. winner \in BusCandidates /\ \A q \in BusCandidates : winner <= q
    BY <2>2, <2>3, OldestIsLeast
  <2> HIDE DEF winner
  <2>5. p # winner /\ (p \in Held(fuINT) \ Leaving \/ p \in Held(fuFP))
    BY <2>1 DEF Held, Release, TypeInv, TypeOK
  <2>6. /\ p \in Held(fuINT) => ~USES_FP_FU(op(p))
        /\ p \in Held(fuFP) => USES_FP_FU(op(p))
    BY DEF RawInv, StationsHold, TagInv, StationClasses, USES_INT_FU, USES_FP_FU
  <2>7. p \in Index
    BY <2>5, HeldType DEF TypeInv, TypeOK
  <2>8. CASE p \in BusCandidates
    BY <2>1, <2>3, <2>4, <2>5, <2>7, <2>8 DEF Index
  <2>9. CASE p \notin BusCandidates
    BY <2>5, <2>6, <2>7, <2>9, IndexIsAllocated, SizesAssumption
       DEF BusCandidates, CompletedINT, Completed, TypeInv, TypeOK
  <2> QED BY <2>8, <2>9
<1>2. ASSUME [Next]_vars, commonDataBus' \notin {commonDataBus, NULL}
      PROVE  execute_To_CDB
  BY <1>2
     DEF Next, runTomasulo, Stopped, vars, CDB_To_retire, issue_To_execute,
         fetch_To_dispatch, Fetch, FetchNothing, FetchCrash, dispatch_To_issue, EndCycle
<1>3. (TypeInv /\ RawInv /\ TagInv) /\ [Next]_vars =>
        [commonDataBus' \notin {commonDataBus, NULL}
           => \A p \in Held(fuINT') \cup Held(fuFP') :
                cycle - tom_execute_cycle[p] <
                   (IF USES_FP_FU(op(p)) THEN FU_FP_LATENCY ELSE FU_INT_LATENCY)
                \/ p > commonDataBus']_vars
  BY <1>1, <1>2
<1> QED
  BY TagInvariant, <1>3, PTL DEF Spec, OldestBroadcastsFirst

-----------------------------------------------------------------------------
(***************************************************************************)
(* The refinement: each call of the loop body maps to one step of          *)
(* TomasuloDataflow or to none.                                            *)
(***************************************************************************)

Units == Held(fuINT) \cup Held(fuFP)

\* Where the pointer to an instruction can be found, and its phase there.
PhasesMatch ==
  /\ phase = [i \in Index |-> phase[i]]
  /\ commonDataBus \in Index => Issued(commonDataBus) /\ commonDataBus \notin Listeners
  /\ Units \subseteq Listeners
  /\ Listeners \subseteq {i \in Index : Issued(i)}
  /\ \A i \in Index :
       /\ i = commonDataBus => phase[i] = "bus"
       /\ i \in Units => phase[i] = "unit"
       /\ i \in Listeners \ Units => phase[i] = "station"
       /\ Issued(i) /\ i \notin InFlight => phase[i] = "done"
       /\ ~Issued(i) => phase[i] = "waiting"

LEMMA PhaseIsFunction == phase = [i \in Index |-> phase[i]]
<1> DEFINE at(i) == CASE i = commonDataBus -> "bus"
                      [] i # commonDataBus /\ i \in Held(fuINT) \cup Held(fuFP) -> "unit"
                      [] i \in (Held(reservINT) \cup Held(reservFP))
                               \ (Held(fuINT) \cup Held(fuFP)) -> "station"
                      [] i \notin InFlight /\ Issued(i) -> "done"
                      [] i \notin InFlight /\ ~Issued(i) -> "waiting"
<1>1. phase = [i \in Index |-> at(i)]
  BY Zenon DEF phase, Issued
<1> HIDE DEF at
<1> QED
  BY <1>1

LEMMA PhasesAlwaysMatch == TypeInv /\ RawInv => PhasesMatch
<1> SUFFICES ASSUME TypeInv, RawInv PROVE PhasesMatch
  OBVIOUS
<1>1. commonDataBus \in Index => Issued(commonDataBus) /\ commonDataBus \notin Listeners
  BY DEF RawInv, BusHolds, StationsHold, Index, NULL, TypeInv, TypeOK
<1>2. Units \subseteq Listeners
  BY DEF RawInv, StationsHold, Units, Listeners
<1>3. Listeners \subseteq {i \in Index : Issued(i)}
  BY HeldType DEF RawInv, StationsHold, Listeners, TypeInv, TypeOK
<1>4. ASSUME NEW i \in Index
      PROVE  /\ i = commonDataBus => phase[i] = "bus"
             /\ i \in Units => phase[i] = "unit"
             /\ i \in Listeners \ Units => phase[i] = "station"
             /\ Issued(i) /\ i \notin InFlight => phase[i] = "done"
             /\ ~Issued(i) => phase[i] = "waiting"
  <2> DEFINE fu == Held(fuINT) \cup Held(fuFP)
             rs == Held(reservINT) \cup Held(reservFP)
  <2>0. phase[i] = CASE i = commonDataBus -> "bus"
                     [] i # commonDataBus /\ i \in fu -> "unit"
                     [] i \in rs \ fu -> "station"
                     [] i \notin InFlight /\ Issued(i) -> "done"
                     [] i \notin InFlight /\ ~Issued(i) -> "waiting"
    BY Zenon DEF phase, Issued
  <2>1. /\ i = commonDataBus => i \notin fu /\ i \notin rs /\ i \in InFlight
        /\ fu \subseteq rs /\ rs \subseteq InFlight
        /\ (i \in rs => Issued(i)) /\ (i = commonDataBus => Issued(i))
        /\ i \in InFlight => i = commonDataBus \/ i \in rs
    BY <1>1, <1>2, <1>3 DEF Units, Listeners, InFlight, Index, NULL
  <2>2. fu = Units /\ rs = Listeners
    BY DEF Units, Listeners
  <2> HIDE DEF fu, rs
  <2>3. i = commonDataBus => phase[i] = "bus"
    BY Zenon, <2>0, <2>1
  <2>4. i \in fu => phase[i] = "unit"
    BY Zenon, <2>0, <2>1
  <2>5. i \in rs \ fu => phase[i] = "station"
    BY Zenon, <2>0, <2>1
  <2>6. Issued(i) /\ i \notin InFlight => phase[i] = "done"
    BY Zenon, <2>0, <2>1
  <2>7. ~Issued(i) => phase[i] = "waiting"
    BY Zenon, <2>0, <2>1
  <2> QED BY <2>2, <2>3, <2>4, <2>5, <2>6, <2>7
<1> QED
  BY <1>1, <1>2, <1>3, <1>4, PhaseIsFunction DEF PhasesMatch

\* The classes of the dataflow machine.
LEMMA Classes ==
  ASSUME TypeOK, NEW i \in Index
  PROVE  /\ IS_TRAP(op(i)) => ClassIn(trace, i) = "trap"
         /\ IS_CTRL(op(i)) => ClassIn(trace, i) = "ctrl"
         /\ USES_INT_FU(op(i)) /\ ~WRITES_CDB(op(i)) => ClassIn(trace, i) = "store"
         /\ USES_INT_FU(op(i)) /\ WRITES_CDB(op(i)) => ClassIn(trace, i) = "int"
         /\ USES_FP_FU(op(i)) => ClassIn(trace, i) = "fp"
         /\ IS_TRAP(op(i)) \/ IS_CTRL(op(i)) \/ USES_INT_FU(op(i)) \/ USES_FP_FU(op(i))
<1> DEFINE o == trace[i].op
<1>1. op(i) = o /\ o \in Opcodes
  BY TraceAssumption DEF op, TypeOK, Instrs, Index
<1>2. ClassIn(trace, i) = CASE o \in {"cond", "uncond"} -> "ctrl"
                            [] o \in {"icomp", "load"}  -> "int"
                            [] o = "fcomp"              -> "fp"
                            [] OTHER                    -> o
  BY Zenon DEF ClassIn
<1> HIDE DEF o
<1>3. o = "trap" => ClassIn(trace, i) = "trap"
  BY <1>2
<1>4. o \in {"cond", "uncond"} => ClassIn(trace, i) = "ctrl"
  BY <1>2
<1>5. o = "store" => ClassIn(trace, i) = "store"
  BY <1>2
<1>6. o \in {"icomp", "load"} => ClassIn(trace, i) = "int"
  BY <1>2
<1>7. o = "fcomp" => ClassIn(trace, i) = "fp"
  BY <1>2
<1> QED
  BY <1>1, <1>3, <1>4, <1>5, <1>6, <1>7
     DEF IS_TRAP, IS_CTRL, USES_INT_FU, USES_FP_FU, WRITES_CDB, Opcodes

\* What the dataflow machine reads is what Produces says.
LEMMA ReadsAreProduced ==
  ASSUME TypeOK, NEW i \in Index, NEW j \in ReadsIn(trace, i)
  PROVE  j \in Index /\ \E k \in 1 .. 3 : Produces(j, i, k)
<1>1. PICK k \in 1 .. 3 :
        LET r == trace[i].r_in[k]
            result(h) == /\ WRITES_CDB(trace[h].op)
                         /\ r \in {trace[h].r_out[1], trace[h].r_out[2]} /\ r # DNA
        IN j \in 1 .. i - 1 /\ result(j) /\ \A h \in j + 1 .. i - 1 : ~result(h)
  BY DEF ReadsIn
<1>2. j \in Index /\ j < i /\ \A h \in Index : j < h /\ h < i => h \in j + 1 .. i - 1
  BY <1>1, TraceAssumption DEF Index
<1>3. trace[i].r_in[k] \in Regs
  <2>1. trace[i].r_in[k] \in Regs \cup {DNA}
    BY TraceAssumption DEF TypeOK, Instrs, Index
  <2> QED BY <1>1, <2>1
<1>4. \A h \in Index : Writes(h, trace[i].r_in[k])
                         <=> /\ WRITES_CDB(trace[h].op)
                             /\ trace[i].r_in[k] \in {trace[h].r_out[1], trace[h].r_out[2]}
  BY DEF Writes, op
<1> QED
  BY <1>1, <1>2, <1>3, <1>4 DEF Produces, DNA, Regs

\* An array holds no more than it has slots.
LEMMA HeldSize ==
  ASSUME NEW n \in Nat, NEW f \in [0 .. n - 1 -> Index \cup {NULL}]
  PROVE  IsFiniteSet(Held(f)) /\ Cardinality(Held(f)) <= n
<1> DEFINE D == 0 .. n - 1
           T == {f[d] : d \in D}
<1>1. IsFiniteSet(D) /\ Cardinality(D) = n
  BY FS_Interval
<1>2. f \in Surjection(D, T)
  BY DEF Surjection
<1>3. Held(f) \subseteq T
  BY DEF Held
<1> HIDE DEF D, T
<1>4. IsFiniteSet(T) /\ Cardinality(T) <= Cardinality(D)
  BY <1>1, <1>2, FS_Surjection
<1>5. IsFiniteSet(Held(f)) /\ Cardinality(Held(f)) <= Cardinality(T)
  BY <1>3, <1>4, FS_Subset
<1>6. Cardinality(Held(f)) \in Nat /\ Cardinality(T) \in Nat
  BY <1>4, <1>5, FS_CardinalityType
<1> QED
  BY <1>1, <1>4, <1>5, <1>6

-----------------------------------------------------------------------------
LEMMA MapsInit == Init => Dataflow!Init
<1> SUFFICES ASSUME Init PROVE Dataflow!Init
  OBVIOUS
<1>1. \A i \in Index : ~Issued(i) /\ i \notin InFlight /\ i # commonDataBus
                       /\ i \notin Units
  BY IndexIsAllocated DEF Init, Issued, InFlight, Held, Units, Index, NULL
<1>2. phase = [i \in Index |-> "waiting"]
  <2>1. ASSUME NEW i \in Index PROVE phase[i] = "waiting"
    BY Zenon, <1>1 DEF phase, Units, InFlight, Issued
  <2> QED BY <2>1, PhaseIsFunction
<1> QED
  BY <1>2 DEF Dataflow!Init, Init

\* As long as the pointers stay where they are, so do the phases.
LEMMA PhasesStay ==
  ASSUME PhasesMatch, PhasesMatch', commonDataBus' = commonDataBus,
         Units' = Units, Listeners' = Listeners,
         \A i \in Index : Issued(i)' <=> Issued(i)
  PROVE  phase' = phase
<1>1. InFlight' = InFlight
  BY DEF InFlight, Listeners
<1>2. \A i \in Index : phase'[i] = phase[i]
  BY <1>1 DEF PhasesMatch, InFlight, Listeners
<1> QED
  BY <1>2 DEF PhasesMatch

\* The broadcast is Retire.
LEMMA MapsRetire ==
  ASSUME TypeInv, PhasesMatch, PhasesMatch', CDB_To_retire
  PROVE  Dataflow!Next \/ UNCHANGED <<trace, phase>>
<1>0. /\ trace' = trace
      /\ UNCHANGED <<reservINT, reservFP, fuINT, fuFP, tom_issue_cycle>>
  BY DEF CDB_To_retire, unitVars
<1>1. /\ Units' = Units /\ Listeners' = Listeners
      /\ \A i \in Index : Issued(i)' <=> Issued(i)
  BY <1>0 DEF Units, Listeners, Issued
<1>2. CASE ~BusExpired
  <2>1. commonDataBus' = commonDataBus
    BY <1>2 DEF CDB_To_retire
  <2> QED BY <1>0, <1>1, <2>1, PhasesStay
<1>3. CASE BusExpired
  <2>1. commonDataBus' = NULL /\ commonDataBus \in Index
    BY <1>3 DEF CDB_To_retire, BusExpired, TypeInv, TypeOK
  <2>2. InFlight = Listeners \cup {commonDataBus} /\ InFlight' = Listeners
    BY <1>0, <2>1 DEF InFlight, Listeners, Index, NULL
  <2>3. \A i \in Index : phase'[i] = IF i = commonDataBus THEN "done" ELSE phase[i]
    BY <1>1, <2>1, <2>2 DEF PhasesMatch, Index, NULL
  <2>4. {i \in Index : phase[i] = "bus"} = {commonDataBus}
    BY <2>1, <2>2 DEF PhasesMatch
  <2>5. phase' = [i \in Index |-> IF i \in {commonDataBus} THEN "done" ELSE phase[i]]
    BY <2>3 DEF PhasesMatch
  <2>6. Dataflow!Retire
    BY <2>4, <2>5 DEF Dataflow!Retire, Dataflow!In, Dataflow!Move
  <2> QED BY <1>0, <2>6 DEF Dataflow!Next
<1> QED
  BY <1>2, <1>3

\* Leaving the units without or with the bus is Finish.
LEMMA MapsExecute ==
  ASSUME TypeInv, RawInv, TagInv, PhasesMatch, PhasesMatch', execute_To_CDB
  PROVE  Dataflow!Next \/ UNCHANGED <<trace, phase>>
<1> DEFINE winner == IF commonDataBus = NULL THEN Oldest(BusCandidates) ELSE NULL
           gone   == Leaving \cup ({winner} \ {NULL})
           b      == {winner} \ {NULL}
<1>0. /\ trace' = trace /\ UNCHANGED tom_issue_cycle
      /\ commonDataBus' = IF winner = NULL THEN commonDataBus ELSE winner
      /\ fuINT' = Release(fuINT, gone)
      /\ fuFP'  = Release(fuFP, b)
      /\ reservINT' = Release(reservINT, gone)
      /\ reservFP'  = Release(reservFP, b)
  BY DEF execute_To_CDB
<1>1. /\ Held(fuINT) \subseteq Index /\ Held(fuFP) \subseteq Index
      /\ Held(reservINT) \subseteq Index /\ Held(reservFP) \subseteq Index
  BY HeldType DEF TypeInv, TypeOK
<1>2. /\ winner # NULL => /\ commonDataBus = NULL
                          /\ winner \in (Held(fuINT) \ Leaving) \cup Held(fuFP)
                          /\ winner \in Index
      /\ Leaving \subseteq Held(fuINT) /\ \A p \in Leaving : ~WRITES_CDB(op(p))
  <2>1. BusCandidates \subseteq (Held(fuINT) \ Leaving) \cup Held(fuFP)
    BY DEF BusCandidates, Completed, CompletedINT
  <2>2. Leaving \subseteq Held(fuINT) /\ \A p \in Leaving : ~WRITES_CDB(op(p))
    BY DEF Leaving, CompletedINT, Completed
  <2>3. winner \in BusCandidates \cup {NULL}
    BY BusWinner DEF TypeInv
  <2>4. winner # NULL => commonDataBus = NULL
    OBVIOUS
  <2> HIDE DEF winner
  <2> QED BY <1>1, <2>1, <2>2, <2>3, <2>4
<1> HIDE DEF winner
<1>3. \A p \in Index : /\ p \in Held(fuINT) => USES_INT_FU(op(p)) /\ p \in Held(reservINT)
                       /\ p \in Held(fuFP) => USES_FP_FU(op(p)) /\ p \in Held(reservFP)
                       /\ p \in Held(reservINT) => p \notin Held(reservFP)
  BY DEF RawInv, StationsHold, TagInv, StationClasses, USES_INT_FU, USES_FP_FU
<1>4. winner # NULL => winner \notin Leaving
  BY <1>1, <1>2, <1>3
<1>5. /\ Held(fuINT') = Held(fuINT) \ gone /\ Held(fuFP') = Held(fuFP) \ b
      /\ Held(reservINT') = Held(reservINT) \ gone /\ Held(reservFP') = Held(reservFP) \ b
  BY <1>0 DEF Held, Release, TypeInv, TypeOK
<1>6. /\ Units' = Units \ gone /\ Listeners' = Listeners \ gone
      /\ InFlight = Listeners \cup ({commonDataBus} \ {NULL})
      /\ InFlight' = Listeners' \cup ({commonDataBus'} \ {NULL})
  <2>1. Held(fuFP) \cap Leaving = {} /\ Held(reservFP) \cap Leaving = {}
    BY <1>1, <1>2, <1>3
  <2> QED BY <1>5, <2>1 DEF Units, Listeners, InFlight
<1>7. \A i \in Index : /\ Issued(i)' <=> Issued(i)
                       /\ i \in gone => i \in Units
  BY <1>0, <1>2 DEF Issued, Units
<1>8. \A i \in Index : phase'[i] = IF i \in Leaving THEN "done"
                                   ELSE IF i \in b THEN "bus" ELSE phase[i]
  BY <1>0, <1>2, <1>4, <1>6, <1>7 DEF PhasesMatch, Index, NULL
<1>9. \A i \in gone : phase[i] = "unit" /\ i \in Index
  BY <1>1, <1>2, <1>7 DEF PhasesMatch, Index, NULL
<1>10. {i \in Index \ b : phase[i] # phase'[i]} = Leaving
  BY <1>2, <1>4, <1>8, <1>9
<1>11. \A i \in Leaving : ClassIn(trace, i) = "store"
  BY <1>1, <1>2, <1>3, Classes DEF TypeInv
<1>12. \A i \in b : ClassIn(trace, i) \in {"int", "fp"}
  <2>1. winner # NULL => WRITES_CDB(op(winner)) \/ USES_FP_FU(op(winner))
    <3>1. \A p \in BusCandidates : p \in Held(fuFP) \/ WRITES_CDB(op(p))
      BY DEF BusCandidates, Completed, CompletedINT, Leaving
    <3>2. winner # NULL => winner \in BusCandidates
      BY BusWinner DEF winner, TypeInv
    <3> QED BY <1>1, <1>3, <3>1, <3>2
  <2> QED BY <1>2, <1>3, <2>1, Classes DEF TypeInv
<1>13. b # {} => {i \in Index : phase[i] = "bus"} = {}
  <2>1. b # {} => commonDataBus \notin Index
    BY <1>2 DEF Index, NULL
  <2> QED BY <1>6, <2>1 DEF PhasesMatch, Index
<1>14. phase' = [i \in Index |-> IF i \in Leaving THEN "done"
                                 ELSE IF i \in b THEN "bus" ELSE phase[i]]
  BY <1>8 DEF PhasesMatch
<1>15. b \in {{}} \cup {{i} : i \in Index}
  BY <1>2
<1> HIDE DEF b
<1>16. Dataflow!Finish(Leaving, b)
  BY <1>9, <1>11, <1>12, <1>13, <1>14 DEF Dataflow!Finish, Dataflow!In, b
<1> QED
  BY <1>0, <1>10, <1>15, <1>16 DEF Dataflow!Next

LEMMA SameCardinality == \A S : Dataflow!Cardinality(S) = Cardinality(S)
BY DEF Cardinality, Dataflow!Cardinality

\* Entering the units is Start: the operands are there, and the arrays of the
\* units bound how many may execute.
LEMMA MapsIssue ==
  ASSUME TypeInv, RawInv, TagInv, TypeInv', TagInv', RawInv',
         PhasesMatch, PhasesMatch', issue_To_execute
  PROVE  Dataflow!Next \/ UNCHANGED <<trace, phase>>
<1> DEFINE
      fp_next  == IF fuFP[0] = NULL THEN Oldest(ReadyFP) ELSE NULL
      first    == FirstFree(Free(fuINT))
      second   == FirstFree(Free(fuINT) \ {first})
      oldest   == Oldest(ReadyINT)
      next0    == IF first = -1 THEN NULL ELSE oldest
      next1    == IF second = -1 THEN NULL ELSE Oldest(ReadyINT \ {oldest})
      started  == {fp_next, next0, next1} \ {NULL}
<1>0. /\ trace' = trace
      /\ UNCHANGED <<reservINT, reservFP, commonDataBus, tom_issue_cycle>>
      /\ tom_execute_cycle' = [p \in Pointers |->
                                 IF p \in started THEN cycle ELSE tom_execute_cycle[p]]
  BY DEF issue_To_execute
<1>1. started \subseteq Listeners /\ \A p \in started : OperandsReady(p)
  <2>1. ReadyFP \in SUBSET Index /\ ReadyINT \in SUBSET Index
    BY HeldType DEF TypeInv, TypeOK, ReadyFP, ReadyINT
  <2>2. /\ fp_next \in ReadyFP \cup {NULL}
        /\ next0 \in ReadyINT \cup {NULL}
        /\ next1 \in ReadyINT \cup {NULL}
    BY <2>1, OldestType
  <2> HIDE DEF fp_next, next0, next1
  <2> QED BY <2>2 DEF ReadyFP, ReadyINT, Listeners
<1> HIDE DEF started
<1>2. /\ Listeners' = Listeners /\ InFlight' = InFlight
      /\ \A i \in Index : Issued(i)' <=> Issued(i)
      /\ Listeners \subseteq Index
  BY <1>0 DEF Listeners, InFlight, Issued, PhasesMatch
<1>3. \A p \in Listeners : p \in Units <=> tom_execute_cycle[p] > 0
  BY DEF TagInv, UnitsMatchStations, Units, Listeners, StationClasses, USES_INT_FU, USES_FP_FU
<1>4. \A p \in Listeners : p \in Units' <=> tom_execute_cycle'[p] > 0
  BY <1>2 DEF TagInv, UnitsMatchStations, Units, Listeners, StationClasses, USES_INT_FU, USES_FP_FU
<1>5. \A p \in Index : tom_execute_cycle'[p] > 0
                         <=> p \in started \/ tom_execute_cycle[p] > 0
  <2>1. cycle > 0
    BY DEF RawInv, TypeInv, TypeOK
  <2> QED BY <1>0, <2>1, IndexIsAllocated
<1>6. Units' = Units \cup started
  <2>1. Units' \subseteq Listeners /\ Units \subseteq Listeners
    BY <1>2 DEF PhasesMatch
  <2> QED BY <1>1, <1>2, <1>3, <1>4, <1>5, <2>1
<1> DEFINE S == {i \in Index : phase[i] # phase'[i]}
<1>7. \A i \in Index : phase'[i] = IF i \in started THEN "unit" ELSE phase[i]
  BY <1>0, <1>1, <1>2, <1>6 DEF PhasesMatch, InFlight, Listeners
<1>8. S = started \ Units
  BY <1>1, <1>2, <1>7 DEF PhasesMatch
<1>9. \A i \in S : phase[i] = "station" /\ i \in Index /\ i \in Listeners
  BY <1>1, <1>2, <1>8 DEF PhasesMatch
<1>10. phase' = [i \in Index |-> IF i \in S THEN "unit" ELSE phase[i]]
  <2>1. \A i \in Index : phase'[i] = IF i \in S THEN "unit" ELSE phase[i]
    BY <1>7
  <2> HIDE DEF S
  <2> QED BY <2>1 DEF PhasesMatch
<1>11. ASSUME NEW i \in S, NEW j \in ReadsIn(trace, i)
       PROVE  j \in Index /\ phase[j] = "done"
  <2>1. PICK k \in 1 .. 3 : Produces(j, i, k)
    BY <1>9, ReadsAreProduced DEF TypeInv
  <2>2. j \in Index
    BY <1>9, ReadsAreProduced DEF TypeInv
  <2>3. Q[i][k] = NULL
    BY <1>1, <1>8 DEF OperandsReady
  <2>4. Out(j)
    BY <1>9, <2>1, <2>2, <2>3 DEF RawInv, TagsName, Index, NULL
  <2>5. Issued(j) /\ j \notin Listeners
    <3>1. ~(tom_cdb_cycle[j] <= 0)
      BY <2>2, <2>4, IndexIsAllocated DEF Out, TypeInv, TypeOK
    <3> QED BY <2>2, <3>1 DEF RawInv, Unissued, StationsHold
  <2>6. j \notin InFlight
    BY <2>4, <2>5 DEF Out, InFlight, Listeners
  <2> QED BY <2>2, <2>5, <2>6 DEF PhasesMatch
<1>12. \A i \in S \cup {q \in Index : phase[q] = "unit"} : i \in Units' /\ i \in Index
  <2>1. \A q \in Index : phase[q] = "unit" => q \in Units
    BY DEF PhasesMatch, InFlight, Listeners
  <2> QED BY <1>6, <1>8, <1>9, <2>1
<1>13. \A i \in Index : i \in Units' =>
         /\ ClassIn(trace, i) \in {"int", "store"} => i \in Held(fuINT')
         /\ ClassIn(trace, i) = "fp" => i \in Held(fuFP')
  <2>1. \A i \in Index : /\ i \in Held(fuINT') => USES_INT_FU(op(i))
                         /\ i \in Held(fuFP') => USES_FP_FU(op(i))
    BY <1>0, ProgramStays DEF RawInv, StationsHold, TagInv, StationClasses
  <2> QED BY <2>1, Classes DEF Units, TypeInv
<1> DEFINE busy(c) == {i \in S \cup {q \in Index : phase[q] = "unit"} : ClassIn(trace, i) \in c}
<1>14. busy({"int", "store"}) \subseteq Held(fuINT') /\ busy({"fp"}) \subseteq Held(fuFP')
  BY <1>12, <1>13
<1>15. Cardinality(busy({"int", "store"})) <= FU_INT_SIZE
  <2>1. IsFiniteSet(Held(fuINT')) /\ Cardinality(Held(fuINT')) <= FU_INT_SIZE
    BY HeldSize, SizesAssumption DEF TypeInv, TypeOK
  <2> HIDE DEF busy
  <2> QED BY <1>14, <2>1, FS_Subset, FS_CardinalityType, SizesAssumption
<1>16. Cardinality(busy({"fp"})) <= FU_FP_SIZE
  <2>1. IsFiniteSet(Held(fuFP')) /\ Cardinality(Held(fuFP')) <= FU_FP_SIZE
    BY HeldSize, SizesAssumption DEF TypeInv, TypeOK
  <2> HIDE DEF busy
  <2> QED BY <1>14, <2>1, FS_Subset, FS_CardinalityType, SizesAssumption
<1> HIDE DEF S
<1>17. Dataflow!Start(S)
  BY <1>9, <1>10, <1>11, <1>15, <1>16, SameCardinality
     DEF Dataflow!Start, Dataflow!In, Dataflow!Move
<1> QED
  BY <1>0, <1>17 DEF Dataflow!Next, S

\* Fetching moves no instruction out of "waiting".
LEMMA MapsFetch ==
  ASSUME TypeInv, RawInv, PhasesMatch, PhasesMatch', fetch_To_dispatch
  PROVE  UNCHANGED <<trace, phase>>
<1>1. /\ trace' = trace
      /\ UNCHANGED <<reservINT, reservFP, fuINT, fuFP, commonDataBus>>
  BY DEF fetch_To_dispatch, Fetch, FetchNothing, FetchCrash, unitVars
<1>2. \A i \in Index : Issued(i)' <=> Issued(i)
  <2>1. ASSUME NEW p \in Pointers, Fetch(p) PROVE \A i \in Index : Issued(i)' <=> Issued(i)
    <3>1. /\ tom_issue_cycle' = [tom_issue_cycle EXCEPT ![p] = -1]
          /\ p \in Index => ~Issued(p)
      BY <2>1, FetchFindsInstruction DEF Fetch, RawInv, Unissued
    <3> QED BY <3>1, IndexIsAllocated DEF Issued, TypeInv, TypeOK
  <2>2. CASE FetchNothing \/ FetchCrash
    BY <2>2 DEF FetchNothing, FetchCrash, Issued
  <2> QED BY <2>1, <2>2 DEF fetch_To_dispatch
<1>3. Units' = Units /\ Listeners' = Listeners
  BY <1>1 DEF Units, Listeners
<1> QED
  BY <1>1, <1>2, <1>3, PhasesStay

\* Issuing the head of the queue is Issue.
LEMMA MapsDispatch ==
  ASSUME TypeInv, RawInv, PhasesMatch, PhasesMatch', dispatch_To_issue
  PROVE  Dataflow!Next \/ UNCHANGED <<trace, phase>>
<1>0. /\ trace' = trace /\ stage = "dispatch"
      /\ UNCHANGED <<fuINT, fuFP, commonDataBus>>
  BY DEF dispatch_To_issue, unitVars
<1>1. CASE HeadStays /\ UNCHANGED <<reservINT, reservFP, tom_issue_cycle>>
  BY <1>0, <1>1, PhasesStay DEF Units, Listeners, Issued
<1>2. CASE Issues /\ tom_issue_cycle' = [tom_issue_cycle EXCEPT ![head] = cycle]
  <2>0. PICK h \in Index : h = head
    BY <1>0, <1>2, HeadIsOldest DEF Issues, IssueControl, IssueINT, IssueFP
  <2>1. /\ ~IS_TRAP(op(h)) /\ ~Issued(h)
        /\ \A q \in Index : q < h /\ ~IS_TRAP(op(q)) => Issued(q)
        /\ Issued(h)' /\ \A q \in Index : q # h => (Issued(q)' <=> Issued(q))
    <3>1. /\ ~IS_TRAP(op(h)) /\ ~Issued(h)
          /\ \A q \in Index : q < h /\ ~IS_TRAP(op(q)) => Issued(q)
      BY <1>0, <2>0, HeadIsOldest DEF Index, NULL
    <3> QED BY <1>2, <2>0, <3>1, IndexIsAllocated DEF Issued, TypeInv, TypeOK, RawInv
  <2>2. /\ Held(reservINT') = Held(reservINT) \cup (IF USES_INT_FU(op(h)) THEN {h} ELSE {})
        /\ Held(reservFP')  = Held(reservFP) \cup (IF USES_FP_FU(op(h)) THEN {h} ELSE {})
    BY <1>2, <2>0, StationsOfTheHead DEF TypeInv
  <2>3. \/ IS_CTRL(op(h)) /\ ~USES_INT_FU(op(h)) /\ ~USES_FP_FU(op(h))
        \/ ~IS_CTRL(op(h)) /\ (USES_INT_FU(op(h)) \/ USES_FP_FU(op(h)))
    BY <1>2, <2>0 DEF Issues, IssueControl, IssueINT, IssueFP, IS_CTRL, USES_INT_FU, USES_FP_FU
  <2>4. /\ Units' = Units
        /\ Listeners' = IF IS_CTRL(op(h)) THEN Listeners ELSE Listeners \cup {h}
    BY <1>0, <2>2, <2>3 DEF Units, Listeners
  <2>5. h \notin Listeners /\ h \notin Units /\ h # commonDataBus
    BY <2>1 DEF PhasesMatch
  <2>6. \A i \in Index : phase'[i] = IF i = h THEN IF IS_CTRL(op(h)) THEN "done" ELSE "station"
                                     ELSE phase[i]
    BY <1>0, <2>1, <2>4, <2>5 DEF PhasesMatch, InFlight, Listeners
  <2>7. /\ ClassIn(trace, h) # "trap"
        /\ ClassIn(trace, h) = "ctrl" <=> IS_CTRL(op(h))
        /\ \A j \in Index : IS_TRAP(op(j)) => ClassIn(trace, j) = "trap"
    BY <2>1, <2>3, Classes DEF TypeInv
  <2>8. phase[h] = "waiting" /\ \A j \in Index : phase[j] = "waiting" => ~Issued(j)
    BY <2>1 DEF PhasesMatch, InFlight, Listeners
  <2>9. phase' = [i \in Index |->
                    IF i \in {h} THEN (IF ClassIn(trace, h) = "ctrl" THEN "done" ELSE "station")
                    ELSE phase[i]]
    BY <2>6, <2>7 DEF PhasesMatch
  <2>10. Dataflow!Issue(h)
    BY <2>1, <2>7, <2>8, <2>9 DEF Dataflow!Issue, Dataflow!In, Dataflow!Move
  <2> QED BY <1>0, <2>10 DEF Dataflow!Next
<1> QED
  BY <1>1, <1>2 DEF dispatch_To_issue

LEMMA MapsStep ==
  ASSUME TypeInv, RawInv, TagInv, PhasesMatch, TypeInv', RawInv', TagInv', PhasesMatch',
         [Next]_vars
  PROVE  [Dataflow!Next]_<<trace, phase>>
<1>1. CASE EndCycle \/ UNCHANGED vars
  <2>1. UNCHANGED <<trace, reservINT, reservFP, fuINT, fuFP, commonDataBus, tom_issue_cycle>>
    BY <1>1 DEF EndCycle, vars, unitVars
  <2>2. Units' = Units /\ Listeners' = Listeners /\ \A i \in Index : Issued(i)' <=> Issued(i)
    BY <2>1 DEF Units, Listeners, Issued
  <2> QED BY <2>1, <2>2, PhasesStay
<1>2. CASE runTomasulo
  BY <1>1, <1>2, MapsRetire, MapsExecute, MapsIssue, MapsFetch, MapsDispatch DEF runTomasulo
<1> QED
  BY <1>1, <1>2 DEF Next, Stopped

\* Every behaviour of the pipeline, for any sizes, latencies and trace that
\* does not end in a trap, is one of the dataflow machine: in-order issue,
\* execution only on results that are out, no more instructions executing
\* than there are units, and one result at a time on the bus.
THEOREM PipelineImplementsDataflow == Spec /\ NoTrailingTrap => ImplementsDataflow
<1>1. Init => Dataflow!Init
  BY MapsInit
<1>2. TypeInv /\ RawInv => PhasesMatch
  BY PhasesAlwaysMatch
<1>3. /\ TypeInv /\ RawInv /\ TagInv /\ PhasesMatch
      /\ (TypeInv /\ RawInv /\ TagInv /\ PhasesMatch)'
      /\ [Next]_vars
      => [Dataflow!Next]_<<trace, phase>>
  BY MapsStep
<1> QED
  BY <1>1, <1>2, <1>3, TagInvariant, PTL DEF Spec, ImplementsDataflow, Dataflow!Spec

=============================================================================
