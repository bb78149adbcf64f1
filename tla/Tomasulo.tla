------------------------------ MODULE Tomasulo ------------------------------
(***************************************************************************)
(* The cycle-by-cycle simulation of Tomasulo's algorithm that              *)
(* lab3/simplesim-3.0d-assig3/tomasulo.c runs over the instruction trace   *)
(* sim-safe.c recorded.  One cycle of runTomasulo is five calls in a fixed *)
(* order; each call is one action, and `stage' says which one is next.     *)
(*                                                                         *)
(* An instruction_t* is a position in the trace, whose first entry is      *)
(* never used: position 0 stands for NULL.  Positions after sim_num_insn   *)
(* are the zeroed tail of the last page of the trace.  r_in, r_out and Q   *)
(* are sequences, so that the C index k is k + 1 here.                     *)
(***************************************************************************)
EXTENDS Integers

CONSTANTS
  INSTR_QUEUE_SIZE,   \* entries of the instruction queue
  RESERV_INT_SIZE,    \* integer reservation stations
  RESERV_FP_SIZE,     \* floating-point reservation stations
  FU_INT_SIZE,        \* integer functional units
  FU_FP_SIZE,         \* floating-point functional units
  FU_INT_LATENCY,     \* cycles an integer unit takes
  FU_FP_LATENCY,      \* cycles a floating-point unit takes
  MD_TOTAL_REGS,      \* registers of the map table
  INSTR_TRACE_SIZE,   \* entries of one page of the trace
  sim_num_insn,       \* instructions in the trace
  Programs,           \* the traces sim_main may hand to runTomasulo
  MaxCycle            \* bound: no cycle after this one is simulated

DNA  == -1            \* "does not apply" in the register lists
NULL == 0

Regs     == 0 .. MD_TOTAL_REGS - 1
Opcodes  == {"icomp", "load", "store", "fcomp", "cond", "uncond", "trap"}
Instrs   == [op    : Opcodes,
             r_out : [1 .. 2 -> Regs \cup {DNA}],
             r_in  : [1 .. 3 -> Regs \cup {DNA}]]

ASSUME SizesAssumption ==
  /\ INSTR_QUEUE_SIZE \in Nat \ {0}
  /\ RESERV_INT_SIZE  \in Nat \ {0}
  /\ RESERV_FP_SIZE   \in Nat \ {0}
  /\ FU_INT_SIZE      \in Nat \ {0}
  /\ FU_FP_SIZE       \in Nat \ {0}
  /\ FU_INT_LATENCY   \in Nat \ {0}
  /\ FU_FP_LATENCY    \in Nat \ {0}
  /\ MD_TOTAL_REGS    \in Nat \ {0}

ASSUME TraceAssumption ==
  /\ INSTR_TRACE_SIZE \in Nat \ {0}
  /\ sim_num_insn     \in Nat \ {0}
  /\ MaxCycle         \in Nat
  /\ Programs \subseteq [1 .. sim_num_insn -> Instrs]

\* put_instr appends a page only when it needs one: the pages hold the
\* positions below Allocated, and the walk beyond them meets next == NULL.
Allocated == (sim_num_insn \div INSTR_TRACE_SIZE + 1) * INSTR_TRACE_SIZE
Index     == 1 .. sim_num_insn            \* the recorded instructions
Pointers  == 1 .. Allocated - 1
Stages    == {"retire", "execute", "issue", "fetch", "dispatch", "end",
              "done", "crashed"}

VARIABLES
  trace,                \* op, r_out and r_in of the recorded instructions
  instr_queue, instr_queue_size,
  reservINT, reservFP,  \* the reservation stations
  fuINT, fuFP,          \* the functional units
  commonDataBus,
  map_table,            \* the instruction that will write each register
  fetch_index,
  Q,                    \* per instruction: the producers it still waits for
  tom_dispatch_cycle, tom_issue_cycle, tom_execute_cycle, tom_cdb_cycle,
  cycle,                \* runTomasulo's local
  stage                 \* the call of the loop body that is next

queueVars == <<instr_queue, instr_queue_size>>
unitVars  == <<fuINT, fuFP>>
vars == <<trace, instr_queue, instr_queue_size, reservINT, reservFP, fuINT,
          fuFP, commonDataBus, map_table, fetch_index, Q, tom_dispatch_cycle,
          tom_issue_cycle, tom_execute_cycle, tom_cdb_cycle, cycle, stage>>

-----------------------------------------------------------------------------
(* Instruction classes.  The opcodes of pisa.def carry exactly one of the   *)
(* flags the macros test, and a zeroed entry, whose opcode is OP_NA, none.  *)

index(p) == IF p \in Index THEN p ELSE 0
op(p)    == IF p \in Index THEN trace[p].op ELSE "na"

IS_CTRL(o)     == o \in {"cond", "uncond"}
IS_TRAP(o)     == o = "trap"
USES_INT_FU(o) == o \in {"icomp", "load", "store"}
USES_FP_FU(o)  == o = "fcomp"
WRITES_CDB(o)  == o \in {"icomp", "load", "fcomp"}

\* Instruction j puts a result for register r on the bus.
Writes(j, r) == WRITES_CDB(op(j)) /\ \E m \in 1 .. 2 : trace[j].r_out[m] = r

Held(slots) == {slots[i] : i \in DOMAIN slots} \ {NULL}
Free(slots) == {i \in DOMAIN slots : slots[i] = NULL}

\* The first free slot of an array, -1 when there is none.
FirstFree(free) == IF free = {} THEN -1
                   ELSE CHOOSE i \in free : \A j \in free : i <= j

\* A mistake: the comparison turned round.
YoungestInstead(S) == IF S = {} THEN NULL
                      ELSE CHOOSE p \in S : \A q \in S : index(p) >= index(q)

\* The oldest instruction of a set in program order, NULL for the empty set.
Oldest(S) == IF S = {} THEN NULL
             ELSE CHOOSE p \in S : \A q \in S : index(p) <= index(q)

\* Empty the slots that hold an instruction of S.
Release(slots, S) == [i \in DOMAIN slots |->
                        IF slots[i] \in S THEN NULL ELSE slots[i]]

-----------------------------------------------------------------------------
Init ==
  /\ trace \in Programs
  /\ instr_queue = [i \in 0 .. INSTR_QUEUE_SIZE - 1 |-> NULL]
  /\ instr_queue_size = 0
  /\ reservINT = [i \in 0 .. RESERV_INT_SIZE - 1 |-> NULL]
  /\ reservFP  = [i \in 0 .. RESERV_FP_SIZE - 1 |-> NULL]
  /\ fuINT = [i \in 0 .. FU_INT_SIZE - 1 |-> NULL]
  /\ fuFP  = [i \in 0 .. FU_FP_SIZE - 1 |-> NULL]
  /\ commonDataBus = NULL
  /\ map_table = [r \in Regs |-> NULL]
  /\ fetch_index = 0
  /\ Q = [p \in Pointers |-> [k \in 1 .. 3 |-> NULL]]
  /\ tom_dispatch_cycle = [p \in Pointers |-> 0]
  /\ tom_issue_cycle    = [p \in Pointers |-> 0]
  /\ tom_execute_cycle  = [p \in Pointers |-> 0]
  /\ tom_cdb_cycle      = [p \in Pointers |-> 0]
  /\ cycle = 1
  /\ stage = "retire"

\* Broadcast the result that reached the bus in an earlier cycle: whoever
\* waits for it in a station or in the map table stops waiting.
BusExpired == commonDataBus # NULL /\ cycle - tom_cdb_cycle[commonDataBus] >= 1

\* A mistake: the floating-point stations do not listen.
ListenersINTOnly == Held(reservINT)
Listeners        == Held(reservINT) \cup Held(reservFP)

\* A mistake: every register the result is for, whoever writes it now.
EveryDestinationCleared ==
  [r \in Regs |-> IF Writes(commonDataBus, r) THEN NULL ELSE map_table[r]]
ClearedMapTable == Release(map_table, {commonDataBus})

CDB_To_retire ==
  /\ stage = "retire"
  /\ stage' = "execute"
  /\ IF BusExpired
     THEN /\ Q' = [p \in Pointers |->
                     IF p \in Listeners
                     THEN Release(Q[p], {commonDataBus}) ELSE Q[p]]
          /\ map_table' = ClearedMapTable
          /\ commonDataBus' = NULL
     ELSE UNCHANGED <<Q, map_table, commonDataBus>>
  /\ UNCHANGED <<trace, queueVars, reservINT, reservFP, unitVars, fetch_index,
                 tom_dispatch_cycle, tom_issue_cycle, tom_execute_cycle,
                 tom_cdb_cycle, cycle>>

\* Instructions whose unit has finished.  Those that write no result leave
\* at once; of the others only the oldest may take the bus, if it is free.
Completed(slots, latency) ==
  {p \in Held(slots) : cycle - tom_execute_cycle[p] >= latency}
CompletedINT  == Completed(fuINT, FU_INT_LATENCY)
Leaving       == {p \in CompletedINT : ~WRITES_CDB(op(p))}
\* A mistake: the floating-point units asked only when no integer unit is done.
IntegerFirst  == IF CompletedINT \ Leaving # {} THEN CompletedINT \ Leaving
                 ELSE Completed(fuFP, FU_FP_LATENCY)
BusCandidates == Completed(fuFP, FU_FP_LATENCY) \cup (CompletedINT \ Leaving)

execute_To_CDB ==
  LET winner == IF commonDataBus = NULL THEN Oldest(BusCandidates) ELSE NULL
      gone   == Leaving \cup ({winner} \ {NULL})
  IN
  /\ stage = "execute"
  /\ stage' = "issue"
  /\ commonDataBus' = IF winner = NULL THEN commonDataBus ELSE winner
  /\ tom_cdb_cycle' = [p \in Pointers |->
                         IF p = winner THEN cycle ELSE tom_cdb_cycle[p]]
  /\ fuINT' = Release(fuINT, gone)
  /\ fuFP'  = Release(fuFP, {winner} \ {NULL})
  /\ reservINT' = Release(reservINT, gone)
  /\ reservFP'  = Release(reservFP, {winner} \ {NULL})
  /\ UNCHANGED <<trace, queueVars, map_table, fetch_index, Q,
                 tom_dispatch_cycle, tom_issue_cycle, tom_execute_cycle, cycle>>

\* A mistake: the loop over the operands starts at the second.
FirstOperandIgnored(p) == \A k \in 2 .. 3 : Q[p][k] = NULL

\* Stations whose operands are all there.  The integer scan also skips what
\* already executes; the floating-point scan relies on the unit being busy,
\* and only unit 0 is ever used.
OperandsReady(p) == \A k \in 1 .. 3 : Q[p][k] = NULL
ReadyFP  == {p \in Held(reservFP)  : OperandsReady(p)}
\* A mistake: what already executes not skipped.
StartedAgain == {p \in Held(reservINT) : OperandsReady(p)}
ReadyINT == {p \in Held(reservINT) : OperandsReady(p) /\ tom_execute_cycle[p] = -1}

issue_To_execute ==
  LET fp_next  == IF fuFP[0] = NULL THEN Oldest(ReadyFP) ELSE NULL
      first    == FirstFree(Free(fuINT))
      second   == FirstFree(Free(fuINT) \ {first})
      oldest   == Oldest(ReadyINT)
      next0    == IF first = -1 THEN NULL ELSE oldest
      next1    == IF second = -1 THEN NULL ELSE Oldest(ReadyINT \ {oldest})
      started  == {fp_next, next0, next1} \ {NULL}
  IN
  /\ stage = "issue"
  /\ stage' = "fetch"
  /\ fuFP' = [fuFP EXCEPT ![0] = IF fp_next = NULL THEN @ ELSE fp_next]
  /\ fuINT' = [i \in DOMAIN fuINT |-> CASE i = first  -> next0
                                        [] i = second -> next1
                                        [] OTHER      -> fuINT[i]]
  /\ tom_execute_cycle' = [p \in Pointers |->
                             IF p \in started THEN cycle ELSE tom_execute_cycle[p]]
  /\ UNCHANGED <<trace, queueVars, reservINT, reservFP, commonDataBus, map_table,
                 fetch_index, Q, tom_dispatch_cycle, tom_issue_cycle,
                 tom_cdb_cycle, cycle>>

-----------------------------------------------------------------------------
\* A mistake: an entry is skipped.
OneEntryTooFar    == {p \in Pointers : p > fetch_index + 1 /\ ~IS_TRAP(op(p))}

\* fetch skips traps.  Its loop has no other end than an entry that is no
\* trap: past sim_num_insn it takes a zeroed entry, past the last page it
\* follows a NULL page pointer.
CanFetch  == fetch_index < sim_num_insn /\ instr_queue_size < INSTR_QUEUE_SIZE
NextEntry == {p \in Pointers : p > fetch_index /\ ~IS_TRAP(op(p))}

\* A full queue drops the instruction; fetch has looked for room before.
tmPushInsQueue(p) ==
  LET room == instr_queue_size < INSTR_QUEUE_SIZE
  IN
  /\ instr_queue' = IF room THEN [instr_queue EXCEPT ![instr_queue_size] = p] ELSE instr_queue
  /\ instr_queue_size' = IF room THEN instr_queue_size + 1 ELSE instr_queue_size

\* Every queued instruction without a dispatch cycle gets the current one.
Dispatched(queue, since) ==
  [p \in Pointers |-> IF p \in Held(queue) /\ since[p] = -1 THEN cycle ELSE since[p]]

Fetch(p) ==
  /\ stage = "fetch" /\ CanFetch
  /\ p \in NextEntry /\ \A q \in NextEntry : p <= q
  /\ stage' = "dispatch"
  /\ tmPushInsQueue(p)
  /\ fetch_index' = index(p)
  /\ tom_dispatch_cycle' = Dispatched(instr_queue', [tom_dispatch_cycle EXCEPT ![p] = -1])
  /\ tom_issue_cycle'    = [tom_issue_cycle EXCEPT ![p] = -1]
  /\ tom_execute_cycle'  = [tom_execute_cycle EXCEPT ![p] = -1]
  /\ tom_cdb_cycle'      = [tom_cdb_cycle EXCEPT ![p] = -1]
  /\ UNCHANGED <<trace, reservINT, reservFP, unitVars, commonDataBus, map_table, Q, cycle>>

FetchNothing ==
  /\ stage = "fetch" /\ ~CanFetch
  /\ stage' = "dispatch"
  /\ tom_dispatch_cycle' = Dispatched(instr_queue, tom_dispatch_cycle)
  /\ UNCHANGED <<trace, queueVars, reservINT, reservFP, unitVars, commonDataBus,
                 map_table, fetch_index, Q, tom_issue_cycle, tom_execute_cycle,
                 tom_cdb_cycle, cycle>>

\* trace = trace->next at the last page, then trace->table[0].
FetchCrash ==
  /\ stage = "fetch" /\ CanFetch /\ NextEntry = {}
  /\ stage' = "crashed"
  /\ UNCHANGED <<trace, queueVars, reservINT, reservFP, unitVars, commonDataBus,
                 map_table, fetch_index, Q, tom_dispatch_cycle, tom_issue_cycle,
                 tom_execute_cycle, tom_cdb_cycle, cycle>>

fetch_To_dispatch == (\E p \in Pointers : Fetch(p)) \/ FetchNothing \/ FetchCrash

-----------------------------------------------------------------------------
\* The shift leaves the last slot as it was: a full queue keeps two copies
\* of its last instruction.
tmPopInsQueue ==
  /\ instr_queue' = [i \in DOMAIN instr_queue |->
                       IF i < INSTR_QUEUE_SIZE - 1 THEN instr_queue[i + 1] ELSE instr_queue[i]]
  /\ instr_queue_size' = instr_queue_size - 1

head == instr_queue[0]

\* Control instructions need no station and are finished once issued.
IssueControl ==
  /\ head # NULL /\ IS_CTRL(op(head))
  /\ tmPopInsQueue
  /\ UNCHANGED <<reservINT, reservFP, Q, map_table>>

\* Rename: each operand waits for whatever the map table names.  A result
\* register DNA makes the code write map_table[-1], the word before the array.
\* The builds align the array to 32 bytes and leave that word as padding,
\* which nothing reads: an operand DNA is tested for.
Rename ==
  /\ Q' = [Q EXCEPT ![head] = [k \in 1 .. 3 |->
             IF trace[head].r_in[k] \in Regs THEN map_table[trace[head].r_in[k]] ELSE @[k]]]
  /\ map_table' = [r \in Regs |->
       IF WRITES_CDB(op(head)) /\ \E k \in 1 .. 2 : trace[head].r_out[k] = r
       THEN head ELSE map_table[r]]

IssueINT ==
  /\ head # NULL /\ USES_INT_FU(op(head))
  /\ Free(reservINT) # {}
  /\ reservINT' = [reservINT EXCEPT ![FirstFree(Free(reservINT))] = head]
  /\ Rename
  /\ tmPopInsQueue
  /\ UNCHANGED reservFP

IssueFP ==
  /\ head # NULL /\ USES_FP_FU(op(head))
  /\ Free(reservFP) # {}
  /\ reservFP' = [reservFP EXCEPT ![FirstFree(Free(reservFP))] = head]
  /\ Rename
  /\ tmPopInsQueue
  /\ UNCHANGED reservINT

Issues == IssueControl \/ IssueINT \/ IssueFP

\* An empty queue, a structural hazard, or a zeroed entry at the head.
HeadStays ==
  \/ head = NULL
  \/ USES_INT_FU(op(head)) /\ Free(reservINT) = {}
  \/ USES_FP_FU(op(head)) /\ Free(reservFP) = {}
  \/ op(head) = "na"

dispatch_To_issue ==
  /\ stage = "dispatch"
  /\ stage' = "end"
  /\ \/ /\ Issues
        /\ tom_issue_cycle' = [tom_issue_cycle EXCEPT ![head] = cycle]
     \/ /\ HeadStays
        /\ UNCHANGED <<queueVars, reservINT, reservFP, Q, map_table, tom_issue_cycle>>
  /\ UNCHANGED <<trace, unitVars, commonDataBus, fetch_index, tom_dispatch_cycle,
                 tom_execute_cycle, tom_cdb_cycle, cycle>>

\* A mistake: the head of the queue looked at instead of its count.
HeadIsNull == fetch_index >= sim_num_insn /\ head = NULL

\* is_simulation_done looks at the fetch index and the queue only.
is_simulation_done == fetch_index >= sim_num_insn /\ instr_queue_size = 0

EndCycle ==
  /\ stage = "end" /\ cycle < MaxCycle
  /\ cycle' = cycle + 1
  /\ stage' = IF is_simulation_done THEN "done" ELSE "retire"
  /\ UNCHANGED <<trace, queueVars, reservINT, reservFP, unitVars, commonDataBus,
                 map_table, fetch_index, Q, tom_dispatch_cycle, tom_issue_cycle,
                 tom_execute_cycle, tom_cdb_cycle>>

runTomasulo == CDB_To_retire \/ execute_To_CDB \/ issue_To_execute
               \/ fetch_To_dispatch \/ dispatch_To_issue \/ EndCycle

\* runTomasulo has returned, has crashed, or has reached the bound.
Stopped == /\ \/ stage \in {"done", "crashed"}
              \/ stage = "end" /\ cycle = MaxCycle
           /\ UNCHANGED vars

Next == runTomasulo \/ Stopped

Spec == Init /\ [][Next]_vars

\* The loop of runTomasulo runs by itself: nothing it calls waits.
FairSpec == Spec /\ WF_vars(runTomasulo)
-----------------------------------------------------------------------------
(* Properties.                                                              *)

\* Every variable stays in its range; in particular the queue size never
\* leaves 0 .. INSTR_QUEUE_SIZE and a functional unit never holds a pointer
\* to a zeroed entry.
TypeOK ==
  /\ trace \in Programs
  /\ instr_queue \in [0 .. INSTR_QUEUE_SIZE - 1 -> Pointers \cup {NULL}]
  /\ instr_queue_size \in 0 .. INSTR_QUEUE_SIZE
  /\ reservINT \in [0 .. RESERV_INT_SIZE - 1 -> Index \cup {NULL}]
  /\ reservFP  \in [0 .. RESERV_FP_SIZE - 1 -> Index \cup {NULL}]
  /\ fuINT \in [0 .. FU_INT_SIZE - 1 -> Index \cup {NULL}]
  /\ fuFP  \in [0 .. FU_FP_SIZE - 1 -> Index \cup {NULL}]
  /\ commonDataBus \in Index \cup {NULL}
  /\ map_table \in [Regs -> Index \cup {NULL}]
  /\ fetch_index \in 0 .. sim_num_insn
  /\ Q \in [Pointers -> [1 .. 3 -> Index \cup {NULL}]]
  /\ tom_dispatch_cycle \in [Pointers -> Int]
  /\ tom_issue_cycle    \in [Pointers -> Int]
  /\ tom_execute_cycle  \in [Pointers -> Int]
  /\ tom_cdb_cycle      \in [Pointers -> Int]
  /\ cycle \in Nat
  /\ stage \in Stages

\* What an instruction reads: the youngest older instruction that writes its
\* k-th operand, in program order.
Produces(j, i, k) == /\ j < i /\ trace[i].r_in[k] \in Regs
                     /\ Writes(j, trace[i].r_in[k])
                     /\ \A h \in Index : j < h /\ h < i => ~Writes(h, trace[i].r_in[k])

\* The trace ends in an instruction fetch can find.
NoTrailingTrap == ~IS_TRAP(op(sim_num_insn))

\* "All RAW dependences need to have been resolved with stalls before an
\* instruction enters execute": when an instruction has entered a unit, the
\* instruction that program order says it reads from has put its result on
\* the bus, in an earlier cycle, whatever renaming happened in between.
RawResolved ==
  \A i, j \in Index : \A k \in 1 .. 3 :
    tom_execute_cycle[i] > 0 /\ Produces(j, i, k)
      => tom_cdb_cycle[j] > 0 /\ tom_cdb_cycle[j] < tom_execute_cycle[i]

\* No lost wake-up: every tag a station waits for, and every producer in the
\* map table, is an instruction that writes the bus and has yet to leave it.
InFlight == Held(reservINT) \cup Held(reservFP) \cup ({commonDataBus} \ {NULL})
TagsInFlight ==
  LET Tags == Held(map_table)
              \cup UNION {Held(Q[p]) : p \in Held(reservINT) \cup Held(reservFP)}
  IN \A t \in Tags : t \in InFlight /\ WRITES_CDB(op(t))

\* The map table names, for each register, the youngest issued instruction
\* that writes it, or nobody when that one has left the bus: a result that
\* retires late never hides a younger writer.
Issued(p) == tom_issue_cycle[p] > 0
MapTableIsYoungest ==
  \A r \in Regs, j \in Index :
    /\ Issued(j) /\ Writes(j, r)
    /\ \A h \in Index : h > j /\ Writes(h, r) => ~Issued(h)
    => map_table[r] = (IF j \in InFlight THEN j ELSE NULL)

\* The queue is the window of the trace between the youngest issued and the
\* youngest fetched instruction, in order and without traps: the stale slots
\* the shift in tmPopInsQueue leaves never reach the head, so nothing is
\* issued twice or skipped.
Queued == {instr_queue[i] : i \in 0 .. instr_queue_size - 1}
QueueIsTheWindow ==
  /\ \A i, j \in 0 .. instr_queue_size - 1 : i < j => instr_queue[i] < instr_queue[j]
  /\ Queued = {p \in 1 .. fetch_index : ~IS_TRAP(op(p)) /\ ~Issued(p)}
  /\ stage = "dispatch" /\ head # NULL => instr_queue_size > 0

\* An instruction in a unit keeps its station, and an instruction of a
\* station that has started is in a unit: no instruction starts twice and
\* none is dropped by the two scans that clear both arrays.
UnitsMatchStations ==
  /\ Held(fuINT) = {p \in Held(reservINT) : tom_execute_cycle[p] > 0}
  /\ Held(fuFP)  = {p \in Held(reservFP) : tom_execute_cycle[p] > 0}
  /\ \A i, j \in DOMAIN fuINT : fuINT[i] = fuINT[j] => i = j \/ fuINT[i] = NULL

\* "We prioritize old instructions (in program order) over new ones, if they
\* both contend for the same functional unit": when an instruction starts,
\* no older one that could have used its unit is left behind.
OldestStartsFirst ==
  [][\A i, j \in Index :
       /\ i < j /\ tom_execute_cycle[j] <= 0 /\ tom_execute_cycle'[j] > 0
       /\ \/ {i, j} \subseteq Held(reservINT)
          \/ {i, j} \subseteq Held(reservFP)
       /\ tom_execute_cycle[i] <= 0
       /\ \A k \in 1 .. 3 : \A h \in Index : Produces(h, i, k) => h \notin InFlight
       => tom_execute_cycle'[i] > 0]_vars

\* A result that could have taken the bus is never passed by a younger one.
OldestBroadcastsFirst ==
  [][commonDataBus' \notin {commonDataBus, NULL}
       => \A p \in Held(fuINT') \cup Held(fuFP') :
            cycle - tom_execute_cycle[p] < 
               (IF USES_FP_FU(op(p)) THEN FU_FP_LATENCY ELSE FU_INT_LATENCY)
            \/ p > commonDataBus']_vars

\* Every instruction before the traps at the end of the trace is issued, since
\* issue is in order and the last of them is, unless fetch crashes first behind
\* those traps; and if there are none, runTomasulo returns.
LastInsn == {p \in Index : ~IS_TRAP(op(p)) /\ \A q \in Index : q > p => IS_TRAP(op(q))}
Terminates ==
  /\ <>(stage = "crashed" \/ \A p \in LastInsn : Issued(p))
  /\ NoTrailingTrap => <>(stage = "done" /\ \A p \in Index : IS_TRAP(op(p)) \/ Issued(p))

\* The comment on is_simulation_done: "simulation is done only if the entire
\* pipeline is empty".
DonePipelineEmpty ==
  stage = "done" => InFlight \cup Held(fuINT) \cup Held(fuFP) = {}

\* The comment on fetch: it "grabs an instruction from the instruction
\* trace", the trace being "all the instructions executed".
FetchedFromTrace == Held(instr_queue) \subseteq Index /\ stage # "crashed"
=============================================================================
