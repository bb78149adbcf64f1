------------------------- MODULE TomasuloInvariant -------------------------
(***************************************************************************)
(* The inductive invariant behind RawResolved, for traces that do not end  *)
(* in a trap: what each structure of tomasulo.c knows of the instructions  *)
(* on their way.                                                           *)
(***************************************************************************)
EXTENDS Tomasulo

\* The result of j has left the bus, in an earlier cycle.
Out(j) == /\ tom_cdb_cycle[j] > 0 /\ tom_cdb_cycle[j] < cycle
          /\ j # commonDataBus

\* j is the youngest issued instruction that writes r.
LastWriter(j, r) == /\ Issued(j) /\ Writes(j, r)
                    /\ \A h \in Index : j < h /\ Issued(h) => ~Writes(h, r)

\* What is not fetched is not issued, and what is not issued has no result.
Unissued ==
  \A p \in Index :
    /\ p > fetch_index => ~Issued(p)
    /\ ~Issued(p) => tom_execute_cycle[p] <= 0 /\ tom_cdb_cycle[p] <= 0

InOrder == \A i, j \in Index : i < j /\ Issued(j) /\ ~IS_TRAP(op(i)) => Issued(i)

QueueOrdered ==
  /\ \A i \in 0 .. instr_queue_size - 1 :
       /\ instr_queue[i] \in 1 .. fetch_index
       /\ ~IS_TRAP(op(instr_queue[i])) /\ ~Issued(instr_queue[i])
  /\ \A i, j \in 0 .. instr_queue_size - 1 : i < j => instr_queue[i] < instr_queue[j]
QueueComplete ==
  \A p \in 1 .. fetch_index :
    \/ IS_TRAP(op(p)) \/ Issued(p)
    \/ \E i \in 0 .. instr_queue_size - 1 : instr_queue[i] = p

StationsHold ==
  /\ \A p \in Listeners : Issued(p) /\ tom_cdb_cycle[p] <= 0
  /\ Held(fuINT) \subseteq Held(reservINT) /\ Held(fuFP) \subseteq Held(reservFP)

BusHolds == commonDataBus # NULL =>
  /\ tom_cdb_cycle[commonDataBus] \in 1 .. cycle
  /\ Issued(commonDataBus)

MapNames == \A r \in Regs, j \in Index :
  LastWriter(j, r) => map_table[r] = j \/ (map_table[r] = NULL /\ Out(j))

TagsName == \A i \in Listeners, j \in Index : \A k \in 1 .. 3 :
  Produces(j, i, k) => Q[i][k] = j \/ (Q[i][k] = NULL /\ Out(j))

RawInv ==
  /\ NoTrailingTrap
  /\ cycle >= 1
  /\ Unissued /\ InOrder
  /\ QueueOrdered /\ QueueComplete
  /\ StationsHold /\ BusHolds
  /\ MapNames /\ TagsName
  /\ RawResolved
-----------------------------------------------------------------------------
(* What the tags and the units say, beyond RawInv: nothing but the truth.   *)

\* What is not issued waits for nothing.
NoTagsYet == \A p \in Index : ~Issued(p) => \A k \in 1 .. 3 : Q[p][k] = NULL

\* The map table names nobody but the youngest issued writer, while it is in flight.
MapExact == \A r \in Regs : map_table[r] # NULL =>
  map_table[r] \in InFlight /\ LastWriter(map_table[r], r)

\* A tag names nobody but the producer of the operand, while it is in flight.
TagsExact == \A i \in Listeners : \A k \in 1 .. 3 : Q[i][k] # NULL =>
  Q[i][k] \in InFlight /\ Produces(Q[i][k], i, k)

StationClasses ==
  /\ \A p \in Held(reservINT) : USES_INT_FU(op(p))
  /\ \A p \in Held(reservFP) : USES_FP_FU(op(p))

\* The mark issue_To_execute looks for.
MarkedUnstarted == \A p \in 1 .. fetch_index :
  IS_TRAP(op(p)) \/ tom_execute_cycle[p] = -1 \/ tom_execute_cycle[p] > 0

TagInv ==
  /\ NoTagsYet /\ MapExact /\ TagsExact
  /\ StationClasses /\ MarkedUnstarted
  /\ UnitsMatchStations
=============================================================================
