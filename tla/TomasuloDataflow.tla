-------------------------- MODULE TomasuloDataflow --------------------------
(***************************************************************************)
(* What the pipeline of tomasulo.c promises, without queue, stations, tags *)
(* or clock: instructions issue in program order, start when the results   *)
(* they read are out, and put their results on the one bus, one at a time. *)
(***************************************************************************)
EXTENDS Integers, FiniteSets

CONSTANTS
  Insns,                 \* instructions, as their numbers in program order
  Traces,                \* the possible values of trace
  Reads(_, _),           \* Reads(t, i): the producers of i's operands in t
  Class(_, _),           \* Class(t, i): "trap", "ctrl", "store", "int" or "fp"
  IntUnits, FpUnits      \* how many instructions may execute at once

VARIABLES trace, phase

Phases == {"waiting", "station", "unit", "bus", "done"}
In(ph) == {i \in Insns : phase[i] = ph}
Move(S, ph) == phase' = [i \in Insns |-> IF i \in S THEN ph ELSE phase[i]]

Init == trace \in Traces /\ phase = [i \in Insns |-> "waiting"]

\* In order, traps aside; a control instruction needs nothing more.
Issue(i) ==
  /\ i \in In("waiting") /\ Class(trace, i) # "trap"
  /\ \A j \in In("waiting") : j < i => Class(trace, j) = "trap"
  /\ Move({i}, IF Class(trace, i) = "ctrl" THEN "done" ELSE "station")

\* Only with all operands there, and no more than there are units.
Start(S) ==
  /\ S \subseteq In("station")
  /\ \A i \in S : Reads(trace, i) \subseteq In("done")
  /\ Move(S, "unit")
  /\ LET busy(c) == Cardinality({i \in S \cup In("unit") : Class(trace, i) \in c})
     IN busy({"int", "store"}) <= IntUnits /\ busy({"fp"}) <= FpUnits

\* Stores vanish; one result may take the bus when it is free.
Finish(S, b) ==
  /\ S \subseteq In("unit") /\ \A i \in S : Class(trace, i) = "store"
  /\ b \subseteq In("unit") /\ \A i \in b : Class(trace, i) \in {"int", "fp"}
  /\ b # {} => In("bus") = {}
  /\ phase' = [i \in Insns |-> IF i \in S THEN "done"
                               ELSE IF i \in b THEN "bus" ELSE phase[i]]

Retire == In("bus") # {} /\ Move(In("bus"), "done")

Next ==
  /\ \/ \E i \in Insns : Issue(i)
     \/ Start({i \in Insns : phase[i] # phase'[i]})
     \/ \E b \in {{}} \cup {{i} : i \in Insns} :
          Finish({i \in Insns \ b : phase[i] # phase'[i]}, b)
     \/ Retire
  /\ UNCHANGED trace

Spec == Init /\ [][Next]_<<trace, phase>>
=============================================================================
