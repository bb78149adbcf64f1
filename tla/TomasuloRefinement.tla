------------------------- MODULE TomasuloRefinement -------------------------
(***************************************************************************)
(* The detailed pipeline implements the dataflow machine: the phase of an  *)
(* instruction is where its pointer is found.                              *)
(***************************************************************************)
EXTENDS Tomasulo

phase == [i \in Index |->
            CASE i = commonDataBus -> "bus"
              [] i # commonDataBus /\ i \in Held(fuINT) \cup Held(fuFP) -> "unit"
              [] i \in (Held(reservINT) \cup Held(reservFP))
                       \ (Held(fuINT) \cup Held(fuFP)) -> "station"
              [] i \notin InFlight /\ Issued(i) -> "done"
              [] i \notin InFlight /\ ~Issued(i) -> "waiting"]

ReadsIn(t, i) ==
  LET result(j, r) == WRITES_CDB(t[j].op) /\ r \in {t[j].r_out[1], t[j].r_out[2]} /\ r # DNA
  IN UNION {{j \in 1 .. i - 1 :
               /\ result(j, t[i].r_in[k])
               /\ \A h \in j + 1 .. i - 1 : ~result(h, t[i].r_in[k])} : k \in 1 .. 3}

ClassIn(t, i) ==
  CASE t[i].op \in {"cond", "uncond"} -> "ctrl"
    [] t[i].op \in {"icomp", "load"}  -> "int"
    [] t[i].op = "fcomp"              -> "fp"
    [] OTHER                          -> t[i].op

Dataflow == INSTANCE TomasuloDataflow WITH
              Insns <- Index, Traces <- Programs, Reads <- ReadsIn,
              Class <- ClassIn, IntUnits <- FU_INT_SIZE, FpUnits <- FU_FP_SIZE

\* Every behaviour of the pipeline is one of the dataflow machine.
ImplementsDataflow == Dataflow!Spec
=============================================================================
