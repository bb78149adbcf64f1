----------------------------- MODULE MCTomasulo -----------------------------
(* Instances of Tomasulo, with its refinement, for TLC. *)
EXTENDS TomasuloRefinement, TomasuloInvariant

Instr(o, out, in) == [op |-> o, r_out |-> <<out, DNA>>, r_in |-> <<in[1], in[2], DNA>>]

\* Dependences of every kind between two registers, both unit types, an
\* instruction without a result, one without a station, and a trap.
Kinds == {Instr("icomp", 1, <<2, DNA>>),
          Instr("load", 2, <<DNA, 1>>),
          Instr("fcomp", 1, <<DNA, 2>>),
          Instr("store", DNA, <<1, 2>>),
          Instr("cond", DNA, <<1, DNA>>),
          Instr("trap", DNA, <<DNA, DNA>>)}

AllPrograms    == [1 .. sim_num_insn -> Kinds]
EndInInsn      == {t \in AllPrograms : t[sim_num_insn].op # "trap"}
\* Three instructions executed in a loop, long enough to fill the queue of the source.
Loops          == {[i \in 1 .. sim_num_insn |-> body[((i - 1) % 3) + 1]] :
                     body \in [1 .. 3 -> Kinds]}
=============================================================================
