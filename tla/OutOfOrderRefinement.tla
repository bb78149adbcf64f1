------------------------ MODULE OutOfOrderRefinement ------------------------
(***************************************************************************)
(* The pipeline of OutOfOrder executes and retires the program in order,   *)
(* whatever its predictions, wrong paths and latencies.                    *)
(***************************************************************************)
EXTENDS OutOfOrder

\* The instructions of the correct path in the RUU, oldest first: they are its first ones,
\* and a wrong path is behind them.
PathLength == Cardinality({p \in Window : ~ rs[RuuAt(p)].spec_mode})
PathWindow == [i \in 1 .. PathLength |-> rs[RuuAt(i - 1)].PC]

\* Where the correct path goes on: behind the mispredicted branch, or with the
\* oldest instruction that is fetched and not dispatched.
PathPC == IF spec_mode THEN recover_PC
          ELSE IF fetch_data # <<>> THEN Head(fetch_data).regs_PC ELSE fetch_pred_PC

OpcodeOf(text, pc) == InstOf(text, pc).op

Program == INSTANCE InOrder WITH Size <- RUU_size, Successors <- NextPCs, Opcode <- OpcodeOf,
                                 window <- PathWindow, npc <- PathPC

\* Every step of the pipeline executes the next instruction of the program,
\* retires the oldest one, or is invisible to the program; wrong paths are.
ImplementsInOrder == Program!Spec
=============================================================================
