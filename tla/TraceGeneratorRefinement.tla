---------------------- MODULE TraceGeneratorRefinement ----------------------
(***************************************************************************)
(* The trace generator executes the program, and its wrong paths on copies *)
(* that are made when a branch is mispredicted and dropped when it is      *)
(* resolved.                                                               *)
(***************************************************************************)
EXTENDS TraceGenerator

FlatMemory == [a \in 0 .. WORD - 1 |-> MEM_READ(ptab, a)]

\* The copy a wrong path works on, which is nowhere in one piece.
WrongView == [regs |-> GPR,
              memory |-> [a \in 0 .. WORD - 1 |->
                            IF Copied(store_htable, a) THEN SpecRead(ptab, store_htable, a)
                            ELSE MEM_READ(ptab, a)]]

\* Where the correct path goes on, as in OutOfOrderRefinement.
PathPC == IF spec_mode THEN recover_PC
          ELSE IF fetch_data # <<>> THEN Head(fetch_data).PC ELSE fetch_pred_PC

NoView == [regs |-> <<>>, memory |-> <<>>]

Program == INSTANCE Machine WITH bugcompat <- config.bugcompat, pc <- PathPC, memory <- FlatMemory,
                                 regs <- [regs EXCEPT ![0] = 0],
                                 copy <- IF spec_mode THEN WrongView ELSE NoView

\* Whatever is predicted, fetched and squashed, and however pages and wrong-path stores move in
\* their buckets, the program executes on its own registers and memory; a wrong path sees the
\* state of its mispredicted branch and its own stores; recovery leaves no trace of it.
ImplementsMachine == Program!Spec
=============================================================================
