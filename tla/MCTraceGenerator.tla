-------------------------- MODULE MCTraceGenerator --------------------------
(* Instances of TraceGenerator for TLC. *)
EXTENDS TraceGeneratorRefinement, Bitwise

XorHash(history, baddr) == history ^^ baddr

I(op, rs, rt, rd, imm) == [op |-> op, rs |-> rs, rt |-> rt, rd |-> rd, imm |-> imm]
\* Registers 0, 1, 2 and the link register 3.
P(text, r1, r2) == [text |-> text, regs |-> [r \in Regs |-> CASE r = 1 -> r1 [] r = 2 -> r2 [] OTHER -> 0]]

\* A function called from two places in a loop, with what looks like a call behind its return.
Calls == P(<< I("jal", 0, 0, 0, 5), I("jal", 0, 0, 0, 5), I("beq", 0, 0, 0, 2), I("jr", 3, 0, 0, 0),
              I("jal", 0, 0, 0, 2) >>, 0, 0)
\* Calls that nest deeper than the return-address stack; the outer ones return through other registers.
Nested == P(<< I("jal", 0, 0, 0, 4), I("j", 0, 0, 0, 2), I("addiu", 3, 0, 1, 0), I("jal", 0, 0, 0, 7),
               I("jr", 1, 0, 0, 0), I("addiu", 3, 0, 2, 0), I("jal", 0, 0, 0, 10), I("jr", 2, 0, 0, 0),
               I("jr", 3, 0, 0, 0) >>, 0, 0)
\* Two functions called in turn through a register.
N == I("nop", 0, 0, 0, 0)
Indirect == P(<< I("addiu", 1, 0, 1, 8), I("jalr", 1, 0, 3, 0), I("j", 0, 0, 0, 2), I("jr", 3, 0, 0, 0),
                 N, N, N, N, N, N, N, I("jr", 3, 0, 0, 0) >>, 5, 0)
\* A branch that is taken every other time, with stores and a load behind it of which the
\* wrong path may access only some.
Stores == P(<< I("sw", 1, 1, 0, 2), I("beq", 1, 0, 0, 6), I("sw", 1, 2, 0, 8), I("lw", 1, 0, 2, 8),
               I("addiu", 1, 0, 1, 8), I("j", 0, 0, 0, 2) >>, 0, 1)

MCPrograms == {Calls, Nested, Indirect, Stores}
C(class, update, bugcompat) == [class |-> class, update |-> update, bugcompat |-> bugcompat]
MCConfigs == {C("taken", "ID", FALSE), C("nottaken", "WB", TRUE), C("2bit", "ID", TRUE),
              C("2lev", "WB", FALSE), C("comb", "CT", FALSE)}
=============================================================================
