----------------------------- MODULE PisaSubset -----------------------------
(***************************************************************************)
(* The instructions of target-pisa/pisa.def that the models of             *)
(* sim-outorder.c execute: one of each kind they tell apart.  An address   *)
(* of an instruction counts instructions and one of data counts words; a   *)
(* word has WORD values.  The text starts at address 2: 0 is no address,   *)
(* and 1 is what bpred_lookup returns for a target it does not know.       *)
(***************************************************************************)
EXTENDS Naturals

CONSTANTS
  WORD,          \* values of a word
  NREGS          \* registers; the last one is the link register

Regs == 0 .. NREGS - 1
RA   == NREGS - 1

ASSUME WordAssumption == WORD \in Nat \ {0} /\ NREGS \in Nat \ {0}

Ops == {"nop", "addiu", "lw", "sw", "beq", "j", "jal", "jalr", "jr"}
Instructions == [op : Ops, rs : Regs, rt : Regs, rd : Regs, imm : Nat]

\* An instruction: operand registers, destination, and immediate, offset or target.
NOP == [op |-> "nop", rs |-> 0, rt |-> 0, rd |-> 0, imm |-> 0]

IsCtrl(i)   == i.op \in {"beq", "j", "jal", "jalr", "jr"}
IsUncond(i) == i.op \in {"j", "jal", "jalr", "jr"}
IsDirect(i) == i.op \in {"beq", "j", "jal"}
IsCall(i)   == i.op \in {"jal", "jalr"}
IsReturn(i) == i.op = "jr" /\ i.rs = RA
IsIndir(i)  == i.op = "jr"
WritesReg(i) == i.op \in {"addiu", "lw", "jal", "jalr"}
Dest(i)     == IF i.op = "jal" THEN RA ELSE i.rd

\* The address behind pc.  The code goes on by 8 from a bogus address too: those
\* behind the bogus one bpred_lookup returns are misaligned, others are far from
\* the text, and the NOPs fetched there are all alike.  One address stands for
\* them, so that fetch does not run into the text, which here begins at once.
InText(text, pc)  == pc - 1 \in DOMAIN text
InstOf(text, pc)  == IF InText(text, pc) THEN text[pc - 1] ELSE NOP
Behind(text, pc)  == IF InText(text, pc) THEN pc + 1 ELSE pc

\* The instruction i at pc with registers R: the address it accesses, what it
\* writes to its destination if a load finds the word `loaded', and where it goes on.
EffAddr(i, R) == (R[i.rs] + i.imm) % WORD
Result(i, pc, R, loaded) ==
  CASE i.op = "addiu" -> (R[i.rs] + i.imm) % WORD
    [] i.op = "lw"    -> loaded
    [] OTHER          -> (pc + 1) % WORD
\* jalr writes its link register before it reads the target.
NextPC(text, i, pc, R) ==
  CASE i.op = "beq" /\ R[i.rs] = R[i.rt] -> i.imm
    [] i.op \in {"j", "jal"}             -> i.imm
    [] i.op = "jalr" -> IF i.rd = i.rs THEN pc + 1 ELSE R[i.rs]
    [] i.op = "jr"                       -> R[i.rs]
    [] OTHER                             -> Behind(text, pc)
=============================================================================
