------------------------------ MODULE Machine -------------------------------
(***************************************************************************)
(* What sim-outorder promises the program it executes: one instruction     *)
(* after the other, on its registers and a flat memory.  Between two of    *)
(* them a copy of registers and memory may be taken for a wrong path,      *)
(* which executes anything on the copy and is thrown away as a whole.      *)
(***************************************************************************)
EXTENDS PisaSubset

CONSTANTS
  Programs,      \* texts with the initial registers
  ValidAddrs     \* where a wrong path may access memory

VARIABLES
  code,                \* the text
  bugcompat,           \* is a store of a wrong path lost?
  regs, memory, pc,
  copy                 \* [regs, memory] of the wrong path, or NoCopy
vars == <<code, bugcompat, regs, memory, pc, copy>>

Addrs == 0 .. WORD - 1
NoCopy == [regs |-> <<>>, memory |-> <<>>]

Init ==
  /\ \E p \in Programs : code = p.text /\ regs = p.regs
  /\ bugcompat \in BOOLEAN
  /\ memory = [a \in Addrs |-> 0]
  /\ pc = 2
  /\ copy = NoCopy

\* The instruction i at npc executed on R and M; a wrong path sees only ValidAddrs.
Executed(R, M, i, npc, wrong) ==
  LET addr == EffAddr(i, R)
      visible == wrong => addr \in ValidAddrs
      loaded == IF visible THEN M[addr] ELSE 0
  IN  [regs |-> IF WritesReg(i) /\ Dest(i) # 0 THEN [R EXCEPT ![Dest(i)] = Result(i, npc, R, loaded)] ELSE R,
       memory |-> IF i.op = "sw" /\ visible /\ ~ (wrong /\ bugcompat) THEN [M EXCEPT ![addr] = R[i.rt]] ELSE M]

Step ==
  /\ copy = NoCopy
  /\ LET i == InstOf(code, pc)
         next == Executed(regs, memory, i, pc, FALSE)
     IN  /\ regs' = next.regs
         /\ memory' = next.memory
         /\ pc' = NextPC(code, i, pc, regs)
         /\ \/ UNCHANGED copy
            \/ IsCtrl(i) /\ copy' = next
  /\ UNCHANGED <<code, bugcompat>>

WrongStep ==
  /\ copy # NoCopy
  /\ \E wpc \in DOMAIN code : copy' = Executed(copy.regs, copy.memory, code[wpc], wpc + 1, TRUE)
  /\ UNCHANGED <<code, bugcompat, regs, memory, pc>>

Recover == copy # NoCopy /\ copy' = NoCopy /\ UNCHANGED <<code, bugcompat, regs, memory, pc>>

Next == Step \/ WrongStep \/ Recover

Spec == Init /\ [][Next]_vars
=============================================================================
