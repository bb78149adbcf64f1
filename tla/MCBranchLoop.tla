---------------------------- MODULE MCBranchLoop ----------------------------
(* Loops for the branch predictors, for TLC. *)
EXTENDS BranchLoop, Bitwise

\* (PC >> 2) ^ history.
XorHash(pc, his) == (pc \div 4) ^^ his

AllRecords == [PC : PCs, branchTaken : BOOLEAN]

\* The loop of mb.c: the jg at 6a9 leaves the loop, so it is not taken; the je
\* at 6b2 is taken when j is even, and every pass changes the parity of j.
jg == [PC |-> 1705, branchTaken |-> FALSE]
je(taken) == [PC |-> 1714, branchTaken |-> taken]
MbBody == <<jg, je(TRUE), jg, je(FALSE)>>
MbPCs == {jg.PC, je(TRUE).PC}

\* Every loop of one branch with a pattern of at most three outcomes: three
\* bits of history tell all its positions apart.
ShortBodies == UNION {[1 .. n -> {je(TRUE), je(FALSE)}] : n \in 1 .. 3}
AllBodies == {MbBody} \cup ShortBodies
=============================================================================
