--------------------------- MODULE MCBranchDriver ---------------------------
(* Instances of the branch predictors and their driver for TLC. *)
EXTENDS BranchDriver, Bitwise

\* (PC >> 2) ^ history.
XorHash(pc, his) == (pc \div 4) ^^ his

AllRecords == [PC : PCs, branchTaken : BOOLEAN]
=============================================================================
