---------------------------- MODULE MCOutOfOrder ----------------------------
(* Instances of OutOfOrder for TLC. *)
EXTENDS OutOfOrderRefinement

\* Two registers beside DTMP.
I(op, out, in1, in2, target) ==
  [op |-> op, out |-> <<out, 0>>, in |-> <<in1, in2, 0>>, target |-> target]

\* A wrong path, behind a branch that waits for a product, with a load and one that waits for it.
WrongLoad == << I("mult", 1, 2, 0, 0), I("beq", 0, 1, 0, 4), I("lw", 1, 0, 2, 0), I("lw", 2, 0, 1, 0),
                I("j", 0, 0, 0, 1) >>
\* A load behind a store whose value is late.
LateValue == << I("mult", 1, 2, 0, 0), I("sw", 0, 1, 2, 0), I("lw", 2, 0, 2, 0), I("beq", 0, 2, 0, 1),
                I("j", 0, 0, 0, 1) >>
\* A load behind a store whose address is late.
LateAddress == << I("mult", 1, 1, 2, 0), I("sw", 0, 2, 1, 0), I("lw", 2, 0, 2, 0), I("j", 0, 0, 0, 1) >>
\* Two stores, the older of which gets its value later than the younger one.
TwoStores == << I("lw", 1, 0, 2, 0), I("sw", 0, 1, 2, 0), I("sw", 0, 2, 2, 0), I("lw", 2, 0, 2, 0),
                I("j", 0, 0, 0, 1) >>
\* Two writers of a register on a correct path, and one on a wrong path.
Writers == << I("mult", 1, 1, 1, 0), I("add", 1, 2, 0, 0), I("beq", 0, 2, 0, 1), I("add", 1, 1, 1, 0),
              I("j", 0, 0, 0, 2) >>
Traps == << I("mult", 1, 1, 2, 0), I("syscall", 2, 1, 0, 0), I("nop", 0, 0, 0, 0), I("jr", 0, 2, 0, 0) >>

Units == << [quantity |-> 1, x |-> <<[class |-> "IntALU", oplat |-> 1, issuelat |-> 1]>>],
            [quantity |-> 1, x |-> <<[class |-> "IntMULT", oplat |-> 3, issuelat |-> 2]>>],
            [quantity |-> 1, x |-> <<[class |-> "RdPort", oplat |-> 1, issuelat |-> 1],
                                     [class |-> "WrPort", oplat |-> 1, issuelat |-> 1]>>] >>

MCPrograms == {WrongLoad, LateValue, LateAddress, TwoStores, Writers, Traps}
Flags(S, lsq) == [inorder |-> "inorder" \in S, include_spec |-> "spec" \in S, perfect |-> "perfect" \in S,
                  bugcompat |-> "bugcompat" \in S, LSQ_size |-> lsq]
MCConfigs == {Flags({"spec"}, 4), Flags({"spec", "bugcompat"}, 2), Flags({"inorder", "spec"}, 4),
              Flags({"perfect"}, 2)}

\* No target, or the one of the branch, or another one.
MCPredictions(text, pc) == {0, text[pc].target, 1}
=============================================================================
