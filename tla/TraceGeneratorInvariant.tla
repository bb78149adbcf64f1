---------------------- MODULE TraceGeneratorInvariant -----------------------
(***************************************************************************)
(* The inductive invariant of TraceGenerator.                              *)
(***************************************************************************)
EXTENDS TraceGeneratorRefinement

\* A mispredicted branch that has not been resolved.
Pending(k) == window[k].recover /\ ~ window[k].completed

\* A wrong path has one branch to recover to, and what was dispatched behind it is of the wrong path.
OneRecovery ==
  /\ \A j, k \in 1 .. Len(window) : Pending(k) => spec_mode /\ (window[j].spec_mode <=> j > k)
  /\ spec_mode => \E k \in 1 .. Len(window) : Pending(k)
  /\ ~ spec_mode => \A k \in 1 .. Len(window) : ~ window[k].spec_mode

\* The registers and stores of a wrong path are those of the last one only.
WrongTables ==
  /\ ~ spec_mode => use_spec_R = {}
  /\ \A a \in Nat : Copied(store_htable, a) => a \in ValidAddrs /\ spec_mode /\ ~ config.bugcompat

\* The fetch queue follows the predictions.
QueueFollows ==
  LET n == Len(fetch_data) IN
  /\ \A k \in 1 .. n : fetch_data[k].pred_PC = IF k = n THEN fetch_pred_PC ELSE fetch_data[k + 1].PC
  /\ \A k \in 1 .. n : ~ IsCtrl(Inst(fetch_data[k])) => fetch_data[k].pred_PC = Behind(code, fetch_data[k].PC)
ProgramInvariant == OneRecovery /\ WrongTables /\ QueueFollows

\* The buffer has no other target of a direct branch than its own, nor does one go anywhere else.
Knows(text, e) == LET i == InstOf(text, e.addr) IN IsDirect(i) => e.target = i.imm
DirectTargets ==
  /\ \A s \in 0 .. btb_sets - 1, w \in 1 .. btb_assoc : Knows(code, btb[s][w])
  /\ \A k \in 1 .. Len(window) :
       IsDirect(Inst(window[k])) =>
         window[k].next_PC \in {Inst(window[k]).imm, Behind(code, window[k].PC)}
  /\ \A k \in 1 .. Len(fetch_data) :
       IsDirect(Inst(fetch_data[k])) =>
         fetch_data[k].pred_PC \in {Inst(fetch_data[k]).imm, Behind(code, fetch_data[k].PC), 1}

\* Nothing is fetched behind a target that is not known.
NowhereStays ==
  \A j \in 1 .. Len(fetch_data) :
    fetch_data[j].pred_PC = 1 =>
      fetch_pred_PC = 1 /\ \A k \in j + 1 .. Len(fetch_data) : fetch_data[k].PC = 1

\* The top of the stack without the branches of the wrong path and of the fetch queue.
WrongPath == {k \in 1 .. Len(window) : window[k].spec_mode}
PathTop   == tos - Deltas(window, WrongPath) - Deltas(fetch_data, 1 .. Len(fetch_data))

\* a and b are the same place of the stack.
SamePlace(a, b) == a % retstack_size = b % retstack_size

\* What a branch will recover the top of the stack to is what it was before its look-up.
TopsRecorded ==
  /\ \A j \in 1 .. Len(fetch_data) : IsCtrl(Inst(fetch_data[j])) =>
       SamePlace(tos - Deltas(fetch_data, j .. Len(fetch_data)), fetch_data[j].idx)
  /\ \A k \in 1 .. Len(window) : Pending(k) =>
       SamePlace(PathTop, window[k].idx + Delta(window[k].PC))

StackInvariant == DirectTargets /\ NowhereStays /\ TopsRecorded
=============================================================================
