----------------------------- MODULE TwoBitSat -----------------------------
(* The 2bitsat predictor of lab2/cbp4-assign2/predictor.cc. *)
EXTENDS SaturatingCounter

CONSTANT TWO_BIT_SIZE    \* entries of the table

VARIABLE two_bit_cont

GetIndex_2bitsat(pc) == pc % TWO_BIT_SIZE

\* A mistake: the counters start at the end.
StrongInit == two_bit_cont = [i \in 0 .. TWO_BIT_SIZE - 1 |-> STRONG_NOT_TAKEN]
Init == two_bit_cont = [i \in 0 .. TWO_BIT_SIZE - 1 |-> WEAK_NOT_TAKEN]

GetPrediction_2bitsat(pc) == PredictsTaken(two_bit_cont[GetIndex_2bitsat(pc)])

UpdatePredictor_2bitsat(pc, taken) ==
  two_bit_cont' = [two_bit_cont EXCEPT ![GetIndex_2bitsat(pc)] = Train(@, taken)]
=============================================================================
