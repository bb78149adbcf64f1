------------------------------ MODULE TwoLevel ------------------------------
(* The 2level predictor of lab2/cbp4-assign2/predictor.cc: a history per     *)
(* branch selects a row of counters, the low bits of the address a column.   *)
EXTENDS SaturatingCounter

CONSTANTS BHT_ENTRY_COUNT,   \* branch histories
          PHT_ENTRY_COUNT,   \* counters of a row
          PHT_ROWS,          \* rows: 2 to the bits of history that are used
          BYTE_VALUES        \* values of a history, a BYTE

VARIABLES gBHT, gPHT
levelVars == <<gBHT, gPHT>>

GetPHTIndex(pc)      == pc % PHT_ENTRY_COUNT
GetBHTIndex(pc)      == (pc \div PHT_ENTRY_COUNT) % BHT_ENTRY_COUNT
GetHistoryIndex(his) == his % PHT_ROWS

Init ==
  /\ gBHT = [b \in 0 .. BHT_ENTRY_COUNT - 1 |-> 0]
  /\ gPHT = [h \in 0 .. PHT_ROWS - 1 |-> [c \in 0 .. PHT_ENTRY_COUNT - 1 |-> WEAK_NOT_TAKEN]]

Row(pc) == GetHistoryIndex(gBHT[GetBHTIndex(pc)])

GetPrediction_2level(pc) == PredictsTaken(gPHT[Row(pc)][GetPHTIndex(pc)])

\* A mistake: the shift without the outcome.
OutcomeNotRecorded(his, taken) == (2 * his) % BYTE_VALUES

\* The counter the history selects is trained before the history moves on.
Shifted(his, taken) == (2 * his + (IF taken THEN 1 ELSE 0)) % BYTE_VALUES

UpdatePredictor_2level(pc, taken) ==
  /\ gPHT' = [gPHT EXCEPT ![Row(pc)][GetPHTIndex(pc)] = Train(@, taken)]
  /\ gBHT' = [gBHT EXCEPT ![GetBHTIndex(pc)] = Shifted(@, taken)]
=============================================================================
