----------------------------- MODULE Tournament -----------------------------
(***************************************************************************)
(* The openend predictor of lab2/cbp4-assign2/predictor.cc: a gshare table *)
(* ("Global", the master) and a per-address BYTE counter ("RP", the        *)
(* alternative), with a table of counters that chooses between them.       *)
(* Update uses the two predictions Get left in gMaster_last and            *)
(* gAltpred_last.                                                          *)
(***************************************************************************)
EXTENDS SaturatingCounter

CONSTANTS GSHARE_HISTORY,          \* values of the global history
          GSHARE_SIZE,             \* counters of the gshare table
          Hash(_, _),              \* (PC >> 2) ^ history
          RP_SIZE,                 \* counters of the RP table
          BYTE_VALUES,             \* values of an RP counter, a BYTE
          SELECTION_COUNTER_SIZE   \* counters of the chooser

VARIABLES gShare, gGlobalSelect, RP_cnt, gSELECTION_COUNTER,
          gMaster_last, gAltpred_last
lastVars  == <<gMaster_last, gAltpred_last>>
tableVars == <<gShare, gGlobalSelect, RP_cnt, gSELECTION_COUNTER>>

\* gShare is read through its mask only, so it is kept masked.
GetPredictionIndex_Global(pc) == Hash(pc, gShare) % GSHARE_SIZE
GetPrediction_Global(pc) == PredictsTaken(gGlobalSelect[GetPredictionIndex_Global(pc)])
UpdatePredictor_Global(pc, taken) ==
  /\ gGlobalSelect' = [gGlobalSelect EXCEPT ![GetPredictionIndex_Global(pc)] = Train(@, taken)]
  /\ gShare' = (2 * gShare + (IF taken THEN 1 ELSE 0)) % GSHARE_HISTORY

\* The last of the RP_SIZE entries is never used.
RPIndex(pc) == (pc \div 16) % (RP_SIZE - 1)
GetPrediction_RP(pc) == RP_cnt[RPIndex(pc)] >= BYTE_VALUES \div 2

\* RP_cnt[index] < 256 holds of every BYTE: the increment wraps round to 0.
TrainRP(c, taken) == IF taken THEN (IF c < BYTE_VALUES THEN (c + 1) % BYTE_VALUES ELSE c)
                     ELSE (IF c > 0 THEN c - 1 ELSE c)
UpdatePredictor_RP(pc, taken) ==
  RP_cnt' = [RP_cnt EXCEPT ![RPIndex(pc)] = TrainRP(@, taken)]

GetIndex_MasterSlave(pc) == (pc \div 4) % SELECTION_COUNTER_SIZE
ChoosesMaster(pc) == PredictsTaken(gSELECTION_COUNTER[GetIndex_MasterSlave(pc)])

Init ==
  /\ gShare = 0
  /\ gGlobalSelect = [i \in 0 .. GSHARE_SIZE - 1 |-> WEAK_NOT_TAKEN]
  /\ RP_cnt = [i \in 0 .. RP_SIZE - 1 |-> BYTE_VALUES \div 2]
  /\ gSELECTION_COUNTER = [i \in 0 .. SELECTION_COUNTER_SIZE - 1 |-> WEAK_TAKEN]
  /\ gMaster_last = TRUE /\ gAltpred_last = TRUE

Prediction(pc) == IF ChoosesMaster(pc) THEN GetPrediction_Global(pc) ELSE GetPrediction_RP(pc)

\* A mistake: gAltpred_last left as it was, another branch's.
AltNotRefreshed(pc) ==
  /\ gMaster_last' = GetPrediction_Global(pc)
  /\ UNCHANGED <<tableVars, gAltpred_last>>
GetPrediction_MasterSlave(pc) ==
  /\ gMaster_last'  = GetPrediction_Global(pc)
  /\ gAltpred_last' = GetPrediction_RP(pc)
  /\ UNCHANGED tableVars

\* A mistake: trained for the other side.
ChooserSwapped(c, taken) ==
  IF gMaster_last = gAltpred_last THEN c ELSE Train(c, taken = gAltpred_last)

\* The chooser moves only when exactly one of the two was right.
Chooser(c, taken) ==
  IF gMaster_last = gAltpred_last THEN c ELSE Train(c, taken = gMaster_last)

UpdatePredictor_MasterSlave(pc, taken) ==
  /\ UpdatePredictor_Global(pc, taken)
  /\ UpdatePredictor_RP(pc, taken)
  /\ gSELECTION_COUNTER' =
       [gSELECTION_COUNTER EXCEPT ![GetIndex_MasterSlave(pc)] = Chooser(@, taken)]
  /\ UNCHANGED lastVars
=============================================================================
