---------------------------- MODULE BranchDriver ----------------------------
(***************************************************************************)
(* The driver of lab2/cbp4-assign2/main.cc: for every conditional branch   *)
(* of the trace it asks the three predictors, then tells all three how the *)
(* branch went, and counts who was wrong.                                  *)
(***************************************************************************)
EXTENDS Integers

CONSTANTS TWO_BIT_SIZE, BHT_ENTRY_COUNT, PHT_ENTRY_COUNT, PHT_ROWS,
          GSHARE_HISTORY, GSHARE_SIZE, Hash(_, _), RP_SIZE, BYTE_VALUES,
          SELECTION_COUNTER_SIZE,
          PCs,         \* the addresses of conditional branches
          Records      \* what GetNextRecord may return

ASSUME SizesAssumption ==
  /\ TWO_BIT_SIZE \in Nat \ {0} /\ BHT_ENTRY_COUNT \in Nat \ {0}
  /\ PHT_ENTRY_COUNT \in Nat \ {0} /\ PHT_ROWS \in Nat \ {0}
  /\ GSHARE_HISTORY \in Nat \ {0} /\ GSHARE_SIZE \in Nat \ {0}
  /\ RP_SIZE \in Nat \ {0, 1} /\ BYTE_VALUES \in Nat \ {0}
  /\ SELECTION_COUNTER_SIZE \in Nat \ {0}

ASSUME RecordsAssumption ==
  /\ PCs \subseteq Nat
  /\ Records \subseteq [PC : PCs, branchTaken : BOOLEAN]

ASSUME HashAssumption == \A pc \in PCs, h \in 0 .. GSHARE_HISTORY - 1 : Hash(pc, h) \in Nat

VARIABLES two_bit_cont, gBHT, gPHT,
          gShare, gGlobalSelect, RP_cnt, gSELECTION_COUNTER,
          gMaster_last, gAltpred_last,
          record,      \* the trace record at hand, NoRecord between two
          predDir,     \* what each predictor said of it
          wrong        \* the predictors whose numMispred_* the last one raised

TwoBit == INSTANCE TwoBitSat
Level  == INSTANCE TwoLevel
Open   == INSTANCE Tournament

tables == <<two_bit_cont, Level!levelVars, Open!tableVars>>
driverVars == <<tables, Open!lastVars, record, predDir, wrong>>

Predictors == {"2bitsat", "2level", "openend"}
NoRecord   == [PC |-> -1, branchTaken |-> FALSE]

Init ==
  /\ TwoBit!Init /\ Level!Init /\ Open!Init
  /\ record = NoRecord
  /\ predDir = [q \in Predictors |-> FALSE]
  /\ wrong = {}

\* GetNextRecord, and the three GetPrediction calls.
Predict(rec) ==
  /\ record = NoRecord
  /\ record' = rec
  /\ predDir' = [q \in Predictors |->
       CASE q = "2bitsat" -> TwoBit!GetPrediction_2bitsat(rec.PC)
         [] q = "2level"  -> Level!GetPrediction_2level(rec.PC)
         [] q = "openend" -> Open!Prediction(rec.PC)]
  /\ Open!GetPrediction_MasterSlave(rec.PC)
  /\ UNCHANGED <<two_bit_cont, gBHT, gPHT, wrong>>

\* The three UpdatePredictor calls.
Resolve ==
  /\ record # NoRecord
  /\ TwoBit!UpdatePredictor_2bitsat(record.PC, record.branchTaken)
  /\ Level!UpdatePredictor_2level(record.PC, record.branchTaken)
  /\ Open!UpdatePredictor_MasterSlave(record.PC, record.branchTaken)
  /\ wrong' = {q \in Predictors : predDir[q] # record.branchTaken}
  /\ record' = NoRecord
  /\ UNCHANGED predDir

Next == (\E rec \in Records : Predict(rec)) \/ Resolve
Spec == Init /\ [][Next]_driverVars

-----------------------------------------------------------------------------
TypeOK ==
  /\ two_bit_cont \in [0 .. TWO_BIT_SIZE - 1 -> TwoBit!Counters]
  /\ gBHT \in [0 .. BHT_ENTRY_COUNT - 1 -> 0 .. BYTE_VALUES - 1]
  /\ gPHT \in [0 .. PHT_ROWS - 1 -> [0 .. PHT_ENTRY_COUNT - 1 -> Level!Counters]]
  /\ gShare \in 0 .. GSHARE_HISTORY - 1
  /\ gGlobalSelect \in [0 .. GSHARE_SIZE - 1 -> Open!Counters]
  /\ RP_cnt \in [0 .. RP_SIZE - 1 -> 0 .. BYTE_VALUES - 1]
  /\ gSELECTION_COUNTER \in [0 .. SELECTION_COUNTER_SIZE - 1 -> Open!Counters]
  /\ gMaster_last \in BOOLEAN /\ gAltpred_last \in BOOLEAN
  /\ record \in Records \cup {NoRecord}
  /\ predDir \in [Predictors -> BOOLEAN]
  /\ wrong \subseteq Predictors

\* The predictions the chooser is trained with are those the two tables give
\* for this very branch, although Get and Update meet only through the
\* globals gMaster_last and gAltpred_last.
ChooserSeesThisBranch ==
  record # NoRecord =>
    /\ gMaster_last  = Open!GetPrediction_Global(record.PC)
    /\ gAltpred_last = Open!GetPrediction_RP(record.PC)
    /\ predDir["openend"] = IF Open!ChoosesMaster(record.PC) THEN gMaster_last ELSE gAltpred_last

\* A branch changes sides only after openend missed a branch that the other
\* table had right: the chooser never leaves a table that alone was right.
ChooserFollowsTheBetter ==
  [][\A pc \in PCs :
       Open!ChoosesMaster(pc) # Open!ChoosesMaster(pc)' =>
         /\ predDir["openend"] # record.branchTaken
         /\ record.branchTaken =
              IF Open!ChoosesMaster(pc) THEN Open!GetPrediction_RP(record.PC)
                                        ELSE Open!GetPrediction_Global(record.PC)]_driverVars
=============================================================================
