------------------------- MODULE BranchDriverProofs -------------------------
(***************************************************************************)
(* The branch predictors keep to their tables, the chooser follows the     *)
(* better of its two, and 2bitsat misses every branch that alternates, for *)
(* tables of every size, every hash and every trace or loop.               *)
(***************************************************************************)
EXTENDS BranchLoop, FiniteSetTheorems, TLAPS

LEMMA ModInRange ==
  ASSUME NEW n \in Nat, NEW k \in Nat \ {0}
  PROVE  n % k \in 0 .. k - 1
BY SMT

LEMMA DivIsNat ==
  ASSUME NEW n \in Nat, NEW k \in Nat \ {0}
  PROVE  n \div k \in Nat
BY SMT

\* A trained counter is still a two-bit counter.
LEMMA TrainIsCounter ==
  ASSUME NEW c \in 0 .. 3, NEW t \in BOOLEAN
  PROVE  Open!Train(c, t) \in 0 .. 3
BY SMT DEF Open!Train, Open!STRONG_TAKEN, Open!STRONG_NOT_TAKEN

LEMMA TypeInit == Init => TypeOK
BY SizesAssumption, SMT
   DEF Init, TypeOK, TwoBit!Init, Level!Init, Open!Init,
       TwoBit!Counters, Level!Counters, Open!Counters, Predictors,
       TwoBit!STRONG_TAKEN, TwoBit!STRONG_NOT_TAKEN, TwoBit!WEAK_NOT_TAKEN,
       Level!STRONG_TAKEN, Level!STRONG_NOT_TAKEN, Level!WEAK_NOT_TAKEN,
       Open!STRONG_TAKEN, Open!STRONG_NOT_TAKEN, Open!WEAK_NOT_TAKEN, Open!WEAK_TAKEN

LEMMA RecordFields ==
  ASSUME NEW rec \in Records
  PROVE  rec.PC \in PCs /\ rec.PC \in Nat /\ rec.branchTaken \in BOOLEAN
<1>1. rec \in [PC : PCs, branchTaken : BOOLEAN] /\ PCs \subseteq Nat
  BY RecordsAssumption
<1> QED
  BY <1>1

\* Asking for a prediction disturbs no table.
LEMMA TypePredict ==
  ASSUME TypeOK, NEW rec \in Records, Predict(rec)
  PROVE  TypeOK'
<1>1. UNCHANGED <<two_bit_cont, gBHT, gPHT, gShare, gGlobalSelect, RP_cnt, gSELECTION_COUNTER, wrong>>
  BY DEF Predict, Open!GetPrediction_MasterSlave, Open!tableVars
<1>2. gMaster_last' \in BOOLEAN /\ gAltpred_last' \in BOOLEAN
  BY DEF Predict, Open!GetPrediction_MasterSlave, Open!GetPrediction_Global,
         Open!GetPrediction_RP, Open!PredictsTaken
<1>3. record' \in Records \cup {NoRecord}
  BY DEF Predict
<1>4. predDir' \in [Predictors -> BOOLEAN]
  <2>1. TwoBit!GetPrediction_2bitsat(rec.PC) \in BOOLEAN
    BY DEF TwoBit!GetPrediction_2bitsat, TwoBit!PredictsTaken
  <2>2. Level!GetPrediction_2level(rec.PC) \in BOOLEAN
    BY DEF Level!GetPrediction_2level, Level!PredictsTaken
  <2>3. Open!Prediction(rec.PC) \in BOOLEAN
    <3>1. Open!GetPrediction_Global(rec.PC) \in BOOLEAN
      BY DEF Open!GetPrediction_Global, Open!PredictsTaken
    <3>2. Open!GetPrediction_RP(rec.PC) \in BOOLEAN
      BY DEF Open!GetPrediction_RP
    <3>3. CASE Open!ChoosesMaster(rec.PC)
      BY <3>1, <3>3 DEF Open!Prediction
    <3>4. CASE ~Open!ChoosesMaster(rec.PC)
      BY <3>2, <3>4 DEF Open!Prediction
    <3> QED
      BY <3>3, <3>4
  <2> QED
    BY <2>1, <2>2, <2>3, SMTT(30) DEF Predict, Predictors
<1> QED
  BY <1>1, <1>2, <1>3, <1>4 DEF TypeOK

\* An update stays inside the tables, and their entries inside their range.
LEMMA TypeResolve ==
  ASSUME TypeOK, Resolve
  PROVE  TypeOK'
<1> DEFINE pc    == record.PC
           taken == record.branchTaken
<1>0. pc \in PCs /\ pc \in Nat /\ taken \in BOOLEAN
  BY RecordFields DEF TypeOK, Resolve
<1>1. two_bit_cont' \in [0 .. TWO_BIT_SIZE - 1 -> TwoBit!Counters]
  <2>1. \A c \in 0 .. 3 : TwoBit!Train(c, taken) \in 0 .. 3
    BY <1>0, SMT DEF TwoBit!Train, TwoBit!STRONG_TAKEN, TwoBit!STRONG_NOT_TAKEN
  <2>2. TwoBit!Counters = 0 .. 3
    BY DEF TwoBit!Counters, TwoBit!STRONG_TAKEN, TwoBit!STRONG_NOT_TAKEN
  <2> QED
    BY <2>1, <2>2 DEF TypeOK, Resolve, TwoBit!UpdatePredictor_2bitsat
<1>2. gBHT' \in [0 .. BHT_ENTRY_COUNT - 1 -> 0 .. BYTE_VALUES - 1]
  <2>1. \A h \in 0 .. BYTE_VALUES - 1 : Level!Shifted(h, taken) \in 0 .. BYTE_VALUES - 1
    BY <1>0, SizesAssumption, SMT DEF Level!Shifted
  <2> QED
    BY <2>1 DEF TypeOK, Resolve, Level!UpdatePredictor_2level
<1>3. gPHT' \in [0 .. PHT_ROWS - 1 -> [0 .. PHT_ENTRY_COUNT - 1 -> Level!Counters]]
  <2>1. \A c \in 0 .. 3 : Level!Train(c, taken) \in 0 .. 3
    BY <1>0, SMT DEF Level!Train, Level!STRONG_TAKEN, Level!STRONG_NOT_TAKEN
  <2>2. Level!Counters = 0 .. 3
    BY DEF Level!Counters, Level!STRONG_TAKEN, Level!STRONG_NOT_TAKEN
  <2> DEFINE Column == [0 .. PHT_ENTRY_COUNT - 1 -> 0 .. 3]
  <2>3. ASSUME NEW col \in Column, NEW c
        PROVE  [col EXCEPT ![c] = Level!Train(@, taken)] \in Column
    BY <2>1
  <2> HIDE DEF Column
  <2>4. ASSUME NEW table \in [0 .. PHT_ROWS - 1 -> Column], NEW r, NEW c
        PROVE  [table EXCEPT ![r][c] = Level!Train(@, taken)] \in [0 .. PHT_ROWS - 1 -> Column]
    BY <2>3
  <2>5. gPHT \in [0 .. PHT_ROWS - 1 -> Column]
    BY <2>2 DEF TypeOK, Column
  <2>6. gPHT' = [gPHT EXCEPT ![Level!Row(pc)][Level!GetPHTIndex(pc)] = Level!Train(@, taken)]
    BY DEF Resolve, Level!UpdatePredictor_2level
  <2>7. gPHT' \in [0 .. PHT_ROWS - 1 -> Column]
    BY <2>4, <2>5, <2>6
  <2> QED
    BY <2>2, <2>7 DEF Column
<1>4. gShare' \in 0 .. GSHARE_HISTORY - 1
  BY <1>0, SizesAssumption, SMT
     DEF TypeOK, Resolve, Open!UpdatePredictor_MasterSlave, Open!UpdatePredictor_Global
<1>5. gGlobalSelect' \in [0 .. GSHARE_SIZE - 1 -> Open!Counters]
  <2>1. Open!Counters = 0 .. 3
    BY DEF Open!Counters, Open!STRONG_TAKEN, Open!STRONG_NOT_TAKEN
  <2>2. \A c \in 0 .. 3 : Open!Train(c, taken) \in 0 .. 3
    BY <1>0, TrainIsCounter
  <2> QED
    BY <2>1, <2>2 DEF TypeOK, Resolve, Open!UpdatePredictor_MasterSlave, Open!UpdatePredictor_Global
<1>6. RP_cnt' \in [0 .. RP_SIZE - 1 -> 0 .. BYTE_VALUES - 1]
  <2>1. \A c \in 0 .. BYTE_VALUES - 1 : Open!TrainRP(c, taken) \in 0 .. BYTE_VALUES - 1
    BY <1>0, SizesAssumption, SMT DEF Open!TrainRP
  <2> QED
    BY <2>1 DEF TypeOK, Resolve, Open!UpdatePredictor_MasterSlave, Open!UpdatePredictor_RP
<1>7. gSELECTION_COUNTER' \in [0 .. SELECTION_COUNTER_SIZE - 1 -> Open!Counters]
  <2>1. Open!Counters = 0 .. 3
    BY DEF Open!Counters, Open!STRONG_TAKEN, Open!STRONG_NOT_TAKEN
  <2>2. \A c \in 0 .. 3 : Open!Chooser(c, taken) \in 0 .. 3
    BY <1>0, TrainIsCounter DEF Open!Chooser
  <2> QED
    BY <2>1, <2>2 DEF TypeOK, Resolve, Open!UpdatePredictor_MasterSlave
<1>8. record' = NoRecord /\ predDir' = predDir /\ wrong' \subseteq Predictors
  BY DEF Resolve
<1>9. gMaster_last' = gMaster_last /\ gAltpred_last' = gAltpred_last
  BY DEF Resolve, Open!UpdatePredictor_MasterSlave, Open!lastVars
<1> QED
  BY <1>1, <1>2, <1>3, <1>4, <1>5, <1>6, <1>7, <1>8, <1>9 DEF TypeOK

\* Every step keeps the types.
LEMMA TypeStep ==
  ASSUME TypeOK, [Next]_driverVars
  PROVE  TypeOK'
<1>1. CASE \E rec \in Records : Predict(rec)
  BY <1>1, TypePredict
<1>2. CASE Resolve
  BY <1>2, TypeResolve
<1>3. CASE UNCHANGED driverVars
  BY <1>3 DEF driverVars, tables, Level!levelVars, Open!tableVars, Open!lastVars, TypeOK
<1> QED
  BY <1>1, <1>2, <1>3 DEF Next

\* No two-bit counter, history or byte ever leaves its range, the wrapping RP
\* counters included: tables of any size, any hash, any trace.
THEOREM TypeCorrect == Spec => []TypeOK
<1>1. TypeOK /\ [Next]_driverVars => TypeOK'
  BY TypeStep
<1> QED
  BY TypeInit, <1>1, PTL DEF Spec

\* The predictions depend on the tables only.
LEMMA SamePredictions ==
  ASSUME UNCHANGED Open!tableVars, NEW pc
  PROVE  /\ Open!GetPrediction_Global(pc)' = Open!GetPrediction_Global(pc)
         /\ Open!GetPrediction_RP(pc)' = Open!GetPrediction_RP(pc)
         /\ Open!ChoosesMaster(pc)' = Open!ChoosesMaster(pc)
BY DEF Open!tableVars, Open!GetPrediction_Global, Open!GetPredictionIndex_Global,
       Open!GetPrediction_RP, Open!ChoosesMaster

LEMMA ChooserInduction ==
  ASSUME ChooserSeesThisBranch, [Next]_driverVars
  PROVE  ChooserSeesThisBranch'
<1>1. ASSUME NEW rec \in Records, Predict(rec)
      PROVE  ChooserSeesThisBranch'
  <2>1. UNCHANGED Open!tableVars /\ record' = rec
    BY <1>1 DEF Predict, Open!GetPrediction_MasterSlave
  <2>2. /\ gMaster_last'  = Open!GetPrediction_Global(rec.PC)
        /\ gAltpred_last' = Open!GetPrediction_RP(rec.PC)
        /\ predDir'["openend"] = Open!Prediction(rec.PC)
    BY <1>1 DEF Predict, Open!GetPrediction_MasterSlave, Predictors
  <2>3. /\ Open!GetPrediction_Global(rec.PC)' = Open!GetPrediction_Global(rec.PC)
        /\ Open!GetPrediction_RP(rec.PC)' = Open!GetPrediction_RP(rec.PC)
        /\ Open!ChoosesMaster(rec.PC)' = Open!ChoosesMaster(rec.PC)
    BY <2>1, SamePredictions
  <2> QED
    BY <2>1, <2>2, <2>3 DEF ChooserSeesThisBranch, Open!Prediction
<1>2. CASE Resolve
  BY <1>2 DEF Resolve, ChooserSeesThisBranch
<1>3. CASE UNCHANGED driverVars
  <2>1. UNCHANGED Open!tableVars /\ UNCHANGED <<Open!lastVars, record, predDir>>
    BY <1>3 DEF driverVars, tables
  <2> QED
    BY <2>1, SamePredictions DEF ChooserSeesThisBranch, Open!lastVars
<1> QED
  BY <1>1, <1>2, <1>3 DEF Next

\* What the chooser is trained with, through two globals, is what its two
\* tables say of the very branch it is trained for.
THEOREM ChooserSeesThisBranchAlways == Spec => []ChooserSeesThisBranch
<1>1. Init => ChooserSeesThisBranch
  BY DEF Init, ChooserSeesThisBranch
<1> QED
  BY <1>1, ChooserInduction, PTL DEF Spec

\* A chooser entry changes sides only towards the table that alone was right.
LEMMA ChooserFlip ==
  ASSUME TypeOK, NEW c \in 0 .. 3, NEW taken \in BOOLEAN,
         Open!PredictsTaken(c) # Open!PredictsTaken(Open!Chooser(c, taken))
  PROVE  /\ taken = IF Open!PredictsTaken(c) THEN gAltpred_last ELSE gMaster_last
         /\ gMaster_last # gAltpred_last
<1>1. gMaster_last \in BOOLEAN /\ gAltpred_last \in BOOLEAN
  BY DEF TypeOK
<1>2. gMaster_last # gAltpred_last
  BY DEF Open!Chooser
<1>3. Open!PredictsTaken(c) # Open!PredictsTaken(Open!Train(c, taken = gMaster_last))
  BY <1>2 DEF Open!Chooser
<1>4. CASE taken = gMaster_last
  <2>1. ~Open!PredictsTaken(c)
    BY <1>3, <1>4, SMT DEF Open!PredictsTaken, Open!Train, Open!STRONG_TAKEN, Open!WEAK_TAKEN
  <2> QED
    BY <2>1, <1>2, <1>4
<1>5. CASE taken # gMaster_last
  <2>1. Open!PredictsTaken(c)
    BY <1>3, <1>5, SMT DEF Open!PredictsTaken, Open!Train, Open!STRONG_NOT_TAKEN, Open!WEAK_TAKEN
  <2> QED
    BY <2>1, <1>1, <1>2, <1>5
<1> QED
  BY <1>4, <1>5

LEMMA ChooserStep ==
  ASSUME TypeOK, ChooserSeesThisBranch, [Next]_driverVars, NEW pc \in PCs,
         Open!ChoosesMaster(pc) # Open!ChoosesMaster(pc)'
  PROVE  /\ predDir["openend"] # record.branchTaken
         /\ record.branchTaken =
              IF Open!ChoosesMaster(pc) THEN Open!GetPrediction_RP(record.PC)
                                        ELSE Open!GetPrediction_Global(record.PC)
<1> DEFINE i     == Open!GetIndex_MasterSlave(pc)
           taken == record.branchTaken
<1>1. gSELECTION_COUNTER' # gSELECTION_COUNTER
  BY DEF Open!ChoosesMaster
<1>2. Resolve
  BY <1>1 DEF Next, Predict, Open!GetPrediction_MasterSlave, Open!tableVars, driverVars, tables
<1>3. taken \in BOOLEAN /\ record.PC \in PCs
  BY <1>2, RecordFields DEF Resolve, TypeOK
<1>4. i \in 0 .. SELECTION_COUNTER_SIZE - 1
  <2>1. pc \in Nat /\ pc \div 4 \in Nat
    BY RecordsAssumption, DivIsNat
  <2> QED
    BY <2>1, ModInRange, SizesAssumption DEF Open!GetIndex_MasterSlave
<1>5. gSELECTION_COUNTER \in [0 .. SELECTION_COUNTER_SIZE - 1 -> 0 .. 3]
  BY DEF TypeOK, Open!Counters, Open!STRONG_TAKEN, Open!STRONG_NOT_TAKEN
<1>6. gSELECTION_COUNTER' = [gSELECTION_COUNTER EXCEPT
        ![Open!GetIndex_MasterSlave(record.PC)] = Open!Chooser(@, taken)]
  BY <1>2 DEF Resolve, Open!UpdatePredictor_MasterSlave
<1>7. Open!PredictsTaken(gSELECTION_COUNTER[i]) # Open!PredictsTaken(gSELECTION_COUNTER'[i])
  BY DEF Open!ChoosesMaster
<1>8. /\ Open!GetIndex_MasterSlave(record.PC) = i
      /\ gSELECTION_COUNTER'[i] = Open!Chooser(gSELECTION_COUNTER[i], taken)
  BY <1>4, <1>5, <1>6, <1>7
<1>9. /\ taken = IF Open!ChoosesMaster(pc) THEN gAltpred_last ELSE gMaster_last
      /\ gMaster_last # gAltpred_last
  <2> DEFINE c == gSELECTION_COUNTER[i]
  <2>1. c \in 0 .. 3
    BY <1>4, <1>5
  <2>2. Open!PredictsTaken(c) # Open!PredictsTaken(Open!Chooser(c, taken))
    BY <1>7, <1>8
  <2>3. Open!ChoosesMaster(pc) <=> Open!PredictsTaken(c)
    BY DEF Open!ChoosesMaster
  <2> HIDE DEF c, taken
  <2>4. /\ taken = IF Open!PredictsTaken(c) THEN gAltpred_last ELSE gMaster_last
        /\ gMaster_last # gAltpred_last
    BY <2>1, <2>2, <1>3, ChooserFlip, Zenon
  <2> QED
    BY <2>3, <2>4
<1>10. Open!ChoosesMaster(record.PC) <=> Open!ChoosesMaster(pc)
  BY <1>8 DEF Open!ChoosesMaster
<1>11. /\ gMaster_last  = Open!GetPrediction_Global(record.PC)
       /\ gAltpred_last = Open!GetPrediction_RP(record.PC)
       /\ predDir["openend"] = IF Open!ChoosesMaster(record.PC) THEN gMaster_last ELSE gAltpred_last
  BY <1>2 DEF Resolve, ChooserSeesThisBranch
<1> QED
  BY <1>9, <1>10, <1>11

\* The chooser never leaves a table that alone was right: it changes sides
\* only after openend missed a branch the other table had.
THEOREM ChooserFollowsTheBetterAlways == Spec => ChooserFollowsTheBetter
<1>1. TypeOK /\ ChooserSeesThisBranch /\ [Next]_driverVars =>
        [\A pc \in PCs :
           Open!ChoosesMaster(pc) # Open!ChoosesMaster(pc)' =>
             /\ predDir["openend"] # record.branchTaken
             /\ record.branchTaken =
                  IF Open!ChoosesMaster(pc) THEN Open!GetPrediction_RP(record.PC)
                                            ELSE Open!GetPrediction_Global(record.PC)]_driverVars
  BY ChooserStep
<1> QED
  BY <1>1, TypeCorrect, ChooserSeesThisBranchAlways, PTL DEF Spec, ChooserFollowsTheBetter

-----------------------------------------------------------------------------
\* Loops of branches.

LoopTyped ==
  /\ TypeOK /\ body \in Bodies /\ pos \in DOMAIN body
  /\ record # NoRecord => record = body[pos]

\* Between two branches the counter of one that alternates is next to the middle, on
\* the side of the outcome before.
Halfway ==
  \A pc \in PCs : Alternates(pc) /\ Alone(pc) =>
    two_bit_cont[TwoBit!GetIndex_2bitsat(pc)] =
      IF Met(pc, pos) % 2 = 0 THEN TwoBit!WEAK_NOT_TAKEN ELSE TwoBit!WEAK_TAKEN

TwoBitPredicted ==
  record # NoRecord => predDir["2bitsat"] = TwoBit!GetPrediction_2bitsat(record.PC)

\* The body of a loop, place by place.
LEMMA LoopPlaces ==
  ASSUME body \in Bodies
  PROVE  /\ Len(body) \in Nat \ {0} /\ DOMAIN body = 1 .. Len(body)
         /\ \A i \in DOMAIN body : body[i] \in Records
<1>1. body # <<>> /\ body \in Seq(Records)
  BY BodiesAssumption
<1> QED
  BY <1>1

\* How often a branch has been met at the place that follows.
LEMMA MetNext ==
  ASSUME body \in Bodies, NEW i \in DOMAIN body, NEW pc
  PROVE  /\ Met(pc, 1) = 0 /\ Met(pc, i) \in Nat
         /\ Met(pc, i + 1) = IF body[i].PC = pc THEN Met(pc, i) + 1 ELSE Met(pc, i)
         /\ Met(pc, Len(body) + 1) = Cardinality(Places(pc))
<1> DEFINE Below(k) == {j \in Places(pc) : j < k}
<1>1. /\ Len(body) \in Nat \ {0} /\ DOMAIN body = 1 .. Len(body) /\ i \in 1 .. Len(body)
      /\ Places(pc) \subseteq 1 .. Len(body)
  BY LoopPlaces DEF Places
<1>2. IsFiniteSet(Places(pc)) /\ IsFiniteSet(Below(i))
  <2>1. IsFiniteSet(1 .. Len(body))
    BY <1>1, FS_Interval
  <2>2. IsFiniteSet(Places(pc))
    BY <1>1, <2>1, FS_Subset
  <2>3. Below(i) \subseteq Places(pc)
    OBVIOUS
  <2> QED
    BY <2>2, <2>3, FS_Subset
<1>3. Met(pc, 1) = 0
  <2>1. Below(1) = {}
    BY <1>1
  <2> QED
    BY <2>1, FS_EmptySet DEF Met
<1>4. Met(pc, i) \in Nat
  BY <1>2, FS_CardinalityType DEF Met
<1>5. Met(pc, i + 1) = IF body[i].PC = pc THEN Met(pc, i) + 1 ELSE Met(pc, i)
  <2>1. CASE body[i].PC = pc
    <3>1. Below(i + 1) = Below(i) \cup {i} /\ i \notin Below(i)
      BY <1>1, <2>1 DEF Places
    <3> QED
      BY <1>2, <2>1, <3>1, FS_AddElement DEF Met
  <2>2. CASE body[i].PC # pc
    <3>1. Below(i + 1) = Below(i)
      BY <1>1, <2>2 DEF Places
    <3> QED
      BY <2>2, <3>1 DEF Met
  <2> QED
    BY <2>1, <2>2
<1>6. Met(pc, Len(body) + 1) = Cardinality(Places(pc))
  <2>1. Below(Len(body) + 1) = Places(pc)
    BY <1>1
  <2> QED
    BY <2>1 DEF Met
<1> QED
  BY <1>3, <1>4, <1>5, <1>6

\* The parity at the next place of the loop, also where the loop begins again.
LEMMA ParityNext ==
  ASSUME body \in Bodies, NEW i \in DOMAIN body, NEW pc, Alternates(pc), NEW n,
         n = (i % Len(body)) + 1
  PROVE  /\ n \in DOMAIN body
         /\ body[i].PC # pc => (Met(pc, n) % 2 = 0 <=> Met(pc, i) % 2 = 0)
         /\ body[i].PC = pc => (Met(pc, n) % 2 = 0 <=> Met(pc, i) % 2 # 0)
<1>1. Len(body) \in Nat \ {0} /\ DOMAIN body = 1 .. Len(body)
  BY LoopPlaces
<1>2. n = IF i = Len(body) THEN 1 ELSE i + 1
  <2>1. CASE i = Len(body)
    <3>1. Len(body) % Len(body) = 0
      BY <1>1, SMT
    <3> QED
      BY <2>1, <3>1
  <2>2. CASE i # Len(body)
    <3>1. i \in Nat /\ i < Len(body)
      BY <1>1, <2>2
    <3>2. i % Len(body) = i
      BY <1>1, <3>1, SMT
    <3> QED
      BY <2>2, <3>2
  <2> QED
    BY <2>1, <2>2
<1>3. Met(pc, n) % 2 = Met(pc, i + 1) % 2
  <2>1. CASE i = Len(body)
    <3>1. n = 1 /\ Met(pc, n) = 0 /\ Met(pc, i + 1) % 2 = 0
      BY <1>2, <2>1, MetNext DEF Alternates
    <3> QED
      BY <3>1
  <2>2. CASE i # Len(body)
    BY <1>2, <2>2
  <2> QED
    BY <2>1, <2>2
<1>4. /\ Met(pc, i) \in Nat
      /\ Met(pc, i + 1) = IF body[i].PC = pc THEN Met(pc, i) + 1 ELSE Met(pc, i)
  BY MetNext
<1>5. \A m \in Nat : (m + 1) % 2 = 0 <=> m % 2 # 0
  OBVIOUS
<1> QED
  BY <1>1, <1>2, <1>3, <1>4, <1>5

\* The driver in a loop takes the steps of the driver.
LEMMA LoopSteps ==
  ASSUME LoopTyped, [LoopNext]_loopVars
  PROVE  [Next]_driverVars
<1>1. CASE Fetch
  <2>1. body[pos] \in Records
    BY LoopPlaces DEF LoopTyped
  <2> QED
    BY <1>1, <2>1 DEF Fetch, Next
<1>2. CASE Retire
  BY <1>2 DEF Retire, Next
<1>3. CASE UNCHANGED loopVars
  BY <1>3 DEF loopVars
<1> QED
  BY <1>1, <1>2, <1>3 DEF LoopNext

\* All counters start at WEAK_NOT_TAKEN.
LEMMA HalfwayInit == LoopInit => LoopTyped /\ Halfway /\ TwoBitPredicted
<1> SUFFICES ASSUME LoopInit PROVE LoopTyped /\ Halfway /\ TwoBitPredicted
  OBVIOUS
<1>1. body \in Bodies /\ pos = 1 /\ Init /\ record = NoRecord /\ TypeOK
  BY TypeInit DEF LoopInit, Init
<1>2. pos \in DOMAIN body
  BY <1>1, LoopPlaces
<1>3. ASSUME NEW pc \in PCs
      PROVE  /\ Met(pc, pos) % 2 = 0
             /\ two_bit_cont[TwoBit!GetIndex_2bitsat(pc)] = TwoBit!WEAK_NOT_TAKEN
  <2>1. Met(pc, pos) = 0
    BY <1>1, <1>2, MetNext
  <2>2. TwoBit!GetIndex_2bitsat(pc) \in 0 .. TWO_BIT_SIZE - 1
    BY SizesAssumption, RecordsAssumption, ModInRange DEF TwoBit!GetIndex_2bitsat
  <2>3. two_bit_cont = [i \in 0 .. TWO_BIT_SIZE - 1 |-> TwoBit!WEAK_NOT_TAKEN]
    BY <1>1 DEF Init, TwoBit!Init
  <2> QED
    BY <2>1, <2>2, <2>3
<1> QED
  BY <1>1, <1>2, <1>3 DEF LoopTyped, Halfway, TwoBitPredicted

\* The prediction of a branch that alternates is never its outcome.
LEMMA HalfwayMisses ==
  ASSUME LoopTyped, Halfway, TwoBitPredicted
  PROVE  TwoBitMissesAlternation
<1> SUFFICES ASSUME record # NoRecord, Alternates(record.PC), Alone(record.PC)
             PROVE  predDir["2bitsat"] # record.branchTaken
  BY DEF TwoBitMissesAlternation
<1>1. record = body[pos] /\ body \in Bodies /\ pos \in DOMAIN body /\ record \in Records
  BY LoopPlaces DEF LoopTyped
<1>2. record.PC \in PCs /\ record.branchTaken \in BOOLEAN
  BY <1>1, RecordFields
<1>3. record.branchTaken <=> Met(record.PC, pos) % 2 = 0
  BY <1>1 DEF Alternates, Places
<1>4. two_bit_cont[TwoBit!GetIndex_2bitsat(record.PC)] =
        IF Met(record.PC, pos) % 2 = 0 THEN TwoBit!WEAK_NOT_TAKEN ELSE TwoBit!WEAK_TAKEN
  BY <1>2 DEF Halfway
<1>5. predDir["2bitsat"] <=> Met(record.PC, pos) % 2 # 0
  <2>1. predDir["2bitsat"] =
          (two_bit_cont[TwoBit!GetIndex_2bitsat(record.PC)] >= TwoBit!WEAK_TAKEN)
    BY DEF TwoBitPredicted, TwoBit!GetPrediction_2bitsat, TwoBit!PredictsTaken
  <2>2. two_bit_cont[TwoBit!GetIndex_2bitsat(record.PC)] >= TwoBit!WEAK_TAKEN
          <=> Met(record.PC, pos) % 2 # 0
    BY <1>4 DEF TwoBit!WEAK_NOT_TAKEN, TwoBit!WEAK_TAKEN
  <2> QED
    BY <2>1, <2>2, Zenon
<1> QED
  BY <1>3, <1>5

\* A prediction leaves the counters alone.
LEMMA HalfwayFetch ==
  ASSUME LoopTyped, Halfway, Fetch
  PROVE  (record # NoRecord => record = body[pos])' /\ Halfway' /\ TwoBitPredicted'
<1>1. /\ body' = body /\ pos' = pos /\ two_bit_cont' = two_bit_cont /\ record' = body[pos]
      /\ predDir'["2bitsat"] = TwoBit!GetPrediction_2bitsat(body[pos].PC)
  BY DEF Fetch, Predict, Predictors
<1> QED
  BY <1>1 DEF Halfway, TwoBitPredicted, TwoBit!GetPrediction_2bitsat, Alternates, Places, Met,
              Alone, TwoBit!GetIndex_2bitsat

\* The update of a branch that alternates takes its counter across the middle.
LEMMA HalfwayRetire ==
  ASSUME LoopTyped, Halfway, Retire
  PROVE  /\ pos' \in DOMAIN body /\ record' = NoRecord /\ body' = body
         /\ Halfway'
<1> DEFINE x == TwoBit!GetIndex_2bitsat(record.PC)
<1>1. /\ body' = body /\ pos' = (pos % Len(body)) + 1 /\ record' = NoRecord /\ record # NoRecord
      /\ two_bit_cont' = [two_bit_cont EXCEPT
                            ![x] = TwoBit!Train(two_bit_cont[x], record.branchTaken)]
  BY DEF Retire, Resolve, TwoBit!UpdatePredictor_2bitsat
<1>2. record = body[pos] /\ body \in Bodies /\ pos \in DOMAIN body /\ record \in Records
  BY <1>1, LoopPlaces DEF LoopTyped
<1>3. pos' \in DOMAIN body
  <2>1. Len(body) \in Nat \ {0} /\ DOMAIN body = 1 .. Len(body)
    BY <1>2, LoopPlaces
  <2>2. pos % Len(body) \in 0 .. Len(body) - 1
    <3>1. pos \in Nat
      BY <1>2, <2>1
    <3> QED
      BY <2>1, <3>1, ModInRange
  <2> QED
    BY <1>1, <2>1, <2>2
<1>4. ASSUME NEW pc \in PCs, Alternates(pc), Alone(pc)
      PROVE  two_bit_cont'[TwoBit!GetIndex_2bitsat(pc)] =
               IF Met(pc, pos') % 2 = 0 THEN TwoBit!WEAK_NOT_TAKEN ELSE TwoBit!WEAK_TAKEN
  <2> DEFINE y == TwoBit!GetIndex_2bitsat(pc)
  <2>1. /\ two_bit_cont \in [0 .. TWO_BIT_SIZE - 1 -> 0 .. 3]
        /\ y \in 0 .. TWO_BIT_SIZE - 1
    BY <1>4, SizesAssumption, RecordsAssumption, ModInRange
       DEF TwoBit!GetIndex_2bitsat, LoopTyped, TypeOK, TwoBit!Counters, TwoBit!STRONG_TAKEN,
           TwoBit!STRONG_NOT_TAKEN
  <2>2. two_bit_cont[y] =
          IF Met(pc, pos) % 2 = 0 THEN TwoBit!WEAK_NOT_TAKEN ELSE TwoBit!WEAK_TAKEN
    BY <1>4 DEF Halfway
  <2>3. /\ record.PC # pc => (Met(pc, pos') % 2 = 0 <=> Met(pc, pos) % 2 = 0)
        /\ record.PC = pc => (Met(pc, pos') % 2 = 0 <=> Met(pc, pos) % 2 # 0)
    BY <1>1, <1>2, <1>4, ParityNext
  <2>4. CASE record.PC # pc
    <3>1. x # y
      BY <1>2, <1>4, <2>4 DEF Alone
    <3> HIDE DEF x, y
    <3>2. two_bit_cont'[y] = two_bit_cont[y]
      BY <1>1, <2>1, <3>1
    <3> QED
      BY <2>2, <2>3, <2>4, <3>2 DEF y
  <2>5. CASE record.PC = pc
    <3>1. x = y
      BY <2>5
    <3>2. record.branchTaken <=> Met(pc, pos) % 2 = 0
      BY <1>2, <1>4, <2>5 DEF Alternates, Places
    <3>3. two_bit_cont'[y] = TwoBit!Train(two_bit_cont[y], record.branchTaken)
      <4> HIDE DEF x, y
      <4> QED
        BY <1>1, <2>1, <3>1
    <3>4. TwoBit!Train(two_bit_cont[y], record.branchTaken) =
            IF Met(pc, pos) % 2 = 0 THEN TwoBit!WEAK_TAKEN ELSE TwoBit!WEAK_NOT_TAKEN
      <4> HIDE DEF y
      <4> QED
        BY <2>2, <3>2 DEF TwoBit!Train, TwoBit!WEAK_TAKEN, TwoBit!WEAK_NOT_TAKEN,
                          TwoBit!STRONG_TAKEN, TwoBit!STRONG_NOT_TAKEN
    <3> QED
      BY <2>3, <2>5, <3>3, <3>4
  <2> QED
    BY <2>4, <2>5
<1>5. \A pc : (Alternates(pc)' <=> Alternates(pc)) /\ (Alone(pc)' <=> Alone(pc))
            /\ Met(pc, pos)' = Met(pc, pos')
  BY <1>1 DEF Alternates, Places, Met, Alone, TwoBit!GetIndex_2bitsat
<1>6. Halfway'
  BY <1>4, <1>5 DEF Halfway, TwoBit!GetIndex_2bitsat
<1> QED
  BY <1>1, <1>3, <1>6

\* For tables of every size and every loop: 2bitsat mispredicts a branch that alternates,
\* starting with taken, every time it meets it, unless another branch shares its counter.
THEOREM AlternationIsMissed == LoopSpec => []TwoBitMissesAlternation
<1> DEFINE Inv == LoopTyped /\ Halfway /\ TwoBitPredicted
<1>1. LoopInit => Inv
  BY HalfwayInit
<1>2. Inv /\ [LoopNext]_loopVars => Inv'
  <2> SUFFICES ASSUME Inv, [LoopNext]_loopVars PROVE Inv'
    OBVIOUS
  <2>1. TypeOK'
    BY LoopSteps, TypeStep DEF LoopTyped
  <2>2. CASE Fetch
    <3>1. body' = body /\ pos' = pos
      BY <2>2 DEF Fetch
    <3> QED
      BY <2>1, <2>2, <3>1, HalfwayFetch DEF LoopTyped
  <2>3. CASE Retire
    BY <2>1, <2>3, HalfwayRetire DEF LoopTyped, TwoBitPredicted
  <2>4. CASE UNCHANGED loopVars
    <3>1. UNCHANGED <<two_bit_cont, record, predDir, body, pos>>
      BY <2>4 DEF loopVars, driverVars, tables
    <3> QED
      BY <2>1, <3>1 DEF LoopTyped, Halfway, TwoBitPredicted, TwoBit!GetPrediction_2bitsat,
                        Alternates, Places, Met, Alone, TwoBit!GetIndex_2bitsat
  <2> QED
    BY <2>2, <2>3, <2>4 DEF LoopNext
<1>3. Inv => TwoBitMissesAlternation
  BY HalfwayMisses
<1> QED
  BY <1>1, <1>2, <1>3, PTL DEF LoopSpec
=============================================================================
