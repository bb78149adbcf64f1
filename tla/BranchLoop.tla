---------------------------- MODULE BranchLoop ----------------------------
(***************************************************************************)
(* A loop as the workload of the predictors, such as the micro benchmark   *)
(* lab2/cbp4-assign2/mb.c was written to be: the trace is a sequence of    *)
(* branches repeated without end.                                          *)
(***************************************************************************)
EXTENDS BranchDriver, Sequences, FiniteSets

CONSTANT Bodies    \* the loop bodies to try, sequences of records

ASSUME BodiesAssumption == \A b \in Bodies : b # <<>> /\ b \in Seq(Records)

VARIABLES body, pos
loopVars == <<driverVars, body, pos>>

LoopInit == Init /\ body \in Bodies /\ pos = 1

\* The next branch of the loop reaches the driver, and is resolved.
Fetch == Predict(body[pos]) /\ UNCHANGED <<body, pos>>
Retire == Resolve /\ pos' = (pos % Len(body)) + 1 /\ UNCHANGED body

LoopNext == Fetch \/ Retire
\* The driver's loop ends with the trace only, so its next step is taken.
LoopSpec == LoopInit /\ [][LoopNext]_loopVars /\ WF_loopVars(LoopNext)

-----------------------------------------------------------------------------
\* "For 2 level predictor, this problem is solved due to the private BHT":
\* of every loop short enough for its history, the 2level predictor is
\* eventually right about every branch; so is openend, whatever its RP
\* counters do, since the chooser turns to gshare.
LoopsAreLearned == <>[](wrong \cap {"2level", "openend"} = {})

\* The test RP_cnt[index] < 256 of UpdatePredictor_RP is there to stop the
\* counter at its top, as the test > 0 stops it at 0: of branches that are
\* always taken the RP table would come to predict taken and stay so.  It does
\* not: the test holds of every BYTE, and the counters wrap round.
RPLearnsBias ==
  (\A i \in 1 .. Len(body) : body[i].branchTaken) => <>[](record # NoRecord => gAltpred_last)

\* "The branch-pattern of this jump (...) should be miss predicted by 2 bit
\* saturate totally": a branch that alternates, starting with taken, is
\* mispredicted by 2bitsat every time it is met.
Places(pc) == {i \in DOMAIN body : body[i].PC = pc}
Met(pc, i) == Cardinality({j \in Places(pc) : j < i})
Alternates(pc) ==
  /\ Places(pc) # {} /\ Cardinality(Places(pc)) % 2 = 0
  /\ \A i \in Places(pc) : body[i].branchTaken <=> Met(pc, i) % 2 = 0
Alone(pc) == \A r \in Records :
  r.PC # pc => TwoBit!GetIndex_2bitsat(r.PC) # TwoBit!GetIndex_2bitsat(pc)
TwoBitMissesAlternation ==
  record # NoRecord /\ Alternates(record.PC) /\ Alone(record.PC)
    => predDir["2bitsat"] # record.branchTaken
=============================================================================
