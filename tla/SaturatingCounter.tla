------------------------- MODULE SaturatingCounter -------------------------
(***************************************************************************)
(* The two-bit counters of lab2/cbp4-assign2/predictor.cc, which all three *)
(* predictors keep in their tables.                                        *)
(***************************************************************************)
EXTENDS Integers

STRONG_TAKEN     == 3
WEAK_TAKEN       == 2
WEAK_NOT_TAKEN   == 1
STRONG_NOT_TAKEN == 0
Counters         == STRONG_NOT_TAKEN .. STRONG_TAKEN

PredictsTaken(c) == c >= WEAK_TAKEN

\* A mistake: the upper end tested too late.
TopMissed(c, taken) == IF taken THEN (IF c > STRONG_TAKEN THEN c ELSE c + 1)
                       ELSE (IF c = STRONG_NOT_TAKEN THEN c ELSE c - 1)

\* One step towards the outcome, stopping at the ends.
Train(c, taken) == IF taken THEN (IF c = STRONG_TAKEN THEN c ELSE c + 1)
                   ELSE (IF c = STRONG_NOT_TAKEN THEN c ELSE c - 1)
=============================================================================
