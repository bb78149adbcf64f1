\* The loop of mb.c and every short loop of one branch, with the rows, columns and widths of predictor.cc and
\* tables just large enough for its two branches not to meet.
SPECIFICATION LoopSpec
CONSTANTS
  TWO_BIT_SIZE = 16
  BHT_ENTRY_COUNT = 16
  PHT_ENTRY_COUNT = 8
  PHT_ROWS = 64
  GSHARE_HISTORY = 16
  GSHARE_SIZE = 31
  Hash <- XorHash
  RP_SIZE = 16
  BYTE_VALUES = 256
  SELECTION_COUNTER_SIZE = 7
  PCs <- MbPCs
  Records <- AllRecords
  Bodies <- AllBodies
INVARIANT
  TwoBitMissesAlternation
PROPERTY
  LoopsAreLearned
