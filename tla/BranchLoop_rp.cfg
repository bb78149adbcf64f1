\* What the test on 256 in UpdatePredictor_RP is for.
SPECIFICATION LoopSpec
CONSTANTS
  TWO_BIT_SIZE = 16
  BHT_ENTRY_COUNT = 16
  PHT_ENTRY_COUNT = 8
  PHT_ROWS = 64
  GSHARE_HISTORY = 16
  GSHARE_SIZE = 31
  Hash <- XorHash
  RP_SIZE = 16
  BYTE_VALUES = 256
  SELECTION_COUNTER_SIZE = 7
  PCs <- MbPCs
  Records <- AllRecords
  Bodies <- AllBodies
PROPERTY
  RPLearnsBias
