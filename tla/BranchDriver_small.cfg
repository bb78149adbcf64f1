\* Two branches that share every table entry but the histories and RP counters.
SPECIFICATION Spec
CONSTANTS
  TWO_BIT_SIZE = 1
  BHT_ENTRY_COUNT = 2
  PHT_ENTRY_COUNT = 1
  PHT_ROWS = 2
  GSHARE_HISTORY = 2
  GSHARE_SIZE = 2
  Hash <- XorHash
  RP_SIZE = 3
  BYTE_VALUES = 4
  SELECTION_COUNTER_SIZE = 1
  PCs = {16, 33}
  Records <- AllRecords
INVARIANTS
  TypeOK
  ChooserSeesThisBranch
PROPERTY
  ChooserFollowsTheBetter
