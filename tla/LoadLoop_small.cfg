\* All loops of up to four addresses out of eight, by one load or by two;
\* often is twice.
SPECIFICATION LoopSpec
CONSTANTS
  ADDRS = 64
  bsize = 16
  prefetch_type = 3
  OPEntry_SIZE = 2
  OPLink_SIZE = 2
  OFTEN = 2
  Bodies <- AllBodies
INVARIANT
  FindsWhatStrideFinds
PROPERTIES
  StrideLearned
  JumpsLearned
  LooksForFollowers
