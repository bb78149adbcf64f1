\* Two blocks of one address before a direct-mapped dl2 of two blocks of two,
\* next-line prefetches in both.
SPECIFICATION Spec
CONSTANTS
  ADDRS = 8
  DataAddrs <- Upper
  Cmds = {"Read", "Write"}
  policy = "LRU"
  nsets1 = 1
  bsize1 = 1
  assoc1 = 2
  hsize1 = 0
  PrefetchTargets1 <- NextLine1
  nsets2 = 2
  bsize2 = 2
  assoc2 = 1
  hsize2 = 0
  PrefetchTargets2 <- NextLine2
INVARIANT
  NoStoreLost
PROPERTIES
  FlushedIntoMemory
