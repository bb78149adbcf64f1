\* A program that uses the first block of the address space.
SPECIFICATION Spec
CONSTANTS
  ADDRS = 4
  Configs <- LruOnly
  Cmds = {"Read", "Write"}
  DataAddrs <- AllAddrs
  PrefetchTargets <- AtMostOne
INVARIANT
  FastHitHasBlock
CHECK_DEADLOCK FALSE
