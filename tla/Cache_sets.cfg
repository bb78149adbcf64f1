\* Two sets of two blocks under each policy, with a prefetch of any block; and a set of four.
SPECIFICATION Spec
CONSTANTS
  ADDRS = 6
  Configs <- TwoOrFourWays
  Cmds = {"Read"}
  DataAddrs <- Upper
  PrefetchTargets <- AtMostOne
INVARIANTS
  TypeOK
  LastBlockHolds
  OneCopy
  BucketsComplete
  LruKeepsTheHit
PROPERTY
  ReplacesAsPromised
