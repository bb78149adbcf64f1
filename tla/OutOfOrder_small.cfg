SPECIFICATION FairSpec
CONSTANTS
  fu_config <- Units
  RUU_size = 4
  ruu_ifq_size = 2
  ruu_decode_width = 2
  ruu_issue_width = 2
  ruu_commit_width = 2
  fetch_speed = 1
  ruu_branch_penalty = 1
  max_insts = 6
  MAX_RS_LINKS = 20
  MAX_STD_UNKNOWNS = 4
  MD_TOTAL_REGS = 3
  Configs <- MCConfigs
  Programs <- MCPrograms
  Addrs = {0, 1}
  LoadLats = {1, 5}
  TlbLats = {1}
  FetchLats = {2}
  Predictions <- MCPredictions
INVARIANTS TypeOK NoPanic WaitsForYoungest LoadsSeeStores NoneForgotten WrongPathIsTail LsqFollowsRuu NoLinkLost
PROPERTIES ImplementsInOrder Terminates
