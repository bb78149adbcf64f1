SPECIFICATION Spec
CONSTANTS
  WORD = 16
  NREGS = 4
  MD_PAGE_SIZE = 1
  MEM_PTAB_SIZE = 2
  STORE_HASH_SIZE = 2
  ValidAddrs = {1, 2, 3, 4, 5, 6, 7, 8, 9, 10, 11, 12, 13, 14, 15}
  bimod_size = 2
  l1size = 1
  l2size = 2
  meta_size = 2
  shift_width = 1
  xor = TRUE
  Hash <- XorHash
  btb_sets = 2
  btb_assoc = 2
  retstack_size = 2
  ruu_ifq_size = 2
  MAX_BRANCHES = 3
  Programs <- MCPrograms
  Configs <- MCConfigs
PROPERTIES StackFollowsPath ImplementsMachine
