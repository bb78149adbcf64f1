\* The comment on is_simulation_done.
CONSTANTS
  INSTR_QUEUE_SIZE = 2
  RESERV_INT_SIZE = 2
  RESERV_FP_SIZE = 2
  FU_INT_SIZE = 2
  FU_FP_SIZE = 1
  FU_INT_LATENCY = 1
  FU_FP_LATENCY = 2
  MD_TOTAL_REGS = 3
  INSTR_TRACE_SIZE = 4
  sim_num_insn = 2
  MaxCycle = 20
  Programs <- EndInInsn
SPECIFICATION Spec
INVARIANT DonePipelineEmpty
