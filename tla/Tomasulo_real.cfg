\* Three-instruction loops on the sizes and latencies of tomasulo.c; the last page of the trace
\* is full, so that fetch runs off it when the trace ends in a trap.
CONSTANTS
  INSTR_QUEUE_SIZE = 10
  RESERV_INT_SIZE = 4
  RESERV_FP_SIZE = 2
  FU_INT_SIZE = 2
  FU_FP_SIZE = 1
  FU_INT_LATENCY = 4
  FU_FP_LATENCY = 9
  MD_TOTAL_REGS = 3
  INSTR_TRACE_SIZE = 8
  sim_num_insn = 15
  MaxCycle = 200
  Programs <- Loops
SPECIFICATION FairSpec
INVARIANTS TypeOK RawResolved TagsInFlight MapTableIsYoungest QueueIsTheWindow UnitsMatchStations
PROPERTIES OldestStartsFirst OldestBroadcastsFirst ImplementsDataflow Terminates
