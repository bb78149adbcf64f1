-------------------------- MODULE StridePrefetcher --------------------------
(***************************************************************************)
(* stride_prefetcher of lab4/simplesim-3.0d-assig4/cache.c: the Reference  *)
(* Prediction Table, and the address each access makes it look for.        *)
(***************************************************************************)
EXTENDS ReferencePrediction

CONSTANT prefetch_type    \* entries of the table

VARIABLES m_pRPTTable,
          target          \* what was looked for last: a block address, or None
None == -1

Entries == 0 .. prefetch_type - 1

Init ==
  /\ m_pRPTTable = [i \in Entries |->
       [PC |-> 0, previous |-> 0, stride |-> 0, state |-> "Not_Used"]]
  /\ target = None

table_index(pc) == (pc \div 8) % prefetch_type
Entry(pc) == m_pRPTTable[table_index(pc)]

\* The entry belongs to the PC that used it last.
SamePC(pc) == Entry(pc).PC = pc

NewEntry(pc, addr) ==
  /\ ~SamePC(pc)
  /\ m_pRPTTable' = [m_pRPTTable EXCEPT ![table_index(pc)] =
       [PC |-> pc, previous |-> addr, stride |-> 0, state |-> "Init"]]
  /\ target' = None

\* The address to look for is computed with the stride as it was before.
Train(pc, addr) ==
  LET e    == Entry(pc)
      same == Plus(e.previous, e.stride) = addr
  IN
  /\ SamePC(pc)
  /\ m_pRPTTable' = [m_pRPTTable EXCEPT ![table_index(pc)] =
       [PC |-> pc,
        previous |-> addr,
        stride |-> IF LearnsStride(e.state, same) THEN Stride(e.previous, addr) ELSE e.stride,
        state |-> NextState(e.state, same)]]
  /\ target' = IF NextState(e.state, same) = "No_Predict" THEN None
               ELSE CACHE_BADDR(Plus(addr, e.stride))

stride_prefetcher(pc, addr) == NewEntry(pc, addr) \/ Train(pc, addr)
=============================================================================
