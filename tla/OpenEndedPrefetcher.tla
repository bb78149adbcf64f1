------------------------ MODULE OpenEndedPrefetcher ------------------------
(***************************************************************************)
(* open_ended_prefetcher of lab4/simplesim-3.0d-assig4/cache.c: a stride   *)
(* prefetcher whose entries, while they cannot predict a stride, count     *)
(* which address follows which, and look for those seen often enough.      *)
(***************************************************************************)
EXTENDS ReferencePrediction

CONSTANTS OPEntry_SIZE,  \* entries of the table
          OPLink_SIZE,   \* places for addresses, and followers of each
          OFTEN          \* how often is often enough, 500 in the code

VARIABLES m_aOPTable,
          targets        \* the block addresses looked for last, one after the other

Entries == 0 .. OPEntry_SIZE - 1
Links   == 0 .. OPLink_SIZE - 1
NoLinks == [i \in Links |-> [j \in Links |-> [addr |-> 0, count |-> 0]]]

Init ==
  /\ m_aOPTable = [i \in Entries |->
       [PC |-> 0, previous |-> 0, stride |-> 0, state |-> "Not_Used", link |-> NoLinks]]
  /\ targets = <<>>

table_index(pc)  == (pc \div 8) % OPEntry_SIZE
Entry(pc)        == m_aOPTable[table_index(pc)]
miss_inddex(addr) == (addr \div 8) % OPLink_SIZE

NewEntry(pc, addr) ==
  /\ Entry(pc).PC # pc
  /\ m_aOPTable' = [m_aOPTable EXCEPT ![table_index(pc)] =
       [PC |-> pc, previous |-> addr, stride |-> 0, state |-> "Init", link |-> NoLinks]]
  /\ targets' = <<>>

First(S) == CHOOSE j \in S : \A k \in S : j <= k

\* A mistake: an address is not counted again, but takes a place each time.
CountedOnce(row, addr) ==
  LET free  == {j \in Links : row[j].count = 0}
  IN IF free = {} THEN row ELSE [row EXCEPT ![First(free)] = [addr |-> addr, count |-> 1]]

\* addr has followed an address of this row: it is counted, or takes a free
\* place, or is dropped.  A count only matters up to OFTEN.
Counted(row, addr) ==
  LET known == {j \in Links : row[j].addr = addr}
      free  == {j \in Links : row[j].count = 0}
  IN CASE known # {} -> [row EXCEPT ![First(known)].count = IF @ < OFTEN THEN @ + 1 ELSE @]
       [] known = {} /\ free # {} -> [row EXCEPT ![First(free)] = [addr |-> addr, count |-> 1]]
       [] OTHER -> row

\* A mistake: every successor is recorded.
EveryStrideLinked(e, addr) == TRUE

\* Strides shorter than a block, and those that go back, are not recorded.
Linked(e, addr) ==
  /\ e.state = "No_Predict" /\ Stride(e.previous, addr) # e.stride
  /\ Signed(Stride(e.previous, addr)) >= bsize

\* What has followed this address often, at its place in the row.
Followers(link, addr) ==
  LET row == link[miss_inddex(addr)]
  IN [j \in {j \in Links : row[j].count >= OFTEN} |-> CACHE_BADDR(row[j].addr)]

\* A mistake: the stride forgotten.
BlockInHand(e, addr) == CACHE_BADDR(addr)

\* Where the stride is known: the next block by the stride as it was before.
NextByStride(e, addr) == CACHE_BADDR(Plus(addr, e.stride))

Train(pc, addr) ==
  LET e     == Entry(pc)
      same  == Stride(e.previous, addr) = e.stride
      state == NextState(e.state, same)
      link  == IF Linked(e, addr)
               THEN [e.link EXCEPT ![miss_inddex(e.previous)] = Counted(@, addr)] ELSE e.link
  IN
  /\ e.PC = pc
  /\ m_aOPTable' = [m_aOPTable EXCEPT ![table_index(pc)] =
       [PC |-> pc,
        previous |-> addr,
        stride |-> IF LearnsStride(e.state, same) THEN Stride(e.previous, addr) ELSE e.stride,
        state |-> state,
        link |-> link]]
  /\ targets' = IF state = "No_Predict" THEN Followers(link, addr)
                ELSE <<NextByStride(e, addr)>>

open_ended_prefetcher(pc, addr) == NewEntry(pc, addr) \/ Train(pc, addr)
=============================================================================
