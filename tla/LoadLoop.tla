------------------------------ MODULE LoadLoop ------------------------------
(***************************************************************************)
(* Loops of loads as the workload of the prefetchers, such as the          *)
(* benchmarks mbq2.c and mbq6.c of lab4: a sequence of accesses repeated   *)
(* without end.  A cache calls its prefetcher at each of them; the stride  *)
(* and the open-ended prefetcher run here side by side.                    *)
(***************************************************************************)
EXTENDS ReferencePrediction, Sequences, FiniteSets

CONSTANTS prefetch_type, OPEntry_SIZE, OPLink_SIZE, OFTEN,
          Bodies    \* the loop bodies, sequences of [PC, addr]

ASSUME LoadLoopAssumption ==
  /\ ADDRS \in Nat \ {0} /\ bsize \in Nat \ {0} /\ prefetch_type \in Nat \ {0, 1, 2}
  /\ OPEntry_SIZE \in Nat \ {0} /\ OPLink_SIZE \in Nat \ {0} /\ OFTEN \in Nat \ {0}
  /\ \A b \in Bodies : b # <<>> /\ b \in Seq([PC : Nat \ {0}, addr : 0 .. ADDRS - 1])

VARIABLES m_pRPTTable, target,    \* of the stride prefetcher
          m_aOPTable, targets,    \* of the open-ended prefetcher
          body, pos
loopVars == <<m_pRPTTable, target, m_aOPTable, targets, body, pos>>

stride    == INSTANCE StridePrefetcher
openEnded == INSTANCE OpenEndedPrefetcher

LoopInit == stride!Init /\ openEnded!Init /\ body \in Bodies /\ pos = 1
Following(i) == (i % Len(body)) + 1
Before(i)    == IF i = 1 THEN Len(body) ELSE i - 1

\* The next load of the loop; pos is the load after it.
Load ==
  /\ stride!stride_prefetcher(body[pos].PC, body[pos].addr)
  /\ openEnded!open_ended_prefetcher(body[pos].PC, body[pos].addr)
  /\ pos' = Following(pos)
  /\ UNCHANGED body

\* The program does not stop in its loop, so its next load is made.
LoopSpec == LoopInit /\ [][Load]_loopVars /\ WF_loopVars(Load)
-----------------------------------------------------------------------------
StrideAt(i) == Stride(body[i].addr, body[Following(i)].addr)
OnePC       == \A i, j \in DOMAIN body : body[i].PC = body[j].PC
NextBlock   == CACHE_BADDR(body[pos].addr)
LookedFor(t) == \E j \in DOMAIN targets : targets[j] = t

\* Rows: a stride that comes at least three times between two jumps.
Row(s) == OnePC /\ \A i \in DOMAIN body :
  StrideAt(i) # s => /\ StrideAt(Following(i)) = s
                     /\ StrideAt(Following(Following(i))) = s
                     /\ StrideAt(Following(Following(Following(i)))) = s

\* "It should find out stride is constant and prefetch the correct mempry": in
\* the long run every load that has its successor one stride away looks for
\* it, also right after a jump to another row.
StrideLearned == <>[](Row(StrideAt(Before(pos))) => target = NextBlock)

\* "This will make stride prefectch always in no predic state": no two strides
\* in a row are the same, and none is the 0 an entry starts with.
Restless == OnePC /\ \A i \in DOMAIN body : StrideAt(i) \notin {0, StrideAt(Following(i))}

\* What follows the addresses of a place by a jump forward over at least a
\* block, and the jumps whose place has room for all of it.
FollowersOf(k) == {body[Following(i)].addr : i \in {j \in DOMAIN body :
  openEnded!miss_inddex(body[j].addr) = k /\ Signed(StrideAt(j)) >= bsize}}
Holdable(i) ==
  /\ Signed(StrideAt(i)) >= bsize
  /\ Cardinality(FollowersOf(openEnded!miss_inddex(body[i].addr))) <= OPLink_SIZE

\* The open-ended prefetcher finds these where a stride prefetcher is silent:
\* in the long run each of them is looked for.
JumpsLearned == Restless => <>[](Holdable(Before(pos)) => LookedFor(NextBlock))

\* Without a stride it looks for nothing it has not seen follow.
LooksForFollowers ==
  [][LET pc == body[pos].PC IN
     OnePC /\ openEnded!Entry(pc).PC = pc /\ openEnded!Entry(pc)'.state = "No_Predict" =>
       \A j \in DOMAIN targets' :
         \E b \in FollowersOf(openEnded!miss_inddex(body[pos].addr)) :
           targets'[j] = CACHE_BADDR(b)]_loopVars

\* It loses nothing over a stride prefetcher: what that finds it finds too.
FindsWhatStrideFinds == OnePC /\ target # stride!None => LookedFor(target)
=============================================================================
