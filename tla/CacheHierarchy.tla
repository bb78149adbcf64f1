--------------------------- MODULE CacheHierarchy ---------------------------
(***************************************************************************)
(* The data caches of lab4/simplesim-3.0d-assig4/sim-cache.c: dl1 before   *)
(* dl2, which also serves the instructions (il1 is "dl2"), before memory,  *)
(* flushed at system calls.  newest is a history variable: the lowest      *)
(* level that has the newest data of an address.                           *)
(***************************************************************************)
EXTENDS Integers, Sequences

CONSTANTS ADDRS, DataAddrs, Cmds, policy,
          nsets1, bsize1, assoc1, hsize1, PrefetchTargets1(_),
          nsets2, bsize2, assoc2, hsize2, PrefetchTargets2(_)

\* A block of dl1 has to fit in a block of dl2, or cache_access refuses it.
ASSUME BlocksFit == bsize1 \in Nat \ {0} /\ bsize2 % bsize1 = 0

VARIABLES blk1, way1, hash1, last_tagset1, last_blk1, calls1, pending1, serving1, status1,
          blk2, way2, hash2, last_tagset2, last_blk2, calls2, pending2, serving2, status2,
          flushing,   \* the cache a system call still has to flush, or "none"
          newest

dl1 == INSTANCE Cache WITH
  nsets <- nsets1, bsize <- bsize1, assoc <- assoc1, hsize <- hsize1, prefetch <- TRUE,
  Configs <- {[policy |-> policy, hsize |-> hsize1, nsets |-> nsets1, bsize |-> bsize1,
               assoc |-> assoc1, prefetch |-> TRUE]},
  PrefetchTargets <- PrefetchTargets1,
  blk <- blk1, way <- way1, hash <- hash1, last_tagset <- last_tagset1, last_blk <- last_blk1,
  calls <- calls1, pending <- pending1, serving <- serving1, status <- status1
dl2 == INSTANCE Cache WITH
  nsets <- nsets2, bsize <- bsize2, assoc <- assoc2, hsize <- hsize2, prefetch <- TRUE,
  Configs <- {[policy |-> policy, hsize |-> hsize2, nsets |-> nsets2, bsize |-> bsize2,
               assoc |-> assoc2, prefetch |-> TRUE]},
  PrefetchTargets <- PrefetchTargets2,
  blk <- blk2, way <- way2, hash <- hash2, last_tagset <- last_tagset2, last_blk <- last_blk2,
  calls <- calls2, pending <- pending2, serving <- serving2, status <- status2

ASSUME HierarchyAssumption == dl1!CacheAssumption /\ dl2!CacheAssumption

vars1 == <<blk1, way1, hash1, last_tagset1, last_blk1, calls1, pending1, serving1, status1>>
vars2 == <<blk2, way2, hash2, last_tagset2, last_blk2, calls2, pending2, serving2, status2>>
hierarchyVars == <<vars1, vars2, flushing, newest>>

Data == DataAddrs
SameL1Block(a, b) == dl1!CACHE_BADDR(a) = dl1!CACHE_BADDR(b)

Init ==
  /\ dl1!Init /\ dl2!Init
  /\ flushing = "none"
  /\ newest = [a \in Data |-> "memory"]

Idle == status1 = "idle" /\ status2 = "idle" /\ flushing = "none"

\* A load or store of the program.
DataAccess(cmd, a) ==
  /\ Idle
  /\ \E targets \in PrefetchTargets1(a) : dl1!cache_access(cmd, a, FALSE, targets)
  /\ newest' = IF cmd = "Write" THEN [newest EXCEPT ![a] = "dl1"] ELSE newest
  /\ UNCHANGED <<vars2, flushing>>

\* An instruction fetch, when il1 is dl2.
Fetch(a) ==
  /\ Idle
  /\ \E targets \in PrefetchTargets2(a) : dl2!cache_access("Read", a, FALSE, targets)
  /\ UNCHANGED <<vars1, flushing, newest>>

\* dl1_access_fn: dl1 hands the first of its calls to dl2, and waits for it.
dl1_access_fn ==
  /\ status1 = "busy" /\ calls1 # <<>> /\ status2 = "idle"
  /\ LET c == Head(calls1) IN
     /\ \E targets \in IF c.prefetch THEN {<<>>} ELSE PrefetchTargets2(c.addr) :
          dl2!cache_access(c.cmd, c.addr, c.prefetch, targets)
     /\ newest' = IF c.cmd = "Write"
                  THEN [a \in Data |-> IF SameL1Block(a, c.addr) /\ newest[a] = "dl1"
                                       THEN "dl2" ELSE newest[a]]
                  ELSE newest
  /\ UNCHANGED <<vars1, flushing>>

\* dl2_access_fn: memory is always there.
dl2_access_fn ==
  /\ dl2!Served
  /\ LET c == Head(calls2) IN
     newest' = IF c.cmd = "Write"
               THEN [a \in Data |-> IF dl2!CACHE_BADDR(a) = c.addr /\ newest[a] = "dl2"
                                    THEN "memory" ELSE newest[a]]
               ELSE newest
  /\ UNCHANGED <<vars1, flushing>>

\* dl2 returns, to dl1 if it was dl1 that called.
Return2 ==
  /\ dl2!Return
  /\ IF status1 = "busy" THEN dl1!Served ELSE UNCHANGED vars1
  /\ UNCHANGED <<flushing, newest>>

Internal ==
  \/ dl1!Prefetch /\ UNCHANGED <<vars2, flushing, newest>>
  \/ dl1!Return   /\ UNCHANGED <<vars2, flushing, newest>>
  \/ dl2!Prefetch /\ UNCHANGED <<vars1, flushing, newest>>

\* SYSCALL with flush_on_syscalls: dl1, then dl2, which dl1 has written to.
FlushDl1 ==
  /\ Idle
  /\ dl1!cache_flush
  /\ flushing' = "dl2"
  /\ UNCHANGED <<vars2, newest>>
\* A mistake: dl2 flushed while dl1 is still writing to it.
FlushDl2Early ==
  /\ flushing = "dl2" /\ status2 = "idle"
  /\ dl2!cache_flush
  /\ flushing' = "last"
  /\ UNCHANGED <<vars1, newest>>
FlushDl2 ==
  /\ flushing = "dl2" /\ status1 = "idle" /\ status2 = "idle"
  /\ dl2!cache_flush
  /\ flushing' = "last"
  /\ UNCHANGED <<vars1, newest>>
FlushEnds ==
  /\ flushing = "last" /\ status2 = "idle"
  /\ flushing' = "none"
  /\ UNCHANGED <<vars1, vars2, newest>>

Next ==
  \/ \E a \in Data : Fetch(a) \/ \E cmd \in Cmds : DataAccess(cmd, a)
  \/ dl1_access_fn \/ dl2_access_fn \/ Return2 \/ Internal
  \/ FlushDl1 \/ FlushDl2 \/ FlushEnds

Spec == Init /\ [][Next]_hierarchyVars
-----------------------------------------------------------------------------
Resident(c, a, set, tag) == \E w \in DOMAIN c[set] :
  c[set][w].valid /\ c[set][w].dirty /\ c[set][w].tag = tag
Writing(calls, baddr) == \E i \in DOMAIN calls : calls[i].cmd = "Write" /\ calls[i].addr = baddr

\* No store is lost: what memory does not have is in a dirty block, or on its
\* way down, at every moment of every access, prefetch and flush.
NoStoreLost ==
  \A a \in Data :
    /\ newest[a] = "dl1" =>
         \/ Resident(blk1, a, dl1!CACHE_SET(a), dl1!CACHE_TAG(a))
         \/ Writing(calls1, dl1!CACHE_BADDR(a))
    /\ newest[a] = "dl2" =>
         \/ Resident(blk2, a, dl2!CACHE_SET(a), dl2!CACHE_TAG(a))
         \/ Writing(calls2, dl2!CACHE_BADDR(a))

\* A system call that flushes the caches finds everything in memory, which it
\* reads and writes without them.
FlushedIntoMemory ==
  [][flushing = "last" /\ flushing' = "none" => \A a \in Data : newest'[a] = "memory"]_hierarchyVars
=============================================================================
