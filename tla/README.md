# TLA+ verification of the ECE552 lab simulators

This directory holds TLA+ models of the programs in this repository, the TLC
configurations that check them on small instances, and theorems about them that
TLAPS proves for every value of the constants. `PROJECT.json` is its index: which
module models which source lines, which run checks which property, which mutation
of the code each property catches, and which hazards the properties were chosen for.

Run a check with `tlc -config X.cfg M` (the module of each configuration is in
section 4), and the proofs with `tlapm M.tla`.

## 1. The system and its parts

The repository holds three lab assignments. Each is a separate command-line
simulator of a piece of a processor; labs 3 and 4 are written into copies of
SimpleScalar 3.0d. No program here has threads, persists anything or talks over a
network. What makes them hard is that they *simulate* things that happen at once,
such as instructions in flight, and caches below caches, and that a step of the
simulated machine is spread over many statements whose order matters.

| part | source | state | operations | modules |
|---|---|---|---|---|
| Tomasulo pipeline | `lab3/.../tomasulo.c` | instruction queue, reservation stations, functional units, common data bus, map table, fetch index, and per instruction the tags `Q` and four cycle numbers | one call each per cycle: `CDB_To_retire`, `execute_To_CDB`, `issue_To_execute`, `fetch_To_dispatch` (with `fetch`), `dispatch_To_issue`; then `is_simulation_done` | `Tomasulo`, `TomasuloDataflow`, `TomasuloRefinement`, `TomasuloInvariant` |
| Trace of instructions | `lab3/.../instr.c`, `sim-safe.c` | linked pages of entries, position 0 unused | `put_instr`, `get_instr` | the walk over the pages is in `Tomasulo` |
| Branch predictors | `lab2/.../predictor.cc` | 2bitsat counters; 2level histories and pattern tables; openend's gshare table, RP bytes, chooser, and two globals that hold the last predictions | `InitPredictor_*`, `GetPrediction_*`, `UpdatePredictor_*` | `SaturatingCounter`, `TwoBitSat`, `TwoLevel`, `Tournament` |
| Driver and benchmark | `lab2/.../main.cc`, `mb.c` | the record at hand, misprediction counters | read a record, ask three predictors, tell three predictors | `BranchDriver`, `BranchLoop` |
| Cache | `lab4/.../cache.c` | per set: blocks, way list, hash buckets; `last_tagset` and `last_blk` | `cache_access`, `cache_probe`, `cache_flush`, `cache_flush_addr`, `update_way_list` | `Cache`, `ReplacementOrder`, `CacheRefinement` |
| Prefetchers | `lab4/.../cache.c` | reference prediction table; open-ended table with counted followers | `next_line_`, `stride_`, `open_ended_prefetcher` | `ReferencePrediction`, `StridePrefetcher`, `OpenEndedPrefetcher`, `LoadLoop` |
| Out-of-order pipeline | `lab4/.../sim-outorder.c` | RUU and LSQ (rings of stations), create vectors and their wrong-path copy, ready list, event queue, fetch queue, free `RS_link`s | per cycle, in reverse order: `ruu_commit`, `ruu_release_fu`, `ruu_writeback` (with `ruu_recover`), `lsq_refresh`, `ruu_issue`, `ruu_dispatch`, `ruu_fetch` | `OutOfOrder`, `InOrder`, `OutOfOrderRefinement`, `OutOfOrderInvariant` |
| Functional units | `lab4/.../resource.c` | busy counts | `res_create_pool`, `res_get` | `ResourcePool` |
| Trace generator and wrong paths | `lab4/.../sim-outorder.c`, `memory.c`, `memory.h` | registers and their copies, page table, table of wrong-path stores | execution in `ruu_dispatch`, `tracer_recover`, `spec_mem_access`, `mem_translate` | `TraceGenerator`, `SimMemory`, `PisaSubset`, `Machine`, `TraceGeneratorRefinement`, `TraceGeneratorInvariant` |
| Branch predictors of SimpleScalar | `lab4/.../bpred.c` | direction tables, BTB, return-address stack | `bpred_lookup`, `bpred_recover`, `bpred_update` | `BPred` |
| Hierarchy | `lab4/.../sim-cache.c` | `dl1`, `dl2`, `il1`, `il2`, TLBs | `dl1_access_fn`, `dl2_access_fn`, flush at system calls | `CacheHierarchy` |

How they interact:

- `sim_main` (lab 3) executes the program and records each instruction with
  `put_instr`; `runTomasulo` then walks the recorded trace. The pipeline's stages
  share one set of global arrays, and meet only through them: a stage sees what
  the earlier calls of the same cycle have already changed.
- The lab 2 driver calls the three predictors one after the other for each branch.
  They share nothing, but openend's Get and Update communicate through globals.
- A `cache_access` that misses calls the next level *in the middle* of its work
  (write-back, then fill), and when it is done with the block calls
  `generate_prefetch`, which calls `cache_access` on **the same cache** again.
- `sim-outorder` executes an instruction when it dispatches it, and simulates the
  timing afterwards. Behind a mispredicted branch it goes on executing the wrong path,
  on copies of registers and memory, until the branch completes and `ruu_recover`,
  `tracer_recover` and `bpred_recover` take everything back. Stations are referred to by
  pointers in events, the ready list and output chains that outlive them.

Which behaviour is hard, and what makes each part correct:

- **Pipeline.** A tag that nobody clears stalls for ever, one cleared too early
  lets an instruction run before its producer; a late result must not hide a
  younger writer in the map table; the queue's shift leaves stale copies; the two
  scans for ready instructions differ in what they test; the loop that skips traps
  has no bound. Correct means: dependences are respected in program order, issue
  is in order, one result per cycle uses the bus, the oldest wins, and the run ends.
- **Predictors.** Counters at their limits, a BYTE that wraps round, histories that
  move in the update which uses them, predictions kept in globals. Correct means:
  ranges hold, the chooser learns from this branch, and repeating patterns that fit
  the history are learned.
- **Cache.** The remembered last block must be dropped whenever a block changes; a
  block that is replaced changes its bucket half way through; each move in the way
  list decides what is replaced much later; a prefetch may replace the block that
  was just hit. Correct means: a hit is a hit, no block is lost or present twice,
  and replacement is the one the configuration names.
- **Hierarchy.** A dirty block may be replaced at every level in one access.
  Correct means: no store is lost, and a flush reaches memory.
- **Out-of-order pipeline.** Stations are used again while links to them are still in
  some queue; results come in any order; two queues must be squashed in step. Correct
  means: dependences through registers and memory hold, no instruction is forgotten, no
  link leaks, and what the program sees is execution in order.
- **Trace generator.** Copies of registers and memory are made piecemeal, on first
  write. Correct means: a wrong path starts from the state of its branch and leaves no
  trace, also in the return-address stack.
- **Prefetchers.** Aliased entries, strides that change, tables that fill up.
  Correct means: they find what they promise in the long run, and nothing else.

The other parts, which are options, statistics, expressions, the debugger, loaders,
system calls, trace formats, instruction definitions and the remaining simulators,
are listed in `PROJECT.json` with the reason each is left out; section 7 says which
are planned.

## 2. The modules and the code

### Tomasulo

An `instruction_t*` is the instruction's position in the trace, and 0 is NULL,
because position 0 of the trace is never used. Each of the calls in the loop of
`runTomasulo` is one action; `stage` says which one is next, so that the order of
the source is kept. The two scans of `execute_To_CDB`, with everything they free in
both arrays, are one action, and so is `fetch_To_dispatch` with the push to the queue
and the pass that stamps every queued instruction.

The trace (`trace`) is chosen in `Init` from `Programs`. Opcodes are reduced to the
classes the macros `IS_CTRL`, `IS_TRAP`, `USES_INT_FU`, `USES_FP_FU`, `WRITES_CDB`
tell apart. Positions beyond `sim_num_insn` up to the end of the last page are the
zeroed entries `put_instr` allocated; beyond them `fetch` follows a NULL page
pointer, which is the stage `crashed`.

`TomasuloDataflow` is the abstract specification: instructions wait, sit in a
station, execute, are on the bus, and are done; it knows no queue, tag, map table
or clock, and reads its dependences off program order. `TomasuloRefinement` maps
each instruction to the phase given by where its pointer is found.

### Branch predictors

One module for each predictor, one action for each Get and Update; `TwoLevel` keeps
the eight columns of the pattern table apart as the source does, `Tournament` keeps
`gMaster_last` and `gAltpred_last` as variables because they carry data between two
calls. `TrainRP` adds modulo `BYTE_VALUES`: the source compares a BYTE with 256.
`gShare` is kept masked, as every reader masks it, and its xor with the PC is the
constant operator `Hash`: proofs hold for every hash, TLC uses the xor.
`BranchDriver` composes them as `main.cc` does. `BranchLoop` feeds it the endless
sequence of branches of a loop: the one of `mb.c`, or any short loop of one branch.

### Cache

`cache_access` does its own work in one action (`FastHit`, `NullHit`, `Hit`, `Miss`).
What it then calls follows in actions of their own, which is what makes re-entrance
visible: `calls` are the accesses to the next level, in order, still to be made;
`pending` are the addresses `generate_prefetch` has yet to look for. `serving`
remembers the block in `blk`, which the code still uses after the prefetches.
The access returns when both are empty. Writes need `calls` in order because the
write-back precedes the fill.

The parameters of a cache are variables chosen in `Init` from `Configs` and never
changed, as `cache_create` sets them, so that one run checks several geometries; the models allow a hash table at any
associativity (the code has one from associativity 8 on) so that buckets matter in
a small set. Prefetches are taken from `PrefetchTargets`, which is what the
prefetcher may ask for: for the invariants of the cache itself that is *any* block,
which covers each of the three prefetchers.

`ReplacementOrder` is the abstract specification of a set: the addresses it holds, and an order
that says of any two which is to be replaced first, a set of pairs. `CacheRefinement` maps the
way lists to it. The `hit` that is being served is mapped too (`serving`), since under LRU a hit does
nothing but reorder: without it, a cache that never reorders on a hit would implement the promise
by stuttering. `CacheHierarchy` is two instances of
`Cache` where `dl1`'s calls become `dl2`'s accesses. It has one history variable,
`newest`: the lowest level that has the newest value of each address. The cache
keeps no data, so this is how losing a store can be stated.

### Prefetchers

`ReferencePrediction` is what the two share: the state machine and 32-bit address
arithmetic, with `ADDRS` as the modulus. `StridePrefetcher` and
`OpenEndedPrefetcher` are the two functions; `targets` is what the last call asked
for. `LoadLoop` runs both side by side over the same loop of loads, the workload
the benchmarks `mbq2.c` and `mbq6.c` were written to be.

### Out-of-order pipeline

The stages of a cycle are loops, and one action is one turn of a loop; `stage` names the
function that runs. So the order of the ready list and of the event queue, in which the
source inserts by rules of its own, is kept. A `struct RUU_station *` is a pair of queue
and index, an `RS_link` carries the tag the station had when the link was made, exactly as
in the source, and `free_links` counts the free list. `ChainPlaces` and `Links` say where
links can be, for `NoLinkLost`. A `panic` or `fatal` is the stage
`panic`. Instructions have opcodes, registers and targets, but no values: the
outcome of a branch, the address of an access, the answer of the predictor and the latencies
of the caches are choices, made at the moment the code computes or asks for them.
Times are distances from `sim_cycle`, which makes the state space finite without a bound.

`InOrder` is the abstract specification: execute the next instruction of the program, or
retire the oldest one. `OutOfOrderRefinement` maps the stations of the correct path, which are
the first ones of the RUU, to its window, and its program counter to `recover_PC` on a wrong path, or else to the oldest
instruction of the fetch queue.

### Trace generator, memory and predictors

Here the values are modelled and the timing is not: fetch, dispatch, completion and
retirement of branches interleave freely, which includes every order the pipeline of
`OutOfOrder` produces. `PisaSubset` has one instruction of each kind that matters:
an addition, load, store, conditional branch and the four jumps. `SimMemory` is the page table with
the move to the front of `mem_translate`, and the table of wrong-path stores of
`spec_mem_access`, whose look-up is written a second time in the source with the same
move. `BPred` is `bpred.c` with each of its classes, stateless ones included; the three
places that may call `bpred_update` (`ID`, `WB`, `CT`) are all there. The exclusive or of history
and address is the constant operator `Hash`, as in `Tournament`: TLC runs with the real one, and
the proofs hold for every operator that stays within the width of the history.

`Machine` is the abstract specification: a program on registers and a flat memory, of
which a copy may be taken at a branch, that executes anything and is thrown away as a whole.
The refinement is where the piecemeal copies have to add up to that one copy.

### Mutations

A definition marked `A mistake:`, such as `NothingForgotten` for `ForgetLast` or
`TrapOvertakes` for `CanDispatch`, is used by no specification. It is the form of a
definition after it that a plausible bug would have, and `PROJECT.json` names the
property that catches it.

## 3. The properties

Each property has a comment where it is defined. The ones a reviewer may want to
look at first:

- `RawResolved`, `TagsInFlight`, `MapTableIsYoungest` and `ImplementsDataflow`: the
  renaming is right, compared with program order, not with itself.
- `QueueIsTheWindow`: no instruction is skipped or issued twice, in spite of the
  stale slots. It fails if a trace ends in a trap, which is finding 2 below. In
  `Tomasulo_real` the last page is full, fetch crashes instead of going astray, and it
  holds of all traces; the theorem assumes that the trace does not end in a trap.
- `ReplacesAsPromised`: after any history the victim is what LRU, FIFO or random
  replacement of the *accesses* says. It is also why the fast path may leave the order
  alone.
- `NoStoreLost`: at every moment of nested misses, prefetches and flushes;
  `FlushedIntoMemory` says that the two flushes of a system call are in the right order.
- `LoopsAreLearned`: half of openend's predictor never settles, because its counters wrap round
  (finding 4, `RPLearnsBias`), and the whole learns all the same.
- `FindsWhatStrideFinds`: two hand-written copies of one state machine agree.
- `WaitsForYoungest` and `LoadsSeeStores`: what an operand and a load wait for, compared
  with the order of the window, not with the create vectors and scans that compute it.
- `NoneForgotten`, `LsqFollowsRuu` and `NoLinkLost`: whatever is squashed with whatever
  is in flight, each station is in exactly the queue its state calls for, the two
  rings stay in step, and every link comes back.
- `ImplementsInOrder` and `Terminates`: what the pipeline does is the program, and all of it.
- `ImplementsMachine`: wrong paths see the state of their branch, and leave none.
- `StackFollowsPath`: pushes and pops of wrong paths are undone by a top that was recorded
  at the look-up. It is stated with its one exception, a mispredicted call or return
  (section 8).

## 4. The runs

| run | module | instance | result |
|---|---|---|---|
| `Tomasulo_real` | `MCTomasulo` | all loops of 3 instructions of 6 kinds, 15 long; sizes and latencies of the source; last page full | 6 invariants, 2 action properties, refinement, liveness |
| `Tomasulo_done` | `MCTomasulo` | traces of 2 | finding 1 |
| `Tomasulo_traps` | `MCTomasulo` | traces of 2 that may end in traps | finding 2 |
| `BranchDriver_small` | `MCBranchDriver` | two aliasing branches, every order and outcome; 4-valued BYTE | chooser and ranges |
| `BranchLoop_mb` | `MCBranchLoop` | loop of `mb.c` and every loop of one branch up to 3 outcomes; real rows, columns, widths | learning |
| `BranchLoop_rp` | `MCBranchLoop` | the same loops | finding 4 |
| `Cache_sets` | `MCCache` | 2 sets of 2 blocks, 3 tags each, three policies, prefetch of any block; or 1 set of 4 blocks, 5 tags, hashed; flushes | 5 invariants, refinement |
| `Cache_first_block` | `MCCache` | addresses of block 0 allowed | finding 3 |
| `CacheHierarchy_small` | `MCCacheHierarchy` | `dl1` of 2 blocks over direct-mapped `dl2` of 2 larger ones; next-line prefetch in both | no lost store, flush into memory |
| `LoadLoop_small` | `MCLoadLoop` | all loops of up to 4 loads over 8 addresses, by one PC or two that take turns | what prefetchers learn |
| `OutOfOrder_small` | `MCOutOfOrder` | 6 programs; RUU of 4, LSQ of 4 or 2, widths 2, three units; in order, perfect prediction, `bugcompat`, wrong paths issued or not; 6 correct-path instructions | 8 invariants, refinement, liveness |
| `TraceGenerator_small` | `MCTraceGenerator` | 4 programs; 5 classes and stages of update; words of 4 bits, 4 registers, 2 buckets for pages and for stores, BTB of 2 sets of 2, return stack of 2, 3 branches in flight | refinement, return stack |

Why the bounds are enough:

- Loops of three instructions on three registers give write-after-write over a pending
  read, two tags in one station, and both unit types contending for the bus. Fifteen
  instructions overfill the ten-entry queue, four integer and two floating-point
  stations, so that the queue's stale slots drain, and stations are used again and
  stand out of program order. `MaxCycle` (200) is above the length of the longest
  run: `Terminates` would fail if it cut one off. The theorems hold for all sizes,
  latencies and programs.
- In `BranchDriver_small` the counters have all their values, and a BYTE of four
  values wraps after a few branches. Any further PC would share these entries in the
  same way. `BranchLoop_mb` needs no bound: a loop's behaviour is a single lasso.
- Two ways tell the policies apart, two sets tell the sets apart, and a third
  tag per set forces replacement. Four ways are needed for a block to move
  from the middle of a list, the one case of `update_way_list` two ways lack.
- In the hierarchy one block of `dl2` holds two of `dl1`, and a fill can replace the
  block the same access has just written back.
- Loops of four with eight addresses, two to a block, have constant strides, rows with jumps,
  restless strides, negative and wrapping ones, and aliased entries. `OFTEN` is 2 where the code has
  500: a count only matters by being below it or not.

- In `OutOfOrder_small` each program is made for a hazard, and named after it: a wrong
  path with loads that wait for each other, a store whose address or data is late, two
  stores of which the older gets its data later, writers of one register on both paths,
  a trap. Each of them fills the RUU, wraps both rings round, and is met with every
  prediction (right, none, wrong), branch outcome and choice of two addresses and load
  latencies. Six instructions (`max_insts`) go once round a ring of four and leave two
  whose stations were used before. `MAX_RS_LINKS` is above what this window can hold at once;
  a run with fewer ends in the `fatal` of the source. With an LSQ of four,
  `MAX_STD_UNKNOWNS` is four, so that the limit the options do not check is not reached.
- In `TraceGenerator_small` a word has 16 values and a page one of them, so that
  pages collide in two buckets of the page table, as do stores in the table of wrong-path
  stores. Calls nest deeper than the stack, functions return to two places, through
  the link register or another, and one branch alternates. The program runs without a
  bound on its length: its variables are small enough for the states to be finite.

`Cache_first_block` is where the runs above leave out the first block (`Upper`):
an access to it can crash the simulator, after which there is nothing to check.
`CHECK_DEADLOCK FALSE` is set there only; the crashed simulator has no next step.
In `Tomasulo`, `Stopped` is the stuttering step of a run that has returned.

## 5. Fairness

- `FairSpec` of `Tomasulo`: weak fairness of the body of the loop in
  `runTomasulo`. It calls nothing that waits. There is no fairness of a single
  instruction or unit: each stage is one deterministic action.
- `LoopSpec` of `BranchLoop` (also for `RPLearnsBias`, finding 4) and of `LoadLoop`: weak fairness of the next step. The driver reads records
  as long as the trace lasts, and the simulated program does not stop inside its
  loop; endless is the idealisation of the benchmarks' millions of iterations.
- `FairSpec` of `OutOfOrder`: weak fairness of the body of the loop in `sim_main`, that is
  of the next turn of whichever stage is running; it waits for nothing. Which outcome,
  address or latency is chosen is not fair: `Terminates` holds for all.
- `Cache`, `CacheHierarchy` and `TraceGenerator` state safety only: an access returns because calls
  and pending prefetches are finite by construction, which says nothing of the code, and
  the order in which `TraceGenerator` completes branches is free.

## 6. The proofs

TLAPS proves, for every value of the constants that the named assumptions allow:

| theorem | statement |
|---|---|
| `TomasuloProofs!TypeCorrect` | `Spec => []TypeOK` |
| `TomasuloProofs!DependencesResolved` | `RawResolved` always, for traces that do not end in a trap |
| `TomasuloProofs!QueueCorrect` | `QueueIsTheWindow` always, for the same traces |
| `TomasuloProofs!TagsNameTheInFlight` | `TagsInFlight` always, for the same traces |
| `TomasuloProofs!MapTableCorrect` | `MapTableIsYoungest` always, for the same traces |
| `TomasuloProofs!UnitsAgree` | `UnitsMatchStations` always, for the same traces |
| `TomasuloProofs!OldestStarts` | the action property `OldestStartsFirst`, for the same traces |
| `TomasuloProofs!OldestBroadcasts` | the action property `OldestBroadcastsFirst`, for the same traces |
| `TomasuloProofs!PipelineImplementsDataflow` | `ImplementsDataflow`, for the same traces |
| `CacheProofs!CacheTyped` | `Spec => []TypeOK` |
| `CacheProofs!FastHitsAreHits` | `Spec => []LastBlockHolds` |
| `CacheProofs!HashTableComplete` | `Spec => []BucketsComplete` |
| `CacheProofs!NoSecondCopy` | `Spec => []OneCopy` |
| `CacheProofs!LruHitsAreKept` | `LruKeepsTheHit` always, if an access under LRU is followed by fewer prefetches than a set has blocks (`FewPrefetches`) |
| `CacheProofs!CacheReplacesAsPromised` | the refinement `ReplacesAsPromised` |
| `CacheHierarchyProofs!StoresAreKept` | `NoStoreLost` always, for programs that keep clear of the first block (`ClearOfFirstBlock`) |
| `CacheHierarchyProofs!FlushReachesMemory` | the action property `FlushedIntoMemory`, for the same programs |
| `OutOfOrderProofs!TypesAlways` | `Spec => []TypeOK` |
| `OutOfOrderProofs!NeverForgets` | `Spec => []NoneForgotten` |
| `OutOfOrderProofs!LoadsAlwaysSeeStores` | `Spec => []LoadsSeeStores` |
| `OutOfOrderProofs!TailIsWrongPath` | `Spec => []WrongPathIsTail` |
| `OutOfOrderProofs!LsqAlwaysFollowsRuu` | `Spec => []LsqFollowsRuu` |
| `OutOfOrderProgramProofs!NoLinkIsLost` | `Spec => []NoLinkLost` |
| `OutOfOrderProgramProofs!PanicsOnlyForRoom` | the simulator gives up for want of links or of room in `std_unknowns` only |
| `OutOfOrderProgramProofs!NeverPanics` | `NoPanic` always, where the LSQ is no larger than `MAX_STD_UNKNOWNS` and a link is left |
| `OutOfOrderProgramProofs!OperandsAlwaysWait` | `Spec => []WaitsForYoungest` |
| `OutOfOrderProgramProofs!InvariantAlways` | `Spec => []IInv`, the inductive invariant |
| `OutOfOrderProgramProofs!PipelineImplementsInOrder` | the refinement `ImplementsInOrder` |
| `TraceGeneratorProofs!TypeCorrect` | `Spec => []TypeOK` |
| `TraceGeneratorProofs!ExecutesProgram` | the refinement `ImplementsMachine` |
| `TraceGeneratorProofs!StackFollows` | the action property `StackFollowsPath` |
| `BranchDriverProofs!TypeCorrect` | `Spec => []TypeOK` |
| `BranchDriverProofs!ChooserSeesThisBranchAlways` | `Spec => []ChooserSeesThisBranch` |
| `BranchDriverProofs!ChooserFollowsTheBetterAlways` | the action property `ChooserFollowsTheBetter` |
| `BranchDriverProofs!AlternationIsMissed` | `TwoBitMissesAlternation` always, for every size of the two-bit table |
| `LoadLoopProofs!OpenEndedFindsStrides` | `FindsWhatStrideFinds` always, for every loop of loads |
| `LoadLoopProofs!OpenEndedLooksForFollowers` | the action property `LooksForFollowers`, for the same loops |

Assumptions: sizes and latencies are positive (`SizesAssumption`), programs are
functions from the recorded positions to instructions (`TraceAssumption`),
the tables are not empty and the RP table has at least two entries, since its index is
taken modulo one less (`SizesAssumption` of `BranchDriver`), and the hash is a
natural number (`HashAssumption`). For the out-of-order pipeline, the sizes the options check
are powers of two, and RUU and LSQ hold two instructions or more (`SizesAssumption`);
programs are sequences of instructions whose predictions are addresses, and latencies are
positive (`ProgramAssumption`); no instruction of a program names `DTMP`, which the source
numbers after the registers that the decoder can name (`Named`); an operation occupies its unit for a cycle or more
(`ConfigAssumption`). For the trace generator, words, registers, pages, buckets and the tables of the
predictor are not empty (`WordAssumption`, `MemoryAssumption`, `TablesAssumption`), `STORE_HASH_SIZE` is a power of two, a history has 1 to
30 bits, as `bpred_dir_create` checks, and a program is a sequence of instructions on registers of
which number 0 begins as 0 (`GeneratorAssumption`). Both levels of the hierarchy have parameters that `cache_create`
accepts (`HierarchyAssumption`). TLC evaluates all of them in the runs.

Three theorems have a hypothesis besides, each for a reason found in the code:
`ClearOfFirstBlock`, because an access to the first block may crash the simulator
(finding 3); `FewPrefetches`, because the open-ended prefetcher asks for up to two
blocks, which is enough to replace the hit in a set of two; and those of `NeverPanics`,
because the simulator gives up when links run out, and the options do not check that
`std_unknowns` has room for the LSQ.

**Type correctness of the pipeline.** `TypeOK` is not inductive. The queue pops when
slot 0 holds an instruction, and does not look at the size; that the size never
becomes negative rests on where stale copies can be. `StaleTail` says so: slots beyond
the size hold something only after an issue from a full queue until fetch has refilled
it, or once the trace is fetched and the queue is not yet empty, or when the loop has
ended. In none of these does an empty queue have a head when `dispatch_To_issue` looks at it.
`TypeInv` is the conjunction.

**Dependences.** `RawInv` (module `TomasuloInvariant`) says what each structure
knows. What is not fetched is not issued, and what is not issued has no result
(`Unissued`); issue is in order (`InOrder`), because the queue is ordered
(`QueueOrdered`) and complete (`QueueComplete`). From these, when an instruction is
renamed, the youngest issued writer of its operand is its producer in program order.
`MapNames` says that the map table names that writer unless its result has left the
bus, and `TagsName` carries it over to the stations: an operand names its producer
until the producer is out. `StationsHold` and `BusHolds` tie both to the stations
and the bus. An instruction starts when no operand names anything, so all its
producers are out, which is `RawResolved`. Each action preserves each part; one lemma
per action. `QueueCorrect` follows from the queue's two parts with `StaleTail`.

**Tags and units.** `RawInv` bounds what is missing from the tags: no producer is
forgotten. `TagInv` says the converse, that nothing is there which should not be: a tag or
an entry of the map table names an instruction only while it is in flight
(`TagsExact`, `MapExact`), because a broadcast takes it out of all of them in the cycle in which it
leaves the bus. With it come the classes of the stations, the mark -1 that an
instruction carries from fetch to execution (`MarkedUnstarted`), and the agreement of
stations and units. `TypeInv /\ RawInv /\ TagInv` is inductive. The two priorities are
action properties: each scan picks the least index among those that qualify, indices are
the program order, and `MarkedUnstarted` says that the scan's own test, which looks at the
cycle numbers, is the one the property states with tags and units.

**Refinement.** `PhasesMatch` ties the phase of an instruction to where its pointer is: the
bus, a unit, a station only, nowhere. It follows from the invariants, since these places
exclude each other in the way the mapping needs. Each of the five calls of a cycle then is one step
of `TomasuloDataflow` or leaves all phases alone; `HeldSize` and `SameCardinality` carry the
number of units over to the number of instructions that execute.

**Cache.** `CacheInv` is `LastBlockHolds`, `BucketsComplete` and `OneCopy` with what types
they need, for all sizes that are powers of two. They need each other: `OneCopy` holds
after a miss because the search saw every block of the set (`SearchIsComplete`), which
rests on the buckets, and the fast path writes to the remembered block only. A block
changes in three ways, and there is a lemma for each: its dirty bit (`DirtyBitsAlone`),
its validity (`FlushInv`), and its address (`MissInv`). `BlockAddress` is the arithmetic
that an address and its block's address have the same set and tag.

`CacheState` adds the rest of the types: the way list of every set has each of its blocks
once, nothing is pending in a cache that is idle, and under LRU the last block is the first
of its set. The write-backs of `cache_flush` are listed by a recursive function; what is in
them is proved without an induction, by the least index at which it would fail
(`LeastExists`, `ConcatenationExists`, `ConcatenationHasAll`).

`LruKeepsTheHit` is about the block that was hit while the prefetches behind it run. `HitStays`
counts: the place of the block in its way list and the prefetches still to come are together
at most the associativity, as each of them moves it back by one place at most. A block
is replaced in the last place only.

The replacement order is proved from the same invariant and `ValidFirst`: under LRU and FIFO the
valid blocks of a set are the first ones of its way list, so that the block in the last place is
the oldest, or free. The order a way list stands for (`OrderIn`) only depends on which of two blocks comes
first (`Outlives`). `HeadInFront` says what a move to the head does to it, `TailDrops` what a
flushed block's move to the tail does, and each of the
actions of `Cache` does one of the two, to one set, or leaves all of it alone.

**The hierarchy.** Both levels are a `Cache`, and whoever calls it makes one of its steps or none
(`AnyStep`), so what is proved of a cache holds of both. `HierarchyInv` follows the newest
value of an address on its way down. In the level that has it, it is `Safe`: in a dirty block, or
in a call that is still to be made (`NewestSafe`). While `dl2` works on a call of `dl1`, it
already has what that call brought (`HandedDown`). When a flush is done with a level,
nothing newest is left there (`FlushedOut`), which is `FlushedIntoMemory`. A block of `dl1`
lies within one of `dl2` (`BlocksNest`), because block sizes are powers of two.

**Chooser.** `TypeOK` and `ChooserSeesThisBranch` are inductive together; that a
branch changes sides only when the other table alone was right follows from them,
because a saturating counter moves by one towards the outcome it is trained with.

**A loop that alternates.** `TwoBitMissesAlternation` is about a loop whose body may
hold other branches as well. `Halfway` is what makes it inductive: the counter of a branch that alternates is weakly not
taken if it has been met an even number of times in this turn of the loop, and weakly taken if odd, as long as
no other branch shares it. The number of times is a cardinality (`Met`), and the proof
needs its parity only (`ParityNext`), so that it holds for bodies of any length without an induction.

**The prefetchers.** `Agree` runs the two state machines side by side: for a loop of one load
instruction, the rows that it has in the two tables have the same PC, state, stride and last address. The two calls are reduced to one
row first (`StrideCall`, `OpenCall`), and the arithmetic on addresses to `ModNear`, the only
fact about subtraction with wrap-round that is needed. `Recorded` says that a follower in a row is
an address that came after another of the same place and by a jump forward of a block at least;
together with `Agree` it gives `LooksForFollowers`.

**The out-of-order pipeline.** None of its properties is inductive, and they need each other.
`IInv` (module `OutOfOrderInvariant`) says, part by part, why:

- `Types`, `Rings`, `Kinds`: head, tail and number of the two rings agree, loads and
  stores are in the LSQ. `LsqIsRanked` is what ties the rings together: the k-th entry of the
  LSQ belongs to the entry of the RUU that has k address computations below it. Retiring
  shifts both ranks by one, and a squash cuts both rings at the same rank, which is
  `LsqFollowsRuu`.
- `WrongPathIsTail` needs `FetchedStraight`: what is no branch was predicted to fall
  through, so that only a branch can start a wrong path, and it is the one with `recover_inst`.
- `Counted`: for each station, the ready lists have exactly one link with its present tag if
  it is queued, and the event queue if it is under way; `Flagged` says which flags go
  together, and `Tagged` that no link has a tag from the future. A station's tag grows when
  it is squashed or retired, so all the links to it become invalid at once, without a visit
  to any list. `NoneForgotten` follows from these.
- `Chained`: a valid link on an output chain is to an operand that is still missing, and
  no operand is on two chains. `Broadcasts` covers the state in the middle of a writeback, while
  the producer is complete and part of its chain has not been walked.
- `MemoryOrder`: what the scan of `lsq_refresh` promised when a load was queued stays
  true until it is complete, because older stores only gain addresses and data and leave
  by the head; `LoadsSeeStores` follows.
- `CvLive` and `ChainsEnd`: a create vector names only instructions of its path that have
  not delivered, and a chain is empty once its producer has delivered. `RUU_recover` needs
  both: it frees the chains of what it squashes, and nobody else may hold one.
- `CvTracks`: an entry of the create vector is the youngest writer of its register among the
  instructions of the correct path in the window, or empty when that writer has delivered; the copy
  says the same of the wrong path, for the registers in `use_spec_cv`, which are those that
  the wrong path writes. It survives a retirement because the head has completed and so is named by no
  entry, and a squash because the squashed writers are just those of the copy. `OperandsSettled` says
  that a missing operand has a link on the chain of its youngest older writer. Dispatch
  establishes it from `CvTracks`, and no later step changes who that writer is.
  `AgensName` keeps the address computation out of the search: it writes `DTMP`
  only, which the access behind it reads. `WaitsForYoungest` follows, with `Chained` for the
  single link.
- `PanicsForRoom`: each of the panics in the source (a squashed entry left in the middle, an event of a
  completed instruction, an empty commit, an unordered wrong path) would contradict one of the
  parts above, so that only the two that run out of room are left. `NeverPanics` assumes
  that room: links, as the source's own message tells its user ("out of RS_links"), and
  an LSQ that fits into `std_unknowns`, which the options do not check.

A link is counted where it is: on the free list, on a chain, in a ready list, in the event queue or in the part
of the ready list that `ruu_issue` has taken. `NoLinkLost` says that this number is constant; the
lemmas `MovedLinks` and `LinksAre` follow the links through each handler, the frees of a
squash included. The proofs count with `CountOf`, a cardinality, because an induction over the lists
is out of reach. `OutOfOrderProofs` has the facts about single updates (the rings, the lists,
links, the walk of a chain), what each handler does to lists, rings and wrong paths, and the
theorems that follow from these parts; `OutOfOrderProgramProofs` adds the create vectors, the
links and the panics, the operands (`Waiting`), and the refinement.

The refinement needs one fact that no property states, `FetchFollows`: the fetch queue is a
chain, each entry is at the address that the one before it was predicted to go to, and
`fetch_pred_PC` is where the last one was. So when an entry is taken out without a misprediction, the next one is what
the program executes next (`HeadFollows`, `TailFollows`). `PathFacts` says that the stations
of the correct path are the first `PathLength` ones of the RUU, which follows from `WrongPathIsTail`, and
`WindowFacts` what a dispatch, a retirement and a squash do to the window: append, drop the first,
and nothing, as only a wrong path is squashed. Each turn of each stage is then one step of `InOrder` or a stutter
(`NextSeen`).

The run checks the properties that these theorems state. The parts of `IInv` they rest on were
tried with TLC on the programs of `OutOfOrder_small` before they were proved; `IInv` is
not among the runs, where it would take longer than all of them together.

**The trace generator.** The tables of memory come first. What a search in a bucket finds is the first
entry with the key (`Entry`), and moving that entry to the front keeps what every search finds
(`FrontKeeps`). So `mem_translate` and the search of `spec_mem_access` may reorder the buckets as they like: the page
table is a function from addresses to words, the wrong-path table one that covers some of
them, and a read, a write and a new page do to it what they do to a flat memory. Nothing is counted or walked, so that no
induction over a bucket is needed.

The refinement rests on `ProgramInvariant` (module `TraceGeneratorInvariant`). `OneRecovery`: at most one
mispredicted branch is waiting, on the correct path, and what is behind it is wrong path, so that there is one copy at a time and
the right one ends. `WrongTables`: outside a wrong path no register and no store is marked as copied, which is what a
recovery that forgets a table would break. `QueueFollows`: the fetch queue is a chain of predictions, so that
the head of the queue is at the program's next instruction, on the wrong path at the copy's.

The stack needs `StackInvariant`. What a branch will restore is what the top was before its own look-up,
and stays so while later branches push and pop, because it is stated relative to them: `TopsRecorded` takes
the pushes and pops that are in the queue and on the wrong path off the top again (`PathTop`), modulo
the size of the stack. The hard step is the misfetch, which squashes the fetch queue and leaves the stack as it is
(`sim-outorder.c:3882`). Nothing is lost there, and the reason is not local. A misfetch needs a predicted target other than
the branch's own; the branch target buffer only ever holds a direct branch's own target
(`DirectTargets`), so the buffer did not know it and the predicted target was 1, the value
that stands for "taken, target unknown"; and behind that only the address 1 is fetched, where there is no branch
(`NowhereStays`). In the code fetch goes on from there to 9, 17, and so on, all of them misaligned, for which `ruu_fetch`
delivers a NOP; in the model one address stands for them (`Behind`). TLC found both invariants to hold in the instance of the run (with `WrongTables` for
the addresses of a word) before they were proved. The pushes and pops are cardinalities (`Deltas`), so that appending, dropping and cutting are facts about sets.

Model-checked only: liveness (`Terminates` of both pipelines, the learning properties), which needs
ENABLED and fairness, beyond this prover. Every safety property, action property and
refinement of a passing run is stated by a theorem of the table above.

## 7. What is not modelled, and the plan

Left out of the modelled parts:

- *Cache timing* (`ready`, `bus_free`, latencies): `sim-cache` passes the time 0 and
  ignores the result, and `sim-outorder` does not compile against the
  `cache_create` of this repository, so nothing uses it.
- *The width of an access* and the check of `cache.c:803`; the statistics; the data
  of a block (`balloc` is false in every simulator).
- `il1`, `il2` and the TLBs as caches of their own: they are only read, and run the same code.
- A write-back caused by a prefetch is passed on as a regular access
  (`cache.c:908`) and so trains the next level's prefetcher: listed as a hazard,
  and open until the real tables are composed with the caches.

- *The out-of-order pipeline*: values (they are in `TraceGenerator`), fast-forwarding, the
  options and statistics, and faults. The predictor and the caches only answer; the file does
  not compile against the `cache_create` of this repository, so they could not be ours.
- A second miss on the instruction that fetch is waiting for, if a unified cache has evicted
  it during the wait: fetch would wait twice. A recovery that cuts the wait short is modelled.
- *The trace generator*: floating point, traps, faults, accesses of more or less than a word, and
  `sim-bpred`, which uses the predictors without wrong paths. The swaps of bytes in
  `spec_mem_access` (`sim-outorder.c:3174`, `:3546`), which happen only where host and target
  differ in their order of bytes. Addresses count words.
- *Tomasulo*: the write of `map_table[-1]` for an instruction without a result
  (`tomasulo.c:383`, `:401`). It is outside the array; in the builds we looked at, the word there
  is padding that nothing reads.
- An empty return-address stack (`-bpred:ras 0`).

Left out as parts:

- `eventq.c` is called by no program of the repository: a model would have to invent the
  callbacks that make it interesting. `sim-outorder` has an event queue of its own, which is
  modelled.
- Most of the lines of the repository are two copies of SimpleScalar's support code, which
  is executed once at the start or the end, or is input and output: options, statistics,
  the formats of executables and of traces, the proxies of system calls, the debugger,
  expressions, symbol tables, and the instruction definitions of two targets, macros whose
  semantics are data to every model here. They have no state whose order of change could
  go wrong, so that tests reach them, and they make up most of what the map does not
  cover. `PROJECT.json` lists each with its reason.
- Files that lab 3 and lab 4 share are modelled once, from lab 4.

The plan; all but step 7 are done.

1. `Tomasulo`, its abstract specification and refinement, and their proofs.
2. The predictors and their driver, the benchmark loop; chooser proved.
3. `Cache` with its replacement order, and the hierarchy; the look-up, the hit under LRU and the way
   of a store down the hierarchy proved.
4. The prefetchers and their loops.
5. `sim-outorder.c`: the pipeline against execution in order.
6. The trace generator with `bpred.c` and `memory.c`, against a machine with wrong paths.
7. Composition: `Cache` with the real prefetcher tables in place of
   `PrefetchTargets`, for the training by write-backs.
8. Proofs about the out-of-order pipeline, its refinement included, and about the loops.
9. Proofs about `SimMemory`, where a move to the front keeps every look-up, and about the trace
   generator on top of it.

## 8. Findings

1. **The run ends before the pipeline is empty** (`Tomasulo_done`).
   `is_simulation_done` (`tomasulo.c:143`) looks at the fetch index and the queue
   only; its comment (`:134`) says the simulation is done only if the *entire*
   pipeline is empty. The cycles that drain the stations are not counted.
2. **A trace that ends in a trap leads fetch astray** (`Tomasulo_traps`). The loop
   that skips traps (`tomasulo.c:435`) has no bound. It takes a zeroed entry, which
   resets `fetch_index` to 0 and never leaves the queue's head, or it follows a NULL
   page pointer.
3. **The first block of the address space is "the same block"**
   (`Cache_first_block`). `last_tagset` is 0 when there is no last block, so an
   access below the block size takes the fast path with a null block
   (`cache.c:811`).
4. **The RP counters wrap round** (`BranchLoop_rp`). `UpdatePredictor_RP` counts up if
   `RP_cnt[index] < 256` (`predictor.cc:167`), as it counts down if `> 0`, to stop at the
   ends. The counter is a BYTE, so the test is always true and 255 becomes 0: a branch
   that is always taken is predicted not taken again and again. The chooser
   then turns to gshare, so that `openend` still learns every loop (`LoopsAreLearned`).

Not a finding but worth knowing: in a direct-mapped cache, and under FIFO or random
replacement, a prefetch may replace the block that was just hit before
`cache.c:998` reads its ready time; `LruKeepsTheHit` states where this cannot happen.

Of `sim-outorder` and `bpred`, met while modelling; each is an imprecision of the timing or
of the prediction, none makes the program compute anything else:

- `bpred_lookup` records the top of the return-address stack before it pushes or pops
  (`bpred.c:642`). A call or return that was itself mispredicted therefore restores a stack
  without its own push or pop. `StackFollowsPath` names the case `UndoesItself`.
- A misfetch squashes the fetch queue without `bpred_recover` (`sim-outorder.c:3882`). No push or
  pop is lost by it: the misfetch of a direct branch comes from a predicted target of 1, which is fetched as
  a NOP, so no call or return can be in the queue behind it.
- The stateless classes have no BTB, their target is 0, and `ruu_fetch` takes 0 for `not taken`: under `-bpred taken`
  no branch is ever predicted taken there (the FIXME at `sim-outorder.c:4288`).
- The comment at `sim-outorder.c:2491` says that stores complete at dispatch and need not be
  queued; the code queues them, and must: without it commit waits for ever (the mutation `NotFromLsq`).
