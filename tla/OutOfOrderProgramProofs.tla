----------------------- MODULE OutOfOrderProgramProofs -----------------------
(***************************************************************************)
(* More proofs about the out-of-order pipeline, for every size, program    *)
(* and option: no link is lost and no step ends in a panic but for want of *)
(* room; an operand comes from the youngest older writer of its register;  *)
(* and the pipeline implements the machine that executes and retires one   *)
(* instruction after the other.                                            *)
(***************************************************************************)
EXTENDS OutOfOrderProofs, OutOfOrderRefinement

-----------------------------------------------------------------------------
\* What the create vectors and the chains tell of each other.

\* An entry of a create vector that is not empty.
LEMMA EntryIs ==
  ASSUME NEW e \in CvEntry, e # CVLINK_NULL
  PROVE  e.rs \in Stations /\ e.odep \in 1 .. 2 /\ e = [rs |-> e.rs, odep |-> e.odep]
BY DEF CvEntry

\* The entries that count, after a step that installs none.
LEMMA CvLiveKept ==
  ASSUME CvTypes, CvLive, TextKept,
         \A r \in Regs : create_vector'[r] \in {CVLINK_NULL, create_vector[r]},
         use_spec_cv' \subseteq use_spec_cv,
         \A r \in use_spec_cv' : spec_create_vector'[r] \in {CVLINK_NULL, spec_create_vector[r]},
         \A s \in Stations, i \in 1 .. 2, r \in Regs :
           /\ Creates(s, i, r, FALSE) /\ create_vector[r] = [rs |-> s, odep |-> i]
           /\ create_vector'[r] # CVLINK_NULL
           => InWindow(s)' /\ ~ rs'[s].completed,
         \A s \in Stations, i \in 1 .. 2, r \in Regs :
           /\ Creates(s, i, r, TRUE) /\ spec_create_vector[r] = [rs |-> s, odep |-> i]
           /\ r \in use_spec_cv' /\ spec_create_vector'[r] # CVLINK_NULL
           => InWindow(s)' /\ ~ rs'[s].completed
  PROVE  CvLive'
<1>1. ASSUME NEW r \in Regs, create_vector'[r] # CVLINK_NULL
      PROVE  Creates(create_vector[r].rs, create_vector[r].odep, r, FALSE)' /\ create_vector'[r] = create_vector[r]
  <2> DEFINE e == create_vector[r]
  <2>1. e # CVLINK_NULL /\ e \in CvEntry /\ create_vector'[r] = e
    BY <1>1 DEF CvTypes, CvEntry
  <2>2. Creates(e.rs, e.odep, r, FALSE)
    BY <2>1 DEF CvLive
  <2>3. e.rs \in Stations /\ e.odep \in 1 .. 2 /\ e = [rs |-> e.rs, odep |-> e.odep]
    BY <2>1, EntryIs
  <2>4. InWindow(e.rs)' /\ ~ rs'[e.rs].completed
    BY <1>1, <2>2, <2>3
  <2>5. rs'[e.rs].spec_mode = rs[e.rs].spec_mode /\ rs'[e.rs].onames = rs[e.rs].onames
    BY <2>3 DEF TextKept, SameText
  <2> QED
    BY <2>1, <2>2, <2>4, <2>5 DEF Creates
<1>2. ASSUME NEW r \in Regs, r \in use_spec_cv', spec_create_vector'[r] # CVLINK_NULL
      PROVE  Creates(spec_create_vector[r].rs, spec_create_vector[r].odep, r, TRUE)'
             /\ spec_create_vector'[r] = spec_create_vector[r]
  <2> DEFINE e == spec_create_vector[r]
  <2>1. e # CVLINK_NULL /\ e \in CvEntry /\ spec_create_vector'[r] = e /\ r \in use_spec_cv
    BY <1>2 DEF CvTypes, CvEntry
  <2>2. Creates(e.rs, e.odep, r, TRUE)
    BY <2>1 DEF CvLive
  <2>3. e.rs \in Stations /\ e.odep \in 1 .. 2 /\ e = [rs |-> e.rs, odep |-> e.odep]
    BY <2>1, EntryIs
  <2>4. InWindow(e.rs)' /\ ~ rs'[e.rs].completed
    BY <1>2, <2>2, <2>3
  <2>5. rs'[e.rs].spec_mode = rs[e.rs].spec_mode /\ rs'[e.rs].onames = rs[e.rs].onames
    BY <2>3 DEF TextKept, SameText
  <2> QED
    BY <2>1, <2>2, <2>4, <2>5 DEF Creates
<1> QED
  BY <1>1, <1>2 DEF CvLive, Creates

\* A step that completes or retires a station only with its chains empty, or to be
\* broadcast, keeps ChainsEnd.
LEMMA ChainsEndKept ==
  ASSUME ChainsEnd, TextKept, Stations' = Stations,
         \A s \in Stations, i \in 1 .. 2 : rs[s].odep_list[i] = <<>> => rs'[s].odep_list[i] = <<>>,
         \A s \in Stations : s # wb' /\ (~ InWindow(s)' \/ rs'[s].completed) =>
           \/ s # wb /\ (~ InWindow(s) \/ rs[s].completed)
           \/ \A i \in 1 .. 2 : rs'[s].odep_list[i] = <<>>
  PROVE  ChainsEnd'
<1>1. ASSUME NEW s \in Stations, NEW i \in 1 .. 2, s # wb', ~ InWindow(s)' \/ rs'[s].completed
      PROVE  rs'[s].odep_list[i] = <<>>
  BY <1>1 DEF ChainsEnd
<1>2. ASSUME NEW s \in Stations, NEW i \in 1 .. 2, rs'[s].onames[i] = NA
      PROVE  rs'[s].odep_list[i] = <<>>
  <2>1. rs[s].onames[i] = NA
    BY <1>2 DEF TextKept, SameText
  <2> QED
    BY <2>1 DEF ChainsEnd
<1> QED
  BY <1>1, <1>2 DEF ChainsEnd

Deep == Good /\ CvLive /\ ChainsEnd

\* A step that keeps the create vectors, the window, the chains and what is complete.
LEMMA StillDeep ==
  ASSUME Deep, RsTyped, TextKept, WindowKept, UNCHANGED cvVars,
         \A s \in Stations : rs'[s].completed = rs[s].completed,
         \A s \in Stations, i \in 1 .. 2 : rs[s].odep_list[i] = <<>> => rs'[s].odep_list[i] = <<>>,
         wb' = wb
  PROVE  CvLive' /\ ChainsEnd'
<1>1. \A s : InWindow(s)' = InWindow(s)
  BY WindowSame
<1>2. /\ CvTypes /\ CvLive /\ ChainsEnd
      /\ create_vector' = create_vector /\ spec_create_vector' = spec_create_vector /\ use_spec_cv' = use_spec_cv
  BY GoodTypes DEF Deep, cvVars
<1>3. CvLive'
  BY <1>1, <1>2, CvLiveKept DEF Creates
<1>4. Stations' = Stations
  BY DEF RsTyped
<1>5. ChainsEnd'
  BY <1>1, <1>2, <1>4, ChainsEndKept
<1> QED
  BY <1>3, <1>5

\* A step that leaves stations, window and create vectors alone keeps what they tell of
\* each other.
LEMMA SameDeep ==
  ASSUME Deep, rs' = rs, WindowKept, UNCHANGED cvVars, wb' = wb
  PROVE  CvLive' /\ ChainsEnd'
<1>1. config' = config /\ TypeOK
  BY GoodTypes DEF WindowKept, Deep
<1>2. RsTyped /\ TextKept
  BY <1>1, RsKept
<1> QED
  BY <1>2, StillDeep

\* The steps that touch neither stations nor create vectors.
LEMMA QuietDeep ==
  ASSUME Deep, \/ CommitEnd \/ StaleEvent \/ WritebackEnd \/ Requeue \/ StaleNode \/ IssueEnd
               \/ DispatchNop \/ DispatchEnd \/ Fetch \/ FetchMiss \/ FetchEnd \/ NextCycle
               \/ UNCHANGED vars
  PROVE  CvLive' /\ ChainsEnd'
<1>1. CASE CommitEnd
  BY <1>1, SameDeep DEF CommitEnd, WindowKept
<1>2. CASE StaleEvent
  BY <1>2, SameDeep DEF StaleEvent, WindowKept
<1>3. CASE WritebackEnd
  BY <1>3, SameDeep DEF WritebackEnd, WindowKept
<1>4. CASE Requeue
  BY <1>4, SameDeep DEF Requeue, issueRest, WindowKept
<1>5. CASE StaleNode
  BY <1>5, SameDeep DEF StaleNode, issueRest, WindowKept
<1>6. CASE IssueEnd
  BY <1>6, SameDeep DEF IssueEnd, issueRest, WindowKept
<1>7. CASE DispatchNop
  <2>1. /\ rs' = rs /\ WindowKept /\ UNCHANGED cvVars /\ wb' = wb
    BY <1>7 DEF DispatchNop, Execute, WindowKept, windowVars
  <2> QED
    BY <2>1, SameDeep
<1>8. CASE DispatchEnd
  BY <1>8, SameDeep DEF DispatchEnd, WindowKept
<1>9. CASE Fetch
  BY <1>9, SameDeep DEF Fetch, fetchRest, WindowKept
<1>10. CASE FetchMiss
  BY <1>10, SameDeep DEF FetchMiss, fetchRest, WindowKept
<1>11. CASE FetchEnd
  BY <1>11, SameDeep DEF FetchEnd, fetchRest, WindowKept
<1>12. CASE NextCycle
  BY <1>12, SameDeep DEF NextCycle, WindowKept
<1>13. CASE UNCHANGED vars
  BY <1>13, SameDeep DEF vars, WindowKept
<1> QED
  BY <1>1, <1>2, <1>3, <1>4, <1>5, <1>6, <1>7, <1>8, <1>9, <1>10, <1>11, <1>12, <1>13

\* Outside of a broadcast nothing is to be broadcast.
LEMMA StageWb ==
  ASSUME Good, stage \notin {"broadcast", "panic"}
  PROVE  wb = NULL /\ \A s \in Stations : s # wb
BY GoodTypes, NotNull DEF Broadcasts

\* The end of a broadcast keeps the create vectors live and the chains ended.
LEMMA WakeEndDeep == ASSUME Deep, WakeEnd PROVE CvLive' /\ ChainsEnd'
<1>1. /\ rs' = rs /\ WindowKept /\ UNCHANGED cvVars /\ wb' = NULL /\ stage = "broadcast"
      /\ rs[wb].odep_list = NoConsumers
  BY DEF WakeEnd, WindowKept
<1>2. /\ Good /\ CvLive /\ ChainsEnd /\ CvTypes /\ TypeOK /\ config' = config
  BY <1>1, GoodTypes DEF Deep, WindowKept
<1>3. RsTyped /\ TextKept
  BY <1>1, <1>2, RsKept
<1>4. \A s : InWindow(s)' = InWindow(s)
  BY <1>1, WindowSame
<1>5. CvLive'
  BY <1>1, <1>2, <1>3, <1>4, CvLiveKept DEF Creates, cvVars
<1>6. \A i \in 1 .. 2 : rs[wb].odep_list[i] = <<>>
  BY <1>1, NoChains
<1>7. ChainsEnd'
  BY <1>1, <1>2, <1>3, <1>4, <1>6, ChainsEndKept DEF RsTyped
<1> QED
  BY <1>5, <1>7

\* lsq_refresh keeps the create vectors live and the chains ended.
LEMMA RefreshDeep == ASSUME Deep, Refresh PROVE CvLive' /\ ChainsEnd'
<1>1. WindowKept /\ UNCHANGED cvVars /\ wb' = wb
  BY DEF Refresh, WindowKept
<1>2. /\ RsTyped /\ TextKept /\ ChainsKept /\ \A s \in Stations : rs'[s].completed = rs[s].completed
  BY GoodTypes, RefreshEffect DEF Deep
<1> QED
  BY <1>1, <1>2, StillDeep DEF ChainsKept, SameChains

\* A broadcast of ruu_writeback keeps the create vectors live and the chains ended.
LEMMA WakeDeep == ASSUME Deep, Wake PROVE CvLive' /\ ChainsEnd'
<1>1. WindowKept /\ UNCHANGED cvVars /\ wb' = wb /\ stage = "broadcast" /\ Good
  BY DEF Wake, WindowKept, Deep
<1>2. wb \in InFlight /\ rs[wb].completed /\ wb \in Stations
  BY <1>1, GoodTypes DEF Broadcasts, InFlight
<1>3. RSLINK_VALID(WakeLink) => WakeLink.rs # wb
  BY <1>1, <1>2, GoodTypes, WakeConsumer
<1>4. /\ RsTyped /\ TextKept /\ \A s \in Stations : rs'[s].completed = rs[s].completed
      /\ \A s \in Stations, i \in 1 .. 2 :
              rs'[s].odep_list[i] = IF s = wb /\ i = WakeIndex THEN Tail(rs[s].odep_list[i])
                                    ELSE rs[s].odep_list[i]
      /\ rs[wb].odep_list[WakeIndex] # <<>>
  BY <1>1, <1>2, <1>3, GoodTypes, WakeEffect, WakeTyped
<1>5. \A s \in Stations, i \in 1 .. 2 : rs[s].odep_list[i] = <<>> => rs'[s].odep_list[i] = <<>>
  BY <1>4
<1> QED
  BY <1>1, <1>4, <1>5, StillDeep

\* ruu_issue keeps the create vectors live and the chains ended.
LEMMA IssueStepDeep ==
  ASSUME Deep, NEW done \in BOOLEAN, IssueStep(done)
  PROVE  CvLive' /\ ChainsEnd'
<1>1. WindowKept /\ UNCHANGED cvVars /\ wb' = wb /\ stage = "issue" /\ Good /\ config' = config
  BY DEF IssueStep, WindowKept, Deep
<1>2. Candidate \in Stations /\ InWindow(Candidate)
  BY <1>1, GoodTypes, CandidateIs DEF IssueStep
<1>3. /\ RsTyped /\ TextKept /\ ChainsKept
      /\ \A s \in Stations : rs'[s].completed <=> rs[s].completed \/ (done /\ s = Candidate)
  BY <1>1, <1>2, GoodTypes, IssueEffect DEF IssueStep
<1>4. \A s : InWindow(s)' = InWindow(s)
  BY <1>1, WindowSame
<1>5. done => rs[Candidate].onames = <<NA, NA>>
  BY <1>1, <1>2, GoodTypes DEF Kinds, IssueStep
<1>6. CvLive /\ ChainsEnd /\ CvTypes /\ TypeOK /\ Stations' = Stations
  BY <1>1, <1>3, GoodTypes DEF Deep, RsTyped
<1>7. CvLive'
  <2>1. ASSUME NEW s \in Stations, NEW i \in 1 .. 2, NEW r \in Regs, NEW m, Creates(s, i, r, m)
        PROVE  InWindow(s)' /\ ~ rs'[s].completed
    <3>1. r # NA
      BY SizesAssumption DEF Regs, NA
    <3>2. done => s # Candidate
      BY <1>5, <2>1, <3>1 DEF Creates
    <3> QED
      BY <1>3, <1>4, <2>1, <3>2 DEF Creates
  <2> QED
    BY <1>1, <1>3, <1>6, <2>1, CvLiveKept DEF cvVars
<1>8. ChainsEnd'
  <2>1. \A i \in 1 .. 2 : done => rs[Candidate].odep_list[i] = <<>>
    BY <1>2, <1>5, <1>6 DEF ChainsEnd
  <2>2. \A s \in Stations, i \in 1 .. 2 : rs'[s].odep_list[i] = rs[s].odep_list[i]
    BY <1>3 DEF ChainsKept, SameChains
  <2> QED
    BY <1>1, <1>2, <1>3, <1>4, <1>6, <2>1, <2>2, ChainsEndKept
<1> QED
  BY <1>7, <1>8

\* ruu_writeback of an instruction keeps the create vectors live and the chains ended.
LEMMA WritebackDeep == ASSUME Deep, NEW b \in Stations, Writeback(b) PROVE CvLive' /\ ChainsEnd'
<1>1. /\ WindowKept /\ stage = "writeback" /\ wb' = b /\ Good /\ CvLive /\ ChainsEnd /\ use_spec_cv' = use_spec_cv
  BY DEF Writeback, Completes, WindowKept, Deep
<1>2. /\ RsTyped /\ TextKept /\ ChainsKept
      /\ \A s \in Stations : rs'[s].completed <=> rs[s].completed \/ s = b
  BY <1>1, GoodTypes, WritebackEffect
<1>3. \A s : InWindow(s)' = InWindow(s)
  BY <1>1, WindowSame
<1>4. \A s \in Stations : s # wb
  BY <1>1, StageWb
<1>5. ChainsEnd'
  <2>1. \A s \in Stations, i \in 1 .. 2 : rs'[s].odep_list[i] = rs[s].odep_list[i]
    BY <1>2 DEF ChainsKept, SameChains
  <2> QED
    BY <1>1, <1>2, <1>3, <1>4, <2>1, ChainsEndKept DEF RsTyped
<1>6. \A r \in Regs : /\ WithoutCreator(create_vector, b)[r] \in {CVLINK_NULL, create_vector[r]}
                      /\ WithoutCreator(spec_create_vector, b)[r] \in {CVLINK_NULL, spec_create_vector[r]}
  BY DEF WithoutCreator
<1>7. ASSUME NEW i \in 1 .. 2, NEW r \in Regs, rs[b].onames[i] = r
      PROVE  /\ create_vector[r] = [rs |-> b, odep |-> i] => WithoutCreator(create_vector, b)[r] = CVLINK_NULL
             /\ spec_create_vector[r] = [rs |-> b, odep |-> i] => WithoutCreator(spec_create_vector, b)[r] = CVLINK_NULL
  BY <1>7 DEF WithoutCreator
<1>8. /\ create_vector' = IF rs[b].spec_mode THEN create_vector ELSE WithoutCreator(create_vector, b)
      /\ spec_create_vector' = IF rs[b].spec_mode THEN WithoutCreator(spec_create_vector, b)
                               ELSE spec_create_vector
  BY DEF Writeback
<1>9. CvLive'
  <2>1. ASSUME NEW s \in Stations, NEW i \in 1 .. 2, NEW r \in Regs,
               Creates(s, i, r, FALSE), create_vector[r] = [rs |-> s, odep |-> i], create_vector'[r] # CVLINK_NULL
        PROVE  InWindow(s)' /\ ~ rs'[s].completed
    BY <1>2, <1>3, <1>7, <1>8, <2>1 DEF Creates
  <2>2. ASSUME NEW s \in Stations, NEW i \in 1 .. 2, NEW r \in Regs,
               Creates(s, i, r, TRUE), spec_create_vector[r] = [rs |-> s, odep |-> i],
               spec_create_vector'[r] # CVLINK_NULL
        PROVE  InWindow(s)' /\ ~ rs'[s].completed
    BY <1>2, <1>3, <1>7, <1>8, <2>2 DEF Creates
  <2>3. \A r \in Regs : /\ create_vector'[r] \in {CVLINK_NULL, create_vector[r]}
                        /\ spec_create_vector'[r] \in {CVLINK_NULL, spec_create_vector[r]}
    BY <1>6, <1>8
  <2>4. use_spec_cv \subseteq Regs /\ CvTypes
    BY <1>1, GoodTypes DEF Types, CvOK
  <2> QED
    BY <1>1, <1>2, <2>1, <2>2, <2>3, <2>4, CvLiveKept
<1> QED
  BY <1>5, <1>9

\* ruu_commit keeps the create vectors live and the chains ended.
LEMMA CommitDeep == ASSUME Deep, Commit PROVE CvLive' /\ ChainsEnd'
<1>1. /\ Good /\ CvLive /\ ChainsEnd /\ stage = "commit" /\ wb' = wb /\ UNCHANGED cvVars
      /\ rs[RuuHead].completed /\ (rs[RuuHead].ea_comp => rs[LsqHead].completed)
  BY DEF Commit, CanCommit, Deep
<1>2. /\ RsTyped /\ TextKept /\ StateKept /\ ChainsKept
      /\ \A s \in Stations : InWindow(s)' <=> InWindow(s) /\ s \notin Gone
  BY <1>1, GoodTypes, CommitEffect, CommitWindow
<1>3. \A s \in Stations : s # wb /\ rs'[s].completed = rs[s].completed
  BY <1>1, <1>2, StageWb DEF StateKept, SameState
<1>4. \A s \in Gone : rs[s].completed
  BY <1>1 DEF Gone
<1>5. CvLive'
  BY <1>1, <1>2, <1>3, <1>4, GoodTypes, CvLiveKept DEF Creates, cvVars
<1>6. ChainsEnd'
  <2>1. \A s \in Stations, i \in 1 .. 2 : rs'[s].odep_list[i] = rs[s].odep_list[i]
    BY <1>2 DEF ChainsKept, SameChains
  <2>2. \A s \in Stations : ~ InWindow(s)' \/ rs'[s].completed => ~ InWindow(s) \/ rs[s].completed
    BY <1>2, <1>3, <1>4
  <2> QED
    BY <1>1, <1>2, <1>3, <2>1, <2>2, ChainsEndKept DEF RsTyped
<1> QED
  BY <1>5, <1>6

\* What is squashed is on the wrong path.
LEMMA SquashedWrong ==
  ASSUME Good, NEW b \in Stations, Recover(b), NEW s \in Stations, s \in Squashed(b)
  PROVE  rs[s].spec_mode
<1>1. /\ b[1] = "RUU" /\ Pos(b) \in Window /\ Pos(b) \in Nat /\ Pos(b) < RUU_num
      /\ \A p \in Window : rs[RuuAt(p)].spec_mode <=> p > Pos(b)
  BY GoodTypes, RecoverIs
<1>2. CASE s \in SquashedRuu(b)
  <2>1. s[1] = "RUU" /\ InWindow(s) /\ Pos(s) > Pos(b)
    BY <1>2 DEF SquashedRuu
  <2>2. Pos(s) \in Window /\ RuuAt(Pos(s)) = s
    BY <2>1, GoodTypes, Slots, InFlightIs DEF Window, RingsTyped
  <2> QED
    BY <1>1, <2>1, <2>2
<1>3. CASE s \in SquashedLsq(b)
  <2>1. s[1] = "LSQ" /\ InWindow(s) /\ Pos(s) >= LSQ_num - SquashedMem(b)
    BY <1>3 DEF SquashedLsq
  <2>2. Pos(s) \in 0 .. LSQ_num - 1 /\ LsqAt(Pos(s)) = s
    BY <2>1, GoodTypes, Slots, InFlightIs DEF RingsTyped
  <2>3. SquashedMem(b) \in Nat /\ LSQ_num = RankIn(Agens, Pos(b) + 1) + SquashedMem(b)
    BY <1>1, GoodTypes, SquashedRank DEF Accesses
  <2>4. Agens \subseteq Nat /\ RankIn(Agens, Pos(b) + 1) \in Nat
    BY <1>1, GoodTypes, AgensAre, BelowFinite
  <2>5. PICK p \in Agens : RankIn(Agens, p) = Pos(s)
    BY <2>2, GoodTypes DEF Accesses
  <2>6. p \in Window /\ p \in Nat
    BY GoodTypes, AgensAre
  <2>7. p > Pos(b)
    <3> SUFFICES ASSUME p < Pos(b) + 1 PROVE FALSE
      BY <1>1, <2>6
    <3>1. Pos(b) + 1 \in Nat
      BY <1>1
    <3>2. RankIn(Agens, p) < RankIn(Agens, Pos(b) + 1)
      BY <2>4, <3>1, RankStrict
    <3> QED
      BY <2>1, <2>2, <2>3, <2>4, <2>5, <3>2
  <2>8. rs[LsqAt(Pos(s))].spec_mode = rs[RuuAt(p)].spec_mode
    BY <2>5, GoodTypes DEF Accesses, Matches
  <2> QED
    BY <1>1, <2>2, <2>6, <2>7, <2>8
<1> QED
  BY <1>2, <1>3 DEF Squashed

\* ruu_recover keeps the create vectors live and the chains ended.
LEMMA RecoverDeep == ASSUME Deep, NEW b \in Stations, Recover(b) PROVE CvLive' /\ ChainsEnd'
<1>1. /\ Good /\ CvLive /\ ChainsEnd /\ stage = "writeback" /\ wb' = b /\ use_spec_cv' = {}
      /\ create_vector' = IF rs[b].spec_mode THEN create_vector ELSE WithoutCreator(create_vector, b)
  BY DEF Recover, Completes, Deep
<1>2. /\ RsTyped /\ TextKept
      /\ \A s \in Stations : rs'[s].completed <=> rs[s].completed \/ (s = b /\ s \notin Squashed(b))
      /\ \A s \in Stations, i \in 1 .. 2 :
            rs'[s].odep_list[i] = IF s \in Squashed(b) THEN <<>> ELSE rs[s].odep_list[i]
      /\ \A s \in Stations : InWindow(s)' <=> InWindow(s) /\ s \notin Squashed(b)
      /\ b \notin Squashed(b)
  BY <1>1, GoodTypes, RecoverEffect, RecoverWindow
<1>3. \A s \in Stations : s # wb
  BY <1>1, StageWb
<1>4. ChainsEnd'
  BY <1>1, <1>2, <1>3, ChainsEndKept DEF RsTyped
<1>5. ~ rs[b].spec_mode
  <2>1. Pos(b) \in Window /\ RuuAt(Pos(b)) = b /\ Pos(b) \in Nat
        /\ \A p \in Window : rs[RuuAt(p)].spec_mode <=> p > Pos(b)
    BY <1>1, GoodTypes, RecoverIs
  <2> QED
    BY <2>1
<1>6. \A r \in Regs : WithoutCreator(create_vector, b)[r] \in {CVLINK_NULL, create_vector[r]}
  BY DEF WithoutCreator
<1>7. ASSUME NEW i \in 1 .. 2, NEW r \in Regs, rs[b].onames[i] = r, create_vector[r] = [rs |-> b, odep |-> i]
      PROVE  WithoutCreator(create_vector, b)[r] = CVLINK_NULL
  BY <1>7 DEF WithoutCreator
<1>8. CvLive'
  <2>1. ASSUME NEW s \in Stations, NEW i \in 1 .. 2, NEW r \in Regs,
               Creates(s, i, r, FALSE), create_vector[r] = [rs |-> s, odep |-> i], create_vector'[r] # CVLINK_NULL
        PROVE  InWindow(s)' /\ ~ rs'[s].completed
    <3>1. s # b
      BY <1>1, <1>5, <1>7, <2>1 DEF Creates
    <3>2. s \notin Squashed(b)
      BY <1>1, <2>1, SquashedWrong DEF Creates
    <3> QED
      BY <1>2, <2>1, <3>1, <3>2 DEF Creates
  <2>2. \A r \in Regs : create_vector'[r] \in {CVLINK_NULL, create_vector[r]}
    BY <1>1, <1>6
  <2>3. CvTypes
    BY <1>1, GoodTypes
  <2> QED
    BY <1>1, <1>2, <2>1, <2>2, <2>3, CvLiveKept
<1> QED
  BY <1>4, <1>8

\* The output i of s creates the register r, in the next state.
WillCreate(s, i, r, spec) ==
  InWindow(s)' /\ ~ rs'[s].completed /\ rs'[s].spec_mode = spec /\ rs'[s].onames[i] = r

\* What a live entry of a create vector names is not overwritten by ruu_dispatch.
LEMMA CreatesStays ==
  ASSUME Deep, NEW mem, Dispatches(mem), NEW s \in Stations, NEW i, NEW r, NEW spec, Creates(s, i, r, spec)
  PROVE  WillCreate(s, i, r, spec) /\ s \notin Entering(mem)
<1>1. /\ Extended(mem) /\ Entered(mem) /\ RingsTyped /\ Rings
      /\ RUU_num < RUU_size /\ LSQ_num < LSQ_size
  BY GoodTypes DEF Dispatches, Deep, Extended
<1>2. InWindow(s)' /\ s \notin Entering(mem)
  BY <1>1, ExtendedWindow, TailsAre DEF Creates, Entering, InFlight
<1>3. SameText(rs'[s], rs[s]) /\ SameState(rs'[s], rs[s])
  BY <1>1, <1>2 DEF Entered
<1> QED
  BY <1>2, <1>3 DEF Creates, SameText, SameState, WillCreate

\* The new entries were free, are in the window, and have not completed.
LEMMA Entrants ==
  ASSUME Deep, NEW mem, Dispatches(mem), NEW x \in Entering(mem)
  PROVE  /\ x \in Stations /\ ~ InWindow(x) /\ InWindow(x)'
         /\ ~ rs'[x].completed /\ rs'[x].spec_mode = spec_mode
<1>1. /\ Extended(mem) /\ Entered(mem) /\ RingsTyped /\ Rings
      /\ RUU_num < RUU_size /\ LSQ_num < LSQ_size
  BY GoodTypes DEF Dispatches, Deep, Extended
<1>2. x \in Stations /\ x \notin InFlight
  BY <1>1, TailsAre DEF Entering
<1>3. ~ InWindow(x) /\ InWindow(x)'
  BY <1>1, <1>2, ExtendedWindow DEF InFlight
<1>4. Fresh(x)
  BY <1>1 DEF Entered
<1> QED
  BY <1>2, <1>3, <1>4 DEF Fresh

\* What ruu_install_odep enters in a create vector is live.
LEMMA InstalledCreates ==
  ASSUME Deep, NEW mem, Dispatches(mem), NEW e, NEW r, Installs(e, r, mem)
  PROVE  WillCreate(e.rs, e.odep, r, spec_mode)
<1>1. PICK x \in Entering(mem), i \in 1 .. 2 : e = [rs |-> x, odep |-> i] /\ rs'[x].onames[i] = r
  BY DEF Installs
<1>2. InWindow(x)' /\ ~ rs'[x].completed /\ rs'[x].spec_mode = spec_mode
  BY Entrants
<1>3. WillCreate(x, i, r, spec_mode)
  BY <1>1, <1>2 DEF WillCreate
<1>4. e.rs = x /\ e.odep = i
  BY <1>1
<1> QED
  BY <1>3, <1>4

\* ruu_dispatch keeps the create vectors live.
LEMMA DispatchesCvLive ==
  ASSUME Deep, NEW mem, Dispatches(mem)
  PROVE  CvLive'
<1>1. /\ CvLive /\ CvTypes /\ CvInstalled(mem) /\ spec_mode \in BOOLEAN
  BY GoodTypes DEF Dispatches, Deep, TypeOK
<1>2. ASSUME NEW e \in CvEntry, e # CVLINK_NULL, NEW r, NEW spec, Creates(e.rs, e.odep, r, spec)
      PROVE  WillCreate(e.rs, e.odep, r, spec)
  BY <1>2, EntryIs, CreatesStays
<1>3. ASSUME NEW r \in Regs, NEW e, e = create_vector'[r], e # CVLINK_NULL
      PROVE  WillCreate(e.rs, e.odep, r, FALSE)
  <2>1. e = create_vector[r] \/ (~ spec_mode /\ Installs(e, r, mem))
    BY <1>1, <1>3 DEF CvInstalled
  <2>2. CASE e = create_vector[r]
    <3>1. e \in CvEntry /\ Creates(e.rs, e.odep, r, FALSE)
      BY <1>1, <1>3, <2>2 DEF CvLive, CvTypes, CvEntry
    <3> QED
      BY <1>2, <1>3, <3>1
  <2>3. CASE ~ spec_mode /\ Installs(e, r, mem)
    <3>1. spec_mode = FALSE
      BY <1>1, <2>3
    <3>2. WillCreate(e.rs, e.odep, r, spec_mode)
      BY <2>3, InstalledCreates
    <3> QED
      BY <3>1, <3>2
  <2> QED
    BY <2>1, <2>2, <2>3
<1>4. ASSUME NEW r \in Regs, NEW e, e = spec_create_vector'[r], e # CVLINK_NULL, r \in use_spec_cv'
      PROVE  WillCreate(e.rs, e.odep, r, TRUE)
  <2>1. \/ r \in use_spec_cv /\ e = spec_create_vector[r]
        \/ spec_mode /\ Installs(e, r, mem)
    BY <1>1, <1>4 DEF CvInstalled
  <2>2. CASE r \in use_spec_cv /\ e = spec_create_vector[r]
    <3>1. e \in CvEntry /\ Creates(e.rs, e.odep, r, TRUE)
      BY <1>1, <1>4, <2>2 DEF CvLive, CvTypes, CvEntry
    <3> QED
      BY <1>2, <1>4, <3>1
  <2>3. CASE spec_mode /\ Installs(e, r, mem)
    <3>1. spec_mode = TRUE
      BY <1>1, <2>3
    <3>2. WillCreate(e.rs, e.odep, r, spec_mode)
      BY <2>3, InstalledCreates
    <3> QED
      BY <3>1, <3>2
  <2> QED
    BY <2>1, <2>2, <2>3
<1> QED
  BY <1>3, <1>4 DEF CvLive, Creates, WillCreate

\* ruu_dispatch links operands only to what has not completed.
LEMMA DispatchesChains ==
  ASSUME Deep, NEW mem, Dispatches(mem)
  PROVE  ChainsEnd'
<1>1. /\ Good /\ CvLive /\ ChainsEnd /\ Extended(mem) /\ Entered(mem) /\ RingsTyped /\ Rings /\ CvTypes
      /\ ChainsAdded(mem) /\ stage = "dispatch" /\ RsTyped
  BY GoodTypes DEF Dispatches, Deep, Entered
<1>2. \A s \in Stations : s # wb
  BY <1>1, StageWb
<1>3. ASSUME NEW s \in Stations, NEW i \in 1 .. 2, Creator(s, i)
      PROVE  /\ InWindow(s)' /\ ~ rs'[s].completed /\ rs'[s].onames[i] # NA
  <2>1. PICK r \in Regs : CREATE_VECTOR(r) = [rs |-> s, odep |-> i] /\ r # NA
    <3>1. \A r \in Regs : r # NA
      BY SizesAssumption DEF Regs, NA
    <3> QED
      BY <1>3, <3>1 DEF Creator, CreatorOf
  <2>2. [rs |-> s, odep |-> i] # CVLINK_NULL
    BY NotNull DEF CVLINK_NULL
  <2>3. Creates(s, i, r, TRUE) \/ Creates(s, i, r, FALSE)
    <3> DEFINE e == [rs |-> s, odep |-> i]
    <3>1. e.rs = s /\ e.odep = i
      OBVIOUS
    <3> HIDE DEF e
    <3>2. (r \in use_spec_cv /\ spec_create_vector[r] = e) \/ create_vector[r] = e
      BY <2>1 DEF CREATE_VECTOR, e
    <3>3. e # CVLINK_NULL
      BY <2>2 DEF e
    <3> QED
      BY <1>1, <3>1, <3>2, <3>3 DEF CvLive
  <2>4. WillCreate(s, i, r, TRUE) \/ WillCreate(s, i, r, FALSE)
    BY <2>3, CreatesStays
  <2> QED
    BY <2>1, <2>4 DEF WillCreate
<1>4. ASSUME NEW s \in Stations, NEW i \in 1 .. 2, rs[s].odep_list[i] = <<>>,
             \/ ~ InWindow(s)' \/ rs'[s].completed
             \/ rs'[s].onames[i] = NA
      PROVE  rs'[s].odep_list[i] = <<>>
  <2>1. ~ Creator(s, i)
    BY <1>3, <1>4
  <2>2. ASSUME mem, s = RuuTail, i = 1, rs'[s].onames[1] # NA
        PROVE  FALSE
    <3>1. s \in Entering(mem)
      BY <2>2 DEF Entering
    <3>2. InWindow(s)' /\ ~ rs'[s].completed
      BY <3>1, Entrants
    <3> QED
      BY <1>4, <2>2, <3>2
  <2> QED
    BY <1>1, <1>4, <2>1, <2>2 DEF ChainsAdded
<1>5. ASSUME NEW s \in Stations, NEW i \in 1 .. 2,
             \/ ~ InWindow(s)' \/ rs'[s].completed
             \/ rs'[s].onames[i] = NA
      PROVE  rs[s].odep_list[i] = <<>>
  <2>1. CASE s \in Entering(mem)
    BY <1>1, <1>2, <2>1, Entrants DEF ChainsEnd
  <2>2. CASE s \notin Entering(mem)
    <3>1. /\ InWindow(s) => InWindow(s)'
          /\ SameText(rs'[s], rs[s]) /\ SameState(rs'[s], rs[s])
      BY <1>1, <2>2, ExtendedWindow DEF Entered
    <3> QED
      BY <1>1, <1>2, <1>5, <3>1 DEF ChainsEnd, SameText, SameState
  <2> QED
    BY <2>1, <2>2
<1>6. \A s \in Stations, i \in 1 .. 2 :
        (~ InWindow(s)' \/ rs'[s].completed \/ rs'[s].onames[i] = NA) => rs'[s].odep_list[i] = <<>>
  BY <1>4, <1>5
<1>7. Stations' = Stations
  BY <1>1 DEF RsTyped
<1> QED
  BY <1>6, <1>7 DEF ChainsEnd

\* The deeper invariant holds when sim_main starts.
LEMMA InitDeep == Init => Deep
<1> SUFFICES ASSUME Init PROVE Deep
  OBVIOUS
<1>1. Good
  BY InitGood
<1>2. CvLive
  BY DEF Init, CvLive
<1>3. ASSUME NEW s \in Stations, NEW i \in 1 .. 2
      PROVE  rs[s].odep_list[i] = <<>>
  <2>1. rs[s] = IdleStation
    BY DEF Init
  <2> QED
    BY <2>1 DEF IdleStation, NoConsumers
<1> QED
  BY <1>1, <1>2, <1>3 DEF ChainsEnd, Deep

\* Every step of the pipeline keeps the deeper invariant.
LEMMA NextDeep == ASSUME Deep, [Next]_vars PROVE Deep'
<1>1. Good' /\ Good
  BY NextGood DEF Deep
<1>2. SUFFICES CvLive' /\ ChainsEnd'
  BY <1>1 DEF Deep
<1>3. CASE Commit
  BY <1>3, CommitDeep
<1>4. CASE WakeEnd \/ Wake \/ Refresh
  BY <1>4, WakeEndDeep, WakeDeep, RefreshDeep
<1>5. ASSUME NEW s \in Stations, Writeback(s) \/ Recover(s) PROVE CvLive' /\ ChainsEnd'
  BY <1>5, WritebackDeep, RecoverDeep
<1>6. CASE IssueStore \/ IssueFree \/ IssueLoad \/ IssueOp
  <2>1. IssueStep(TRUE) \/ IssueStep(FALSE)
    BY <1>6, IssueStoreIs, IssueFreeIs, IssueLoadIs, IssueOpIs
  <2>2. TRUE \in BOOLEAN /\ FALSE \in BOOLEAN
    OBVIOUS
  <2> QED
    BY <2>1, <2>2, IssueStepDeep
<1>7. CASE DispatchOp \/ DispatchMem
  <2>1. Dispatches(FALSE) \/ Dispatches(TRUE)
    BY <1>1, <1>7, GoodTypes, DispatchOpDispatches, DispatchMemDispatches
  <2> QED
    BY <2>1, DispatchesCvLive, DispatchesChains
<1>8. CASE \/ CommitEnd \/ StaleEvent \/ WritebackEnd \/ Requeue \/ StaleNode \/ IssueEnd
           \/ DispatchNop \/ DispatchEnd \/ Fetch \/ FetchMiss \/ FetchEnd \/ NextCycle
           \/ UNCHANGED vars
  BY <1>8, QuietDeep
<1>9. Next => Cycle \/ UNCHANGED vars
  BY DEF Next, Stopped
<1> QED
  BY <1>3, <1>4, <1>5, <1>6, <1>7, <1>8, <1>9 DEF Cycle

\* Besides the inductive invariant: the create vectors name instructions in the window
\* that have not completed and write that register, and what is completed or not in the
\* window has no consumers left, but the one that is being broadcast.
THEOREM DeepAlways == Spec => []Deep
<1>1. Deep /\ [Next]_vars => Deep'
  BY NextDeep
<1> QED
  BY <1>1, InitDeep, PTL DEF Spec

-----------------------------------------------------------------------------
\* No step ends in a panic, but for want of room.

\* ruu_commit never ends in a panic.
LEMMA CommitCalm == ASSUME Deep, Commit PROVE stage' # "panic"
<1>1. /\ Good /\ ChainsEnd /\ stage = "commit" /\ CanCommit /\ TypeOK /\ Accesses
  BY GoodTypes DEF Commit, Deep
<1>2. ~ (rs[RuuHead].ea_comp /\ LSQ_num = 0)
  BY <1>1, CommitNumbers DEF Mem
<1>3. rs[RuuHead].odep_list = NoConsumers
  <2>1. RuuHead \in Stations /\ rs[RuuHead].completed
    BY <1>1 DEF CanCommit, RuuHead, Stations, TypeOK
  <2>2. \A i \in 1 .. 2 : rs[RuuHead].odep_list[i] = <<>>
    BY <1>1, <2>1, StageWb DEF ChainsEnd
  <2>3. rs[RuuHead] \in Station
    BY <1>1, <2>1 DEF TypeOK
  <2>4. rs[RuuHead].odep_list \in [1 .. 2 -> Seq(Links_)]
    BY <2>3 DEF Station
  <2>5. rs[RuuHead].odep_list[1] = <<>> /\ rs[RuuHead].odep_list[2] = <<>>
    BY <2>2
  <2> QED
    BY <2>4, <2>5, NoChains
<1>4. StoreAtHead => ~ (busy[StorePort.master] > 0)
  <2> SUFFICES ASSUME StoreAtHead PROVE busy[StorePort.master] = 0
    OBVIOUS
  <2>1. StorePort # NULL_TEMPLATE
    BY <1>1 DEF CanCommit
  <2> QED
    BY <2>1, ResGet DEF StorePort
<1> QED
  BY <1>2, <1>3, <1>4 DEF Commit

\* No event completes an instruction that misses operands, is queued, is not issued or
\* has completed.
LEMMA WritebackCalm == ASSUME Deep, NEW s \in Stations, Completes(s) PROVE ~ WritebackPanics(s)
<1>1. TypeOK /\ Counted /\ Flagged
  BY GoodTypes DEF Deep
<1>2. InWindow(s) /\ rs[s].issued /\ ~ rs[s].completed
  BY <1>1, EventIs
<1> QED
  BY <1>1, <1>2 DEF Flagged, WritebackPanics

\* ruu_recover never ends in a panic.
LEMMA RecoverCalm == ASSUME Deep, NEW b \in Stations, Recover(b) PROVE stage' # "panic"
<1>1. ~ WritebackPanics(b)
  BY WritebackCalm DEF Recover
<1>2. b[1] = "RUU" /\ InWindow(b) /\ spec_mode
  BY GoodTypes, RecoverIs DEF Deep
<1>3. SquashedMem(b) \in 0 .. LSQ_num /\ LSQ_num \in Nat
  BY GoodTypes, RecoverNumbers DEF Deep
<1>4. ~ (SquashedMem(b) > LSQ_num)
  BY <1>3
<1> QED
  BY <1>1, <1>2, <1>4 DEF Recover

\* A broadcast ends in a panic only when it wants a link and there is none.
LEMMA WakeCalm == ASSUME Deep, Wake, stage' = "panic" PROVE free_links = 0 /\ free_links' = 0
<1>1. /\ \/ RSLINK_VALID(WakeLink) /\ rs[WakeLink.rs].idep_ready[WakeLink.opnum]
         \/ /\ RSLINK_VALID(WakeLink)
            /\ rs[WakeLink.rs].queued \/ (free_links = 0 /\ free_links' = free_links)
  BY DEF Wake, WakeLink, WakeIndex
<1>2. RSLINK_VALID(WakeLink) => /\ ~ rs[WakeLink.rs].idep_ready[WakeLink.opnum]
                               /\ ~ rs[WakeLink.rs].queued
  BY GoodTypes, WakeConsumer DEF Deep, Broadcasts, Wake
<1> QED
  BY <1>1, <1>2

\* The candidate of ruu_issue has its operands, is not under way and has not completed.
LEMMA IssuedCalm ==
  ASSUME Deep, stage = "issue", node # <<>>, RSLINK_VALID(Head(node)), node' = Tail(node)
  PROVE  ~ IssuePanics(Candidate) /\ Candidate \in Stations /\ InWindow(Candidate)
<1>1. TypeOK /\ Lists
  BY GoodTypes DEF Deep
<1> QED
  BY <1>1, CandidateIs DEF IssuePanics

\* Starting a unit ends in a panic only when the last link is gone.
LEMMA StartCalm ==
  ASSUME Deep, Issuing, NEW lat \in Nat \ {0}, NEW fu, Start(lat, fu), stage' = "panic",
         fu # NULL_TEMPLATE => ~ (busy[fu.master] > 0)
  PROVE  free_links' = 0
<1>1. ~ IssuePanics(Candidate)
  BY IssuedCalm DEF Issuing, Start
<1> QED
  BY <1>1 DEF Start

\* ruu_issue ends in a panic only when the last link is gone.
LEMMA IssueCalm ==
  ASSUME Deep, IssueStore \/ IssueFree \/ IssueLoad \/ IssueOp, stage' = "panic"
  PROVE  free_links' = 0
<1>1. CASE IssueStore
  <2>1. ~ IssuePanics(Candidate) /\ Candidate \in Stations /\ InWindow(Candidate)
    BY <1>1, IssuedCalm DEF IssueStore, Issuing
  <2>2. rs[Candidate].onames = <<NA, NA>>
    BY <1>1, <2>1, GoodTypes DEF Deep, Kinds, IssueStore
  <2> QED
    BY <1>1, <2>1, <2>2 DEF IssueStore
<1>2. CASE IssueFree
  BY <1>2, StartCalm DEF IssueFree
<1>3. CASE IssueLoad
  <2>1. PICK cache \in (IF Forwarded(Candidate) THEN {1} ELSE LoadLats), tlb \in TlbLats :
          Start(IF cache > tlb THEN cache ELSE tlb, FuFor(Candidate))
    BY <1>3 DEF IssueLoad
  <2>2. cache \in Nat \ {0} /\ tlb \in Nat \ {0}
    BY ProgramAssumption
  <2>3. (IF cache > tlb THEN cache ELSE tlb) \in Nat \ {0}
    BY <2>2
  <2>4. FuFor(Candidate) # NULL_TEMPLATE /\ Issuing
    BY <1>3 DEF IssueLoad
  <2>5. busy[FuFor(Candidate).master] = 0
    BY <2>4, ResGet DEF FuFor
  <2>6. ~ (busy[FuFor(Candidate).master] > 0)
    BY <2>5
  <2> QED
    BY <2>1, <2>3, <2>4, <2>6, StartCalm
<1>4. CASE IssueOp
  <2>1. FuFor(Candidate) # NULL_TEMPLATE /\ Issuing /\ Start(FuFor(Candidate).oplat, FuFor(Candidate))
    BY <1>4 DEF IssueOp
  <2>2. busy[FuFor(Candidate).master] = 0 /\ FuFor(Candidate).oplat \in Nat \ {0}
    BY <2>1, ResGet DEF FuFor
  <2>3. ~ (busy[FuFor(Candidate).master] > 0)
    BY <2>2
  <2> QED
    BY <2>1, <2>2, <2>3, StartCalm
<1> QED
  BY <1>1, <1>2, <1>3, <1>4

\* A candidate goes back to the ready list without a panic unless the last link is gone.
LEMMA RequeueCalm == ASSUME Deep, Requeue, stage' = "panic" PROVE free_links' = 0
<1>1. ~ IssuePanics(Candidate)
  BY IssuedCalm DEF Requeue
<1> QED
  BY <1>1 DEF Requeue

\* lsq_refresh does not change which stores wait for their data.
LEMMA UnknownsKept ==
  ASSUME Good, Refresh
  PROVE  StdUnknowns' = StdUnknowns
<1>1. /\ RsTyped /\ TextKept /\ ChainsKept /\ RingsTyped /\ WindowKept
  BY GoodTypes, RefreshEffect DEF Refresh, WindowKept
<1>2. /\ LSQ_num' = LSQ_num /\ LSQ_num \in Nat
      /\ \A p \in Int : LsqAt(p) \in Stations /\ LsqAt(p)' = LsqAt(p)
  <2>1. LSQ_num' = LSQ_num /\ LSQ_num \in Nat /\ LSQ_head \in Nat /\ LSQ_size \in Nat \ {0}
    <3>1. config \in Configs
      BY GoodTypes DEF TypeOK
    <3>2. LSQ_size \in Nat \ {0}
      BY <3>1, SizeType
    <3>3. LSQ_num \in Nat /\ LSQ_head \in Nat
      BY <1>1, <3>2 DEF RingsTyped
    <3> QED
      BY <1>1, <3>2, <3>3 DEF WindowKept, windowVars
  <2>2. LSQ_head' = LSQ_head /\ LSQ_size' = LSQ_size
    BY <1>1 DEF WindowKept, LSQ_size, windowVars
  <2>3. \A p \in Int : (LSQ_head + p) % LSQ_size \in 0 .. LSQ_size - 1
    BY <2>1
  <2> QED
    BY <2>1, <2>2, <2>3 DEF LsqAt, Stations
<1>3. \A s \in Stations : /\ rs'[s].op = rs[s].op
                          /\ OPERANDS_READY(s)' <=> OPERANDS_READY(s)
                          /\ STORE_ADDR_READY(s)' <=> STORE_ADDR_READY(s)
  BY <1>1 DEF TextKept, SameText, ChainsKept, SameChains, OPERANDS_READY, STORE_ADDR_READY
<1>4. ASSUME NEW p \in Int
      PROVE  /\ StoreAt(p)' <=> StoreAt(p)
             /\ STORE_ADDR_READY(LsqAt(p))' <=> STORE_ADDR_READY(LsqAt(p))
             /\ StdUnknown(p)' <=> StdUnknown(p)
  <2>1. LsqAt(p) \in Stations /\ LsqAt(p)' = LsqAt(p)
    BY <1>2
  <2>2. rs'[LsqAt(p)].op = rs[LsqAt(p)].op
    BY <1>3, <2>1
  <2>3. StoreAt(p)' <=> StoreAt(p)
    BY <1>2, <2>1, <2>2 DEF StoreAt
  <2>4. (OPERANDS_READY(LsqAt(p))' <=> OPERANDS_READY(LsqAt(p)))
        /\ (STORE_ADDR_READY(LsqAt(p))' <=> STORE_ADDR_READY(LsqAt(p)))
    BY <1>3, <2>1 DEF OPERANDS_READY, STORE_ADDR_READY
  <2> QED
    BY <2>3, <2>4 DEF StdUnknown
<1>5. ASSUME NEW q \in Int
      PROVE  Scanned(q)' <=> Scanned(q)
  <2>1. 0 .. q \subseteq Int
    OBVIOUS
  <2> QED
    BY <1>4, <2>1 DEF Scanned
<1>6. ASSUME NEW q
      PROVE  q \in StdUnknowns' <=> q \in StdUnknowns
  BY <1>2, <1>4, <1>5 DEF StdUnknowns
<1> QED
  BY <1>6

\* lsq_refresh ends in a panic only for want of a link, or with more stores of unknown
\* data than it has room for.
LEMMA RefreshCalm ==
  ASSUME Deep, Refresh, stage' = "panic"
  PROVE  free_links' <= 0 \/ Cardinality(StdUnknowns)' > MAX_STD_UNKNOWNS
<1>1. /\ free_links' = free_links - Cardinality(ReadyLoads)
      /\ free_links < Cardinality(ReadyLoads) \/ Cardinality(StdUnknowns) > MAX_STD_UNKNOWNS
  BY DEF Refresh, ReadyLoads, StdUnknowns
<1>2. Cardinality(ReadyLoads) \in Nat
  <2>1. LSQ_num \in Nat /\ 0 \in Int /\ LSQ_num - 1 \in Int
    BY GoodTypes DEF Deep, RingsTyped
  <2>2. ReadyLoads \in SUBSET (0 .. LSQ_num - 1)
    BY DEF ReadyLoads
  <2> QED
    BY <2>1, <2>2, FS_Interval, FS_Subset, FS_CardinalityType
<1>3. StdUnknowns' = StdUnknowns
  BY UnknownsKept DEF Deep
<1>4. free_links \in Int
  BY GoodTypes DEF Deep, TypeOK
<1> QED
  BY <1>1, <1>2, <1>3, <1>4

\* ruu_dispatch of a nop never ends in a panic.
LEMMA DispatchNopCalm == ASSUME Deep, DispatchNop PROVE stage' # "panic"
<1>1. PICK npc \in NextPCs(code, Head(fetch_data).regs_PC) :
        stage' = IF Mispredicted(npc) THEN "panic" ELSE "dispatch"
  BY DEF DispatchNop
<1>2. fetch_data # <<>> /\ InstAt(Head(fetch_data).regs_PC).op = "nop"
  BY DEF DispatchNop, CanDispatch
<1>3. ~ IsCtrl("nop")
  BY DEF IsCtrl, MD_OP_FLAGS, OpTable
<1>4. npc = Head(fetch_data).regs_PC + 1
  BY <1>1, <1>2, <1>3 DEF NextPCs, InstAt
<1>5. 1 \in DOMAIN fetch_data /\ Head(fetch_data) = fetch_data[1]
  BY <1>2, GoodTypes DEF Types, FetchOK, Deep
<1>6. Head(fetch_data).pred_PC = Head(fetch_data).regs_PC + 1
  BY <1>2, <1>3, <1>5, GoodTypes DEF FetchedStraight, Deep
<1> QED
  BY <1>1, <1>4, <1>6 DEF Mispredicted

\* With an empty window the machine is not on a wrong path.
LEMMA DrainedIsStraight == ASSUME Good, RUU_num = 0 PROVE ~ spec_mode
<1>1. \A b \in Nat : b \notin Branches
  BY DEF Branches, Window
<1> QED
  BY <1>1, GoodTypes DEF WrongPath

\* ruu_dispatch ends in a panic only when it wants a link and there is none.
LEMMA DispatchCalm ==
  ASSUME Deep, DispatchOp \/ DispatchMem, stage' = "panic"
  PROVE  free_links' < 0
<1>1. CASE DispatchOp
  <2>1. \/ free_links' < 0
        \/ InstAt(Head(fetch_data).regs_PC).op = "syscall" /\ spec_mode
    <3>1. PICK pc, npc : pc = Head(fetch_data).regs_PC /\ npc \in NextPCs(code, pc) /\ OpStep(pc, npc)
      BY ONLY <1>1, OpStepIs, Zenon
    <3>2. stage' = IF (InstAt(pc).op = "syscall" /\ spec_mode) \/ free_links' < 0 THEN "panic" ELSE "dispatch"
      BY Zenon, <3>1 DEF OpStep
    <3> QED
      BY <3>1, <3>2
  <2>2. InstAt(Head(fetch_data).regs_PC).op = "syscall" => RUU_num = 0
    BY <1>1 DEF DispatchOp, CanDispatch
  <2> QED
    BY <2>1, <2>2, DrainedIsStraight DEF Deep
<1>2. CASE DispatchMem
  <2>1. PICK pc, npc : \E addr \in Addrs :
          /\ npc \in NextPCs(code, pc) /\ pc = Head(fetch_data).regs_PC /\ MemStep(pc, npc, addr)
    BY ONLY <1>2, DispatchMemIs, Zenon
  <2>2. PICK addr \in Addrs : MemStep(pc, npc, addr)
    BY <2>1
  <2>3. stage' = IF free_links' < 0 THEN "panic" ELSE "dispatch"
    BY Zenon, <2>2 DEF MemStep
  <2> QED
    BY <2>3
<1> QED
  BY <1>1, <1>2

\* The end of a cycle never ends in a panic.
LEMMA NextCycleCalm == ASSUME Deep, NextCycle PROVE stage' # "panic"
<1>1. Rings /\ RingsTyped /\ Accesses
  BY GoodTypes DEF Deep
<1>2. Agens \in SUBSET (0 .. RUU_num - 1) /\ Below(Agens, RUU_num) = Agens /\ RUU_num \in Nat /\ LSQ_num \in Nat
  BY <1>1, AgensAre DEF Agens, Window
<1>3. LSQ_num = Cardinality(Agens)
  BY <1>1, <1>2 DEF Accesses, RankIn
<1>4. Cardinality(0 .. RUU_num - 1) = RUU_num /\ IsFiniteSet(0 .. RUU_num - 1)
  <2>1. 0 \in Int /\ RUU_num - 1 \in Int
    BY <1>2
  <2> QED
    BY <1>2, <2>1, FS_Interval
<1>5. Cardinality(Agens) <= RUU_num
  BY <1>2, <1>4, FS_Subset
<1>6. ~ (RUU_num < LSQ_num)
  BY <1>2, <1>3, <1>5
<1> QED
  BY <1>1, <1>6 DEF NextCycle, Rings

\* What the panics of a state are for.
Roomless == free_links <= 0 \/ Cardinality(StdUnknowns) > MAX_STD_UNKNOWNS

\* A step into a panic leaves no room in the pool of links, or in the table of
\* lsq_refresh.
LEMMA PanicNext == ASSUME Deep, Cycle, stage' = "panic" PROVE Roomless'
<1>0. SUFFICES free_links' \in Int => Roomless'
  <2>1. Good'
    BY NextGood DEF Deep, Next
  <2>2. free_links' \in Int
    BY <2>1 DEF Good, Types, QueuesOK
  <2> QED
    BY <2>2
<1>1. CASE Commit
  BY <1>1, CommitCalm
<1>2. ASSUME NEW s \in Stations, Writeback(s) \/ Recover(s) PROVE FALSE
  <2>1. CASE Writeback(s)
    <3>1. ~ WritebackPanics(s)
      BY <2>1, WritebackCalm DEF Writeback
    <3> QED
      BY <2>1, <3>1 DEF Writeback
  <2> QED
    BY <1>2, <2>1, RecoverCalm
<1>3. CASE Wake
  BY <1>3, WakeCalm DEF Roomless
<1>4. CASE Refresh
  BY <1>4, RefreshCalm DEF Roomless
<1>5. CASE IssueStore \/ IssueFree \/ IssueLoad \/ IssueOp
  BY <1>5, IssueCalm DEF Roomless
<1>6. CASE Requeue
  BY <1>6, RequeueCalm DEF Roomless
<1>7. CASE DispatchOp \/ DispatchMem
  BY <1>7, DispatchCalm DEF Roomless
<1>8. CASE DispatchNop \/ NextCycle
  BY <1>8, DispatchNopCalm, NextCycleCalm
<1>9. CASE \/ CommitEnd \/ StaleEvent \/ WakeEnd \/ WritebackEnd \/ StaleNode \/ IssueEnd \/ DispatchEnd
           \/ Fetch \/ FetchMiss \/ FetchEnd
  BY <1>9 DEF CommitEnd, StaleEvent, WakeEnd, WritebackEnd, StaleNode, IssueEnd, DispatchEnd, Fetch, FetchMiss,
              FetchEnd
<1> QED
  BY <1>1, <1>2, <1>3, <1>4, <1>5, <1>6, <1>7, <1>8, <1>9 DEF Cycle

\* sim_main does not start in a panic.
LEMMA InitRoom == Init => PanicsForRoom
BY DEF Init, PanicsForRoom

\* Every step keeps panics to those for want of room.
LEMMA NextRoom == ASSUME Deep, PanicsForRoom, [Next]_vars PROVE PanicsForRoom'
<1>1. CASE Cycle
  <2>1. stage' = "panic" => Roomless'
    BY <1>1, PanicNext
  <2> QED
    BY <2>1 DEF PanicsForRoom, Roomless
<1>2. CASE UNCHANGED vars
  <2>1. /\ stage' = stage /\ free_links' = free_links /\ rs' = rs /\ LSQ_num' = LSQ_num /\ LSQ_head' = LSQ_head
        /\ config' = config
    BY <1>2 DEF vars, windowVars, queueVars
  <2>2. StdUnknowns' = StdUnknowns
    BY <2>1 DEF StdUnknowns, Scanned, StdUnknown, StoreAt, LsqAt, LSQ_size, STORE_ADDR_READY, OPERANDS_READY
  <2> QED
    BY <2>1, <2>2 DEF PanicsForRoom
<1> QED
  BY <1>1, <1>2 DEF Next, Stopped

\* The simulator gives up for want of room only.
THEOREM PanicsOnlyForRoom == Spec => []PanicsForRoom
<1>1. Deep /\ PanicsForRoom /\ [Next]_vars => Deep' /\ PanicsForRoom'
  BY NextDeep, NextRoom
<1>2. Init => Deep /\ PanicsForRoom
  BY InitDeep, InitRoom
<1> QED
  BY <1>1, <1>2, PTL DEF Spec

\* At most all entries of the LSQ are stores of unknown data.
LEMMA UnknownsFew ==
  ASSUME TypeOK
  PROVE  Cardinality(StdUnknowns) <= LSQ_size /\ Cardinality(StdUnknowns) \in Nat
<1>1. LSQ_size \in Nat \ {0} /\ LSQ_num \in 0 .. LSQ_size
  BY SizeType DEF TypeOK
<1>2. 0 \in Int /\ LSQ_num - 1 \in Int
  BY <1>1
<1>3. IsFiniteSet(0 .. LSQ_num - 1) /\ Cardinality(0 .. LSQ_num - 1) = LSQ_num
  BY <1>1, <1>2, FS_Interval
<1>4. StdUnknowns \in SUBSET (0 .. LSQ_num - 1)
  BY DEF StdUnknowns
<1>5. /\ IsFiniteSet(StdUnknowns) /\ Cardinality(StdUnknowns) <= Cardinality(0 .. LSQ_num - 1)
  BY <1>3, <1>4, FS_Subset
<1> QED
  BY <1>1, <1>3, <1>5, FS_CardinalityType

\* Where std_unknowns has room for all of the LSQ, no assertion of the pipeline fails as long as there
\* are links.
THEOREM NeverPanics ==
  ASSUME \A c \in Configs : c.LSQ_size <= MAX_STD_UNKNOWNS
  PROVE  Spec /\ [](free_links > 0) => []NoPanic
<1>1. Deep /\ PanicsForRoom /\ [Next]_vars => Deep' /\ PanicsForRoom'
  BY NextDeep, NextRoom
<1>2. Init => Deep /\ PanicsForRoom
  BY InitDeep, InitRoom
<1>3. ASSUME Deep, PanicsForRoom, free_links > 0
      PROVE  NoPanic
  <2>1. TypeOK /\ free_links \in Int /\ config \in Configs
    BY <1>3, GoodTypes DEF Deep, TypeOK
  <2>2. Cardinality(StdUnknowns) <= LSQ_size /\ Cardinality(StdUnknowns) \in Nat
    BY <2>1, UnknownsFew
  <2>3. LSQ_size <= MAX_STD_UNKNOWNS /\ LSQ_size \in Nat /\ MAX_STD_UNKNOWNS \in Nat
    BY <2>1, SizeType, SizesAssumption DEF LSQ_size
  <2>4. ~ (Cardinality(StdUnknowns) > MAX_STD_UNKNOWNS) /\ ~ (free_links <= 0)
    BY <1>3, <2>1, <2>2, <2>3
  <2> QED
    BY <1>3, <2>4 DEF PanicsForRoom, NoPanic
<1>4. Deep /\ PanicsForRoom /\ free_links > 0 => NoPanic
  BY <1>3
<1> QED
  BY <1>1, <1>2, <1>4, PTL DEF Spec

-----------------------------------------------------------------------------
\* No link is lost.

-----------------------------------------------------------------------------
\* Counting the links on the output chains.

\* The places of the links on the chains of the stations S, in st, and how many there are.
PlacesAt(st, p)   == {p} \X DOMAIN st[p[1]].odep_list[p[2]]
LinkPlaces(st, S) == UNION {PlacesAt(st, p) : p \in S \X (1 .. 2)}
Total(st)         == Cardinality(LinkPlaces(st, Stations))

\* The places on the chains are finitely many.
LEMMA PlacesFinite ==
  ASSUME RingsTyped, NEW st \in [Stations -> Station], NEW S \in SUBSET Stations
  PROVE  IsFiniteSet(LinkPlaces(st, S)) /\ Cardinality(LinkPlaces(st, S)) \in Nat
<1> DEFINE P == S \X (1 .. 2)
           F == {PlacesAt(st, p) : p \in P}
           f == [p \in P |-> PlacesAt(st, p)]
<1>1. IsFiniteSet(P)
  <2>1. IsFiniteSet(S)
    BY StationsFinite, FS_Subset
  <2>2. IsFiniteSet(1 .. 2)
    <3>1. 1 \in Int /\ 2 \in Int
      OBVIOUS
    <3> QED
      BY <3>1, FS_Interval
  <2> QED
    BY <2>1, <2>2, FS_Product
<1>2. f \in Surjection(P, F)
  BY DEF Surjection
<1>3. IsFiniteSet(F)
  <2> HIDE DEF f, F, P
  <2> QED
    BY <1>1, <1>2, FS_Surjection
<1>4. \A p \in P : IsFiniteSet(PlacesAt(st, p))
  <2> TAKE p \in P
  <2>1. PICK s \in S, i \in 1 .. 2 : p = <<s, i>>
    OBVIOUS
  <2>2. DOMAIN st[s].odep_list[i] = 1 .. Len(st[s].odep_list[i]) /\ Len(st[s].odep_list[i]) \in Nat
    BY ChainOf
  <2>3. IsFiniteSet(DOMAIN st[s].odep_list[i])
    BY <2>2, FS_Interval
  <2>4. IsFiniteSet({p}) /\ p[1] = s /\ p[2] = i
    BY <2>1, FS_Singleton
  <2> QED
    BY <2>1, <2>3, <2>4, FS_Product DEF PlacesAt
<1>5. IsFiniteSet(UNION F)
  BY <1>3, <1>4, FS_UNION
<1>6. LinkPlaces(st, S) = UNION F
  BY DEF LinkPlaces
<1> HIDE DEF F
<1> QED
  BY <1>5, <1>6, FS_CardinalityType

\* A place is a chain and an index on it.
LEMMA PlaceIs ==
  ASSUME NEW st \in [Stations -> Station], NEW S \in SUBSET Stations, NEW z
  PROVE  z \in LinkPlaces(st, S) <=>
           \E s \in S, i \in 1 .. 2, j \in Nat :
             z = <<<<s, i>>, j>> /\ 1 <= j /\ j <= Len(st[s].odep_list[i])
<1>1. \A s \in S, i \in 1 .. 2 :
        DOMAIN st[s].odep_list[i] = 1 .. Len(st[s].odep_list[i]) /\ Len(st[s].odep_list[i]) \in Nat
  BY ChainOf
<1>2. ASSUME z \in LinkPlaces(st, S)
      PROVE  \E s \in S, i \in 1 .. 2, j \in Nat :
               z = <<<<s, i>>, j>> /\ 1 <= j /\ j <= Len(st[s].odep_list[i])
  <2>1. PICK p \in S \X (1 .. 2) : z \in PlacesAt(st, p)
    BY <1>2 DEF LinkPlaces
  <2>2. PICK s \in S, i \in 1 .. 2 : p = <<s, i>>
    BY <2>1
  <2>3. p[1] = s /\ p[2] = i
    BY <2>2
  <2>4. PICK j \in DOMAIN st[s].odep_list[i] : z = <<p, j>>
    BY <2>1, <2>3 DEF PlacesAt
  <2>5. j \in 1 .. Len(st[s].odep_list[i]) /\ Len(st[s].odep_list[i]) \in Nat
    BY <1>1, <2>4
  <2> QED
    BY <2>2, <2>4, <2>5
<1>3. ASSUME NEW s \in S, NEW i \in 1 .. 2, NEW j \in Nat,
             z = <<<<s, i>>, j>>, 1 <= j, j <= Len(st[s].odep_list[i])
      PROVE  z \in LinkPlaces(st, S)
  <2> DEFINE p == <<s, i>>
  <2>1. p \in S \X (1 .. 2) /\ p[1] = s /\ p[2] = i
    OBVIOUS
  <2>2. j \in DOMAIN st[s].odep_list[i]
    BY <1>1, <1>3
  <2>3. z \in PlacesAt(st, p)
    BY <1>3, <2>1, <2>2 DEF PlacesAt
  <2> HIDE DEF p
  <2> QED
    BY <2>1, <2>3 DEF LinkPlaces
<1> QED
  BY <1>2, <1>3

\* Chains of the same lengths have as many links.
LEMMA SameTotal ==
  ASSUME NEW st \in [Stations -> Station], NEW st2 \in [Stations -> Station],
         \A s \in Stations, i \in 1 .. 2 : Len(st2[s].odep_list[i]) = Len(st[s].odep_list[i])
  PROVE  Total(st2) = Total(st)
<1>1. Stations \in SUBSET Stations
  OBVIOUS
<1>2. \A z : z \in LinkPlaces(st2, Stations) <=> z \in LinkPlaces(st, Stations)
  <2> TAKE z
  <2>1. z \in LinkPlaces(st, Stations) <=>
           \E s \in Stations, i \in 1 .. 2, j \in Nat :
             z = <<<<s, i>>, j>> /\ 1 <= j /\ j <= Len(st[s].odep_list[i])
    BY <1>1, PlaceIs
  <2>2. z \in LinkPlaces(st2, Stations) <=>
           \E s \in Stations, i \in 1 .. 2, j \in Nat :
             z = <<<<s, i>>, j>> /\ 1 <= j /\ j <= Len(st2[s].odep_list[i])
    BY <1>1, PlaceIs
  <2> QED
    BY <2>1, <2>2
<1>3. LinkPlaces(st2, Stations) = LinkPlaces(st, Stations)
  BY <1>2
<1> QED
  BY <1>3 DEF Total

\* A chain that is one longer has one link more.
LEMMA OneLonger ==
  ASSUME RingsTyped, NEW st \in [Stations -> Station], NEW st2 \in [Stations -> Station],
         NEW t \in Stations, NEW k \in 1 .. 2,
         Len(st2[t].odep_list[k]) = Len(st[t].odep_list[k]) + 1,
         \A s \in Stations, i \in 1 .. 2 : s # t \/ i # k =>
           Len(st2[s].odep_list[i]) = Len(st[s].odep_list[i])
  PROVE  Total(st2) = Total(st) + 1
<1> DEFINE A == LinkPlaces(st, Stations)
           B == LinkPlaces(st2, Stations)
           m == Len(st[t].odep_list[k])
           new == <<<<t, k>>, m + 1>>
<1>1. Stations \in SUBSET Stations /\ m \in Nat
  BY ChainOf
<1>1a. \A s \in Stations, i \in 1 .. 2 : Len(st[s].odep_list[i]) \in Nat
  BY ChainOf
<1>2. ASSUME NEW z
      PROVE  /\ z \in A <=> \E s \in Stations, i \in 1 .. 2, j \in Nat :
                              z = <<<<s, i>>, j>> /\ 1 <= j /\ j <= Len(st[s].odep_list[i])
             /\ z \in B <=> \E s \in Stations, i \in 1 .. 2, j \in Nat :
                              z = <<<<s, i>>, j>> /\ 1 <= j /\ j <= Len(st2[s].odep_list[i])
  BY <1>1, PlaceIs
<1>3. new \notin A
  <2> SUFFICES ASSUME new \in A PROVE FALSE
    OBVIOUS
  <2>1. PICK s \in Stations, i \in 1 .. 2, j \in Nat :
          new = <<<<s, i>>, j>> /\ 1 <= j /\ j <= Len(st[s].odep_list[i])
    BY <1>2
  <2>2. s = t /\ i = k /\ j = m + 1
    BY <2>1
  <2> QED
    BY <1>1, <2>1, <2>2
<1>4. new \in B
  <2>1. m + 1 \in Nat /\ 1 <= m + 1 /\ m + 1 <= Len(st2[t].odep_list[k])
    BY <1>1
  <2> QED
    BY <1>2, <2>1
<1> HIDE DEF A, B
<1>5. ASSUME NEW z \in A
      PROVE  z \in B
  <2>1. PICK s \in Stations, i \in 1 .. 2, j \in Nat :
          z = <<<<s, i>>, j>> /\ 1 <= j /\ j <= Len(st[s].odep_list[i])
    BY <1>2
  <2>2. j <= Len(st2[s].odep_list[i])
    BY <1>1a, <2>1
  <2> QED
    BY <1>2, <2>1, <2>2
<1>6. ASSUME NEW z \in B, z # new
      PROVE  z \in A
  <2>1. PICK s \in Stations, i \in 1 .. 2, j \in Nat :
          z = <<<<s, i>>, j>> /\ 1 <= j /\ j <= Len(st2[s].odep_list[i])
    BY <1>2
  <2>2. j <= Len(st[s].odep_list[i])
    <3>1. CASE s = t /\ i = k
      <4>1. j # m + 1
        BY <1>6, <2>1, <3>1
      <4> QED
        BY <1>1, <2>1, <3>1, <4>1
    <3>2. CASE s # t \/ i # k
      BY <1>1a, <2>1, <3>2
    <3> QED
      BY <3>1, <3>2
  <2> QED
    BY <1>2, <2>1, <2>2
<1> HIDE DEF new
<1>7. B = A \cup {new}
  BY <1>4, <1>5, <1>6
<1>8. IsFiniteSet(A) /\ Total(st) = Cardinality(A) /\ Total(st2) = Cardinality(B)
  BY <1>1, PlacesFinite DEF Total, A, B
<1> QED
  BY <1>3, <1>7, <1>8, FS_AddElement

\* Chains that are dropped whole lose their links, and no others.
LEMMA TotalCut ==
  ASSUME RingsTyped, NEW st \in [Stations -> Station], NEW st2 \in [Stations -> Station],
         NEW S \in SUBSET Stations,
         \A s \in Stations, i \in 1 .. 2 :
           st2[s].odep_list[i] = IF s \in S THEN <<>> ELSE st[s].odep_list[i]
  PROVE  Total(st2) = Total(st) - Cardinality(LinkPlaces(st, S))
<1> DEFINE A == LinkPlaces(st, Stations)
           B == LinkPlaces(st2, Stations)
           C == LinkPlaces(st, S)
<1>1. Stations \in SUBSET Stations /\ Len(<<>>) = 0
  OBVIOUS
<1>2. ASSUME NEW z
      PROVE  /\ z \in A <=> \E s \in Stations, i \in 1 .. 2, j \in Nat :
                              z = <<<<s, i>>, j>> /\ 1 <= j /\ j <= Len(st[s].odep_list[i])
             /\ z \in B <=> \E s \in Stations, i \in 1 .. 2, j \in Nat :
                              z = <<<<s, i>>, j>> /\ 1 <= j /\ j <= Len(st2[s].odep_list[i])
             /\ z \in C <=> \E s \in S, i \in 1 .. 2, j \in Nat :
                              z = <<<<s, i>>, j>> /\ 1 <= j /\ j <= Len(st[s].odep_list[i])
  BY <1>1, PlaceIs
<1>3. IsFiniteSet(A) /\ IsFiniteSet(C)
  BY <1>1, PlacesFinite
<1> HIDE DEF A, B, C
<1>4. ASSUME NEW z \in B
      PROVE  z \in A /\ z \notin C
  <2>1. PICK s \in Stations, i \in 1 .. 2, j \in Nat :
          z = <<<<s, i>>, j>> /\ 1 <= j /\ j <= Len(st2[s].odep_list[i])
    BY <1>2
  <2>2. s \notin S
    <3> SUFFICES ASSUME s \in S PROVE FALSE
      OBVIOUS
    <3>1. Len(st2[s].odep_list[i]) = 0
      BY <1>1
    <3> QED
      BY <2>1, <3>1
  <2>3. st2[s].odep_list[i] = st[s].odep_list[i]
    BY <2>2
  <2>4. z \in A
    BY <1>2, <2>1, <2>3
  <2>5. z \notin C
    <3> SUFFICES ASSUME z \in C PROVE FALSE
      OBVIOUS
    <3>1. PICK t \in S, k \in 1 .. 2, m \in Nat : z = <<<<t, k>>, m>>
      BY <1>2
    <3> QED
      BY <2>1, <2>2, <3>1
  <2> QED
    BY <2>4, <2>5
<1>5. ASSUME NEW z \in A, z \notin C
      PROVE  z \in B
  <2>1. PICK s \in Stations, i \in 1 .. 2, j \in Nat :
          z = <<<<s, i>>, j>> /\ 1 <= j /\ j <= Len(st[s].odep_list[i])
    BY <1>2
  <2>2. s \notin S
    BY <1>2, <1>5, <2>1
  <2>3. st2[s].odep_list[i] = st[s].odep_list[i]
    BY <2>2
  <2> QED
    BY <1>2, <2>1, <2>3
<1>6. ASSUME NEW z \in C
      PROVE  z \in A
  BY <1>2
<1>7. B = A \ C /\ A \cap C = C
  BY <1>4, <1>5, <1>6
<1>8. Cardinality(A \ C) = Cardinality(A) - Cardinality(A \cap C)
  BY <1>3, FS_Difference
<1>9. Cardinality(B) = Cardinality(A) - Cardinality(C)
  BY <1>7, <1>8
<1> QED
  BY <1>9 DEF Total, A, B, C

\* An element that is new adds one, if it is added.
LEMMA AddIf ==
  ASSUME NEW S, IsFiniteSet(S), NEW e, e \notin S, NEW b \in BOOLEAN,
         NEW T, T = IF b THEN S \cup {e} ELSE S
  PROVE  IsFiniteSet(T) /\ Cardinality(T) = Cardinality(S) + One(b) /\ Cardinality(S) \in Nat
BY FS_AddElement, FS_CardinalityType DEF One

\* The operands that station x misses.
Missing(st, x) == {k \in 1 .. 3 : ~ st[x].idep_ready[k]}

\* The missing operands, counted one by one.
LEMMA MissingCount ==
  ASSUME NEW st, NEW x, st[x].idep_ready \in [1 .. 3 -> BOOLEAN]
  PROVE  Cardinality(Missing(st, x)) =
           One(~ st[x].idep_ready[1]) + One(~ st[x].idep_ready[2]) + One(~ st[x].idep_ready[3])
<1> DEFINE p1 == ~ st[x].idep_ready[1]
           p2 == ~ st[x].idep_ready[2]
           p3 == ~ st[x].idep_ready[3]
           A == IF p1 THEN {} \cup {1} ELSE {}
           B == IF p2 THEN A \cup {2} ELSE A
           C == IF p3 THEN B \cup {3} ELSE B
<1>1. p1 \in BOOLEAN /\ p2 \in BOOLEAN /\ p3 \in BOOLEAN
  OBVIOUS
<1>2. IsFiniteSet({}) /\ Cardinality({}) = 0 /\ 1 \notin {}
  BY FS_EmptySet
<1>3. 2 \notin A /\ 3 \notin B
  OBVIOUS
<1>4. Missing(st, x) = C
  BY DEF Missing
<1> HIDE DEF p1, p2, p3
<1>5. IsFiniteSet(A) /\ Cardinality(A) = Cardinality({}) + One(p1) /\ Cardinality({}) \in Nat
  BY <1>1, <1>2, AddIf
<1>6. A = IF p1 THEN {} \cup {1} ELSE {}
  OBVIOUS
<1>7. B = IF p2 THEN A \cup {2} ELSE A
  OBVIOUS
<1>8. C = IF p3 THEN B \cup {3} ELSE B
  OBVIOUS
<1> HIDE DEF A, B, C
<1>9. IsFiniteSet(B) /\ Cardinality(B) = Cardinality(A) + One(p2) /\ Cardinality(A) \in Nat
  BY <1>1, <1>3, <1>5, <1>7, AddIf
<1>10. Cardinality(C) = Cardinality(B) + One(p3) /\ Cardinality(B) \in Nat
  BY <1>1, <1>3, <1>8, <1>9, AddIf
<1>11. One(p1) \in Nat /\ One(p2) \in Nat /\ One(p3) \in Nat
  BY DEF One
<1>12. Cardinality(C) = One(p1) + One(p2) + One(p3)
  BY <1>2, <1>5, <1>9, <1>10, <1>11
<1> QED
  BY <1>4, <1>12 DEF p1, p2, p3

\* ruu_link_idep takes a link for an operand that has a creator.
LEMMA LinkedTotal ==
  ASSUME RingsTyped, NEW st \in [Stations -> Station], NEW x \in Stations, NEW k \in 1 .. 3,
         NEW c \in CvEntry, rs[x].tag \in Nat, NEW st2, Linked(st, st2, x, k, c)
  PROVE  st2 \in [Stations -> Station] /\ Total(st2) = Total(st) + One(c # CVLINK_NULL)
<1>1. st2 \in [Stations -> Station]
  BY DEF Linked
<1>2. Total(st) \in Nat
  <2>1. Stations \in SUBSET Stations
    OBVIOUS
  <2> QED
    BY <2>1, PlacesFinite DEF Total
<1>3. CASE c = CVLINK_NULL
  <2>1. \A s \in Stations, i \in 1 .. 2 : Len(st2[s].odep_list[i]) = Len(st[s].odep_list[i])
    BY <1>3 DEF Linked
  <2>2. Total(st2) = Total(st)
    BY <1>1, <2>1, SameTotal
  <2> QED
    BY <1>1, <1>2, <1>3, <2>2 DEF One
<1>4. CASE c # CVLINK_NULL
  <2>1. c.rs \in Stations /\ c.odep \in 1 .. 2
    BY <1>4, EntryIs
  <2> DEFINE e == [rs |-> x, tag |-> rs[x].tag, opnum |-> k]
             q == st[c.rs].odep_list[c.odep]
  <2>2. e \in Links_ /\ q \in Seq(Links_)
    BY <2>1, ChainOf DEF Links_
  <2>3. st2[c.rs].odep_list[c.odep] = <<e>> \o q
    BY <1>4, <2>1 DEF Linked
  <2>4. \A s \in Stations, i \in 1 .. 2 : s # c.rs \/ i # c.odep => st2[s].odep_list[i] = st[s].odep_list[i]
    BY DEF Linked
  <2> HIDE DEF e
  <2>5. Len(<<e>> \o q) = Len(q) + 1
    <3> HIDE DEF q
    <3> QED
      BY <2>2, ConsIsOneMore DEF OneMore
  <2>6. \A s \in Stations, i \in 1 .. 2 : s # c.rs \/ i # c.odep =>
          Len(st2[s].odep_list[i]) = Len(st[s].odep_list[i])
    BY <2>4
  <2>7. Len(st2[c.rs].odep_list[c.odep]) = Len(st[c.rs].odep_list[c.odep]) + 1
    BY <2>3, <2>5
  <2>8. Total(st2) = Total(st) + 1
    BY ONLY RingsTyped, st \in [Stations -> Station], <1>1, <2>1, <2>6, <2>7, OneLonger
  <2> QED
    BY <1>1, <1>4, <2>8 DEF One
<1> QED
  BY <1>3, <1>4

\* The three calls of ruu_link_idep take a link for each operand that is missing then.
LEMMA LinkAllTotal ==
  ASSUME RingsTyped, NEW st \in [Stations -> Station], NEW x \in Stations, rs[x].tag \in Nat,
         NEW c1 \in CvEntry, NEW c2 \in CvEntry, NEW c3 \in CvEntry,
         NEW st2, st2 = LinkAll(st, x, c1, c2, c3)
  PROVE  /\ st2 \in [Stations -> Station]
         /\ Total(st2) = Total(st) + Cardinality(Missing(st2, x))
         /\ \A y \in Stations : y # x => Missing(st2, y) = Missing(st, y)
<1> DEFINE s1 == ruu_link_idep(st, x, 1, c1)
           s2 == ruu_link_idep(s1, x, 2, c2)
<1>1. Linked(st, s1, x, 1, c1)
  BY LinkIdep
<1>2. st2 = ruu_link_idep(s2, x, 3, c3)
  BY Zenon DEF LinkAll
<1> HIDE DEF s1
<1>3. s1 \in [Stations -> Station] /\ Total(s1) = Total(st) + One(c1 # CVLINK_NULL)
  <2>1. 1 \in 1 .. 3
    OBVIOUS
  <2> QED
    BY <1>1, <2>1, LinkedTotal
<1>4. Linked(s1, s2, x, 2, c2)
  BY <1>3, LinkIdep
<1> HIDE DEF s2
<1>5. s2 \in [Stations -> Station] /\ Total(s2) = Total(s1) + One(c2 # CVLINK_NULL)
  <2>1. 2 \in 1 .. 3 /\ s1 \in [Stations -> Station]
    BY <1>3
  <2> QED
    BY <1>4, <2>1, LinkedTotal
<1>6. Linked(s2, st2, x, 3, c3)
  BY <1>2, <1>5, LinkIdep
<1>7. st2 \in [Stations -> Station] /\ Total(st2) = Total(s2) + One(c3 # CVLINK_NULL)
  <2>1. 3 \in 1 .. 3 /\ s2 \in [Stations -> Station]
    BY <1>5
  <2> QED
    BY <1>6, <2>1, LinkedTotal
<1>8. /\ ~ st2[x].idep_ready[1] <=> c1 # CVLINK_NULL
      /\ ~ st2[x].idep_ready[2] <=> c2 # CVLINK_NULL
      /\ ~ st2[x].idep_ready[3] <=> c3 # CVLINK_NULL
  BY <1>1, <1>4, <1>6 DEF Linked
<1>9. /\ One(~ st2[x].idep_ready[1]) = One(c1 # CVLINK_NULL)
      /\ One(~ st2[x].idep_ready[2]) = One(c2 # CVLINK_NULL)
      /\ One(~ st2[x].idep_ready[3]) = One(c3 # CVLINK_NULL)
  BY <1>8 DEF One
<1>10. Cardinality(Missing(st2, x)) =
         One(c1 # CVLINK_NULL) + One(c2 # CVLINK_NULL) + One(c3 # CVLINK_NULL)
  <2>1. st2[x].idep_ready \in [1 .. 3 -> BOOLEAN]
    BY <1>7 DEF Station
  <2> QED
    BY <1>9, <2>1, MissingCount
<1>11. Total(st) \in Nat
  <2>1. Stations \in SUBSET Stations
    OBVIOUS
  <2> QED
    BY <2>1, PlacesFinite DEF Total
<1>12. One(c1 # CVLINK_NULL) \in Nat /\ One(c2 # CVLINK_NULL) \in Nat /\ One(c3 # CVLINK_NULL) \in Nat
  BY DEF One
<1>13. ASSUME NEW y \in Stations, y # x
       PROVE  Missing(st2, y) = Missing(st, y)
  <2>1. \A m \in 1 .. 3 : st2[y].idep_ready[m] = st[y].idep_ready[m]
    BY <1>1, <1>4, <1>6, <1>13 DEF Linked
  <2> QED
    BY <2>1 DEF Missing
<1>14. Total(st2) = Total(st) + Cardinality(Missing(st2, x))
  BY <1>3, <1>5, <1>7, <1>10, <1>11, <1>12
<1> QED
  BY <1>7, <1>13, <1>14

-----------------------------------------------------------------------------
\* Links that move.

\* Every link is free, in a queue or on a chain.
AllHeld ==
  free_links + Len(event_queue) + Len(ready_queue) + Len(node) + Total(rs) = MAX_RS_LINKS

\* The links of the model are those places, and none is lost if all are held somewhere.
LEMMA LinksAre ==
  /\ \A S : Links(S) = Cardinality(LinkPlaces(rs, S))
  /\ NoLinkLost <=> AllHeld
<1>1. \A S : ChainPlaces(S) = LinkPlaces(rs, S)
  BY DEF ChainPlaces, LinkPlaces, PlacesAt
<1>2. \A S : Links(S) = Cardinality(LinkPlaces(rs, S))
  BY <1>1 DEF Links
<1>3. NoLinkLost <=> free_links + Len(event_queue) + Len(ready_queue) + Len(node) + Total(rs) = MAX_RS_LINKS
  <2>1. Links(Stations) = Total(rs)
    BY <1>2 DEF Total
  <2> QED
    BY ONLY <2>1, Zenon DEF NoLinkLost
<1> QED
  BY <1>2, <1>3 DEF AllHeld

\* The lengths are numbers.
LEMMA HeldTyped ==
  ASSUME Types
  PROVE  /\ Len(event_queue) \in Nat /\ Len(ready_queue) \in Nat /\ Len(node) \in Nat
         /\ Total(rs) \in Nat /\ free_links \in Int /\ RingsTyped /\ rs \in [Stations -> Station]
<1>1. Stations \in SUBSET Stations
  OBVIOUS
<1>2. Len(event_queue) \in Nat /\ Len(ready_queue) \in Nat /\ Len(node) \in Nat
  <2>1. /\ event_queue \in Seq(EventLinks) /\ ready_queue \in Seq(ReadyLinks) /\ node \in Seq(ReadyLinks)
    BY TypesGive
  <2> QED
    BY ONLY <2>1, LenProperties
<1> QED
  BY <1>1, <1>2, TypesGive, PlacesFinite DEF Total

\* A step loses no link if what it takes from the free list is what its queues and chains gain.
Moves(d, e, r, m) ==
  /\ free_links' = free_links - (d + e + r + m)
  /\ Total(rs') = Total(rs) + d /\ Len(event_queue') = Len(event_queue) + e
  /\ Len(ready_queue') = Len(ready_queue) + r /\ Len(node') = Len(node) + m

\* Links that only move are not lost.
LEMMA MovedLinks ==
  ASSUME Types, NoLinkLost, RsTyped, NEW d \in Int, NEW e \in Int, NEW r \in Int, NEW m \in Int,
         Moves(d, e, r, m)
  PROVE  NoLinkLost'
<1>1. (NoLinkLost <=> AllHeld)'
  BY LinksAre, PTL
<1>2. Total(rs)' = Total(rs')
  BY DEF Total, LinkPlaces, PlacesAt, RsTyped
<1>3. free_links + Len(event_queue) + Len(ready_queue) + Len(node) + Total(rs) = MAX_RS_LINKS
  BY LinksAre DEF AllHeld
<1>4. /\ Len(event_queue) \in Int /\ Len(ready_queue) \in Int /\ Len(node) \in Int
      /\ Total(rs) \in Int /\ free_links \in Int
  BY HeldTyped
<1>5. /\ free_links' = free_links - (d + e + r + m)
      /\ Total(rs') = Total(rs) + d /\ Len(event_queue') = Len(event_queue) + e
      /\ Len(ready_queue') = Len(ready_queue) + r /\ Len(node') = Len(node) + m
  BY DEF Moves
<1>6. free_links' + Len(event_queue') + Len(ready_queue') + Len(node') + Total(rs') = MAX_RS_LINKS
  BY ONLY <1>3, <1>4, <1>5, d \in Int, e \in Int, r \in Int, m \in Int
<1> QED
  BY <1>1, <1>2, <1>6 DEF AllHeld

\* A step that leaves the chains alone.
LEMMA ChainsStay ==
  ASSUME Types, RsTyped, ChainsKept
  PROVE  Total(rs') = Total(rs)
<1>1. rs \in [Stations -> Station] /\ rs' \in [Stations -> Station]
  BY TypesGive DEF RsTyped
<1>2. \A s \in Stations, i \in 1 .. 2 : Len(rs'[s].odep_list[i]) = Len(rs[s].odep_list[i])
  BY DEF ChainsKept, SameChains
<1> QED
  BY <1>1, <1>2, SameTotal

\* Nor are those that stay where they are.
LEMMA QuietLinks ==
  ASSUME Types, NoLinkLost, RsTyped, ChainsKept, UNCHANGED queueVars
  PROVE  NoLinkLost'
<1>1. UNCHANGED <<event_queue, ready_queue, node, free_links>>
  BY DEF queueVars
<1>2. Moves(0, 0, 0, 0)
  BY <1>1, ChainsStay, HeldTyped DEF Moves
<1>3. 0 \in Int
  OBVIOUS
<1> QED
  BY <1>2, <1>3, MovedLinks

\* Stations that do not change keep their chains.
LEMMA SameStations ==
  ASSUME Types, rs' = rs, config' = config
  PROVE  RsTyped /\ ChainsKept
BY RsKept, TypesGive

\* Taking the first link off a list.
LEMMA TailLength ==
  ASSUME NEW S, NEW q \in Seq(S), q # <<>>
  PROVE  Len(Tail(q)) = Len(q) + -1
<1>1. Len(q) \in Nat \ {0} /\ Len(Tail(q)) = Len(q) - 1
  BY SeqParts
<1> QED
  BY <1>1

\* readyq_enqueue adds one link.
LEMMA EnqueuedLength ==
  ASSUME Types, NEW s \in Stations, NEW b, b.tag \in Nat, b.seq \in Nat, NEW q \in Seq(ReadyLinks)
  PROVE  Len(readyq_enqueue(q, s, b)) = Len(q) + 1 /\ readyq_enqueue(q, s, b) \in Seq(ReadyLinks)
<1>1. PICK e \in ReadyLinks : OneMore(ReadyLinks, q, readyq_enqueue(q, s, b), e)
  BY ReadyEnqueued
<1> QED
  BY <1>1 DEF OneMore

\* The link of a squashed event goes back to the free list.
LEMMA StaleEventLinks == ASSUME Types, NoLinkLost, StaleEvent PROVE NoLinkLost'
<1>1. /\ rs' = rs /\ config' = config /\ event_queue # <<>> /\ event_queue' = Tail(event_queue)
      /\ free_links' = free_links + 1 /\ ready_queue' = ready_queue /\ node' = node
  BY DEF StaleEvent, EventDue
<1>2. Len(event_queue') = Len(event_queue) + -1
  BY <1>1, TypesGive, TailLength
<1>3. RsTyped /\ ChainsKept
  BY <1>1, SameStations
<1>4. Moves(0, -1, 0, 0)
  BY <1>1, <1>2, <1>3, ChainsStay, HeldTyped DEF Moves
<1>5. 0 \in Int /\ -1 \in Int
  OBVIOUS
<1> QED
  BY <1>3, <1>4, <1>5, MovedLinks

\* So does that of a squashed candidate.
LEMMA StaleNodeLinks == ASSUME Types, NoLinkLost, StaleNode PROVE NoLinkLost'
<1>1. /\ rs' = rs /\ config' = config /\ node # <<>> /\ node' = Tail(node)
      /\ free_links' = free_links + 1 /\ ready_queue' = ready_queue /\ event_queue' = event_queue
  BY DEF StaleNode, issueRest
<1>2. Len(node') = Len(node) + -1
  BY <1>1, TypesGive, TailLength
<1>3. RsTyped /\ ChainsKept
  BY <1>1, SameStations
<1>4. Moves(0, 0, 0, -1)
  BY <1>1, <1>2, <1>3, ChainsStay, HeldTyped DEF Moves
<1>5. 0 \in Int /\ -1 \in Int
  OBVIOUS
<1> QED
  BY <1>3, <1>4, <1>5, MovedLinks

\* Time passes: the event queue keeps its links.
LEMMA NextCycleLinks == ASSUME Types, NoLinkLost, NextCycle PROVE NoLinkLost'
<1>1. /\ rs' = rs /\ config' = config /\ UNCHANGED <<ready_queue, node, free_links>>
      /\ event_queue' = [i \in DOMAIN event_queue |-> [event_queue[i] EXCEPT !.when = @ - 1]]
  BY DEF NextCycle
<1>2. Len(event_queue') = Len(event_queue)
  <2>1. event_queue \in Seq(EventLinks)
    BY TypesGive
  <2>2. DOMAIN event_queue = 1 .. Len(event_queue) /\ Len(event_queue) \in Nat
    BY <2>1, LenProperties
  <2>3. DOMAIN event_queue' = 1 .. Len(event_queue)
    BY <1>1, <2>2
  <2> QED
    BY <1>1, <2>2, <2>3
<1>3. RsTyped /\ ChainsKept
  BY <1>1, SameStations
<1>4. Moves(0, 0, 0, 0)
  BY <1>1, <1>2, <1>3, ChainsStay, HeldTyped DEF Moves
<1>5. 0 \in Int
  OBVIOUS
<1> QED
  BY <1>3, <1>4, <1>5, MovedLinks

\* ruu_writeback frees the link of the event.
LEMMA WritebackLinks == ASSUME Types, NoLinkLost, NEW b \in Stations, Writeback(b) PROVE NoLinkLost'
<1>1. /\ event_queue # <<>> /\ event_queue' = Tail(event_queue)
      /\ free_links' = free_links + 1 /\ ready_queue' = ready_queue /\ node' = node
  BY DEF Writeback, Completes, EventDue
<1>2. Len(event_queue') = Len(event_queue) + -1
  BY <1>1, TypesGive, TailLength
<1>3. RsTyped /\ ChainsKept
  BY WritebackEffect, TypesGive
<1>4. Moves(0, -1, 0, 0)
  BY <1>1, <1>2, <1>3, ChainsStay, HeldTyped DEF Moves
<1>5. 0 \in Int /\ -1 \in Int
  OBVIOUS
<1> QED
  BY <1>3, <1>4, <1>5, MovedLinks

\* ruu_commit moves no link: what it retires has no consumers left.
LEMMA CommitLinks == ASSUME Types, NoLinkLost, Commit PROVE NoLinkLost'
<1>1. UNCHANGED queueVars
  BY DEF Commit
<1>2. RsTyped /\ ChainsKept
  BY CommitEffect, TypesGive
<1> QED
  BY <1>1, <1>2, QuietLinks

-----------------------------------------------------------------------------
\* Recovering, refreshing and issuing lose no link.

\* A recovery frees what is on the chains of the stations that it squashes.
LEMMA RecoverLinks == ASSUME Types, NoLinkLost, NEW b \in Stations, Recover(b) PROVE NoLinkLost'
<1> DEFINE c == Cardinality(LinkPlaces(rs, Squashed(b)))
<1>1. /\ event_queue # <<>> /\ event_queue' = Tail(event_queue)
      /\ ready_queue' = ready_queue /\ node' = node /\ free_links' = free_links + 1 + Freed(b)
  BY DEF Recover, Completes, EventDue
<1>2. Len(event_queue') = Len(event_queue) + -1
  BY <1>1, TypesGive, TailLength
<1>3. /\ RsTyped
      /\ \A s \in Stations, i \in 1 .. 2 :
           rs'[s].odep_list[i] = IF s \in Squashed(b) THEN <<>> ELSE rs[s].odep_list[i]
  BY RecoverEffect, TypesGive
<1>4. Squashed(b) \in SUBSET Stations
  BY DEF Squashed, SquashedRuu, SquashedLsq
<1>5. RingsTyped /\ rs \in [Stations -> Station] /\ rs' \in [Stations -> Station]
  BY <1>3, TypesGive DEF RsTyped
<1>6. Total(rs') = Total(rs) - c
  BY <1>3, <1>4, <1>5, TotalCut
<1>7. c \in Nat
  BY <1>4, <1>5, PlacesFinite
<1>8. Freed(b) = c
  BY LinksAre DEF Freed
<1> HIDE DEF c
<1>9. /\ Len(event_queue) \in Nat /\ Len(ready_queue) \in Nat /\ Len(node) \in Nat
      /\ Total(rs) \in Nat /\ free_links \in Int
  BY HeldTyped
<1>10. free_links' = free_links - (-c + -1 + 0 + 0) /\ Total(rs') = Total(rs) + -c
  BY ONLY <1>1, <1>6, <1>7, <1>8, <1>9
<1>11. Moves(-c, -1, 0, 0)
  BY <1>1, <1>2, <1>9, <1>10 DEF Moves
<1>12. 0 \in Int /\ -1 \in Int /\ -c \in Int
  BY <1>7
<1> QED
  BY <1>3, <1>11, <1>12, MovedLinks

\* lsq_refresh allocates one link for every load that is ready.
LEMMA RefreshLinks == ASSUME Types, NoLinkLost, Refresh, node = <<>> PROVE NoLinkLost'
<1> DEFINE c == Cardinality(ReadyLoads)
<1>1. PICK L \in Seq(ReadyLinks) : node' = L \o ready_queue /\ ready_queue' = <<>> /\ Len(L) = c
  BY TypesGive, RefreshQueues
<1>2. event_queue' = event_queue /\ free_links' = free_links - c
  BY DEF Refresh, ReadyLoads
<1>3. RsTyped /\ ChainsKept
  BY RefreshEffect, TypesGive
<1>4. ready_queue \in Seq(ReadyLinks) /\ Len(ready_queue) \in Nat
  BY TypesGive, HeldTyped
<1>5. Len(node') = c + Len(ready_queue) /\ Len(ready_queue') = 0 /\ c \in Nat /\ Len(node) = 0
  <2>1. Len(L) \in Nat /\ Len(L \o ready_queue) = Len(L) + Len(ready_queue)
    BY ONLY <1>4, L \in Seq(ReadyLinks)
  <2>2. Len(ready_queue') = 0 /\ Len(node) = 0
    BY <1>1
  <2> QED
    BY ONLY <1>1, <2>1, <2>2
<1> HIDE DEF c
<1>6. /\ Len(event_queue) \in Nat /\ Len(ready_queue) \in Nat /\ Len(node) \in Nat
      /\ Total(rs) \in Nat /\ free_links \in Int
  BY HeldTyped
<1> DEFINE r == -Len(ready_queue)
           m == c + Len(ready_queue)
<1>7. /\ free_links' = free_links - (0 + 0 + r + m)
      /\ Len(ready_queue') = Len(ready_queue) + r /\ Len(node') = Len(node) + m
  BY ONLY <1>2, <1>5, <1>6
<1>8. Total(rs') = Total(rs) + 0 /\ Len(event_queue') = Len(event_queue) + 0
  BY <1>2, <1>3, <1>6, ChainsStay
<1>9. 0 \in Int /\ r \in Int /\ m \in Int
  BY <1>5, <1>6
<1> HIDE DEF r, m
<1>10. Moves(0, 0, r, m)
  BY <1>7, <1>8 DEF Moves
<1> QED
  BY <1>3, <1>9, <1>10, MovedLinks

\* A requeued instruction keeps its link.
LEMMA RequeueLinks == ASSUME Types, NoLinkLost, Requeue PROVE NoLinkLost'
<1>1. /\ node # <<>> /\ node' = Tail(node) /\ free_links' = free_links
      /\ ready_queue' = readyq_enqueue(ready_queue, Candidate, rs[Candidate])
      /\ rs' = rs /\ config' = config /\ event_queue' = event_queue
  BY DEF Requeue, issueRest
<1>2. Len(node') = Len(node) + -1
  BY <1>1, TypesGive, TailLength
<1>3. Candidate \in Stations /\ rs[Candidate].tag \in Nat /\ rs[Candidate].seq \in Nat
  BY <1>1, TypesGive, HeadOfNode
<1>4. Len(ready_queue') = Len(ready_queue) + 1
  BY <1>1, <1>3, TypesGive, EnqueuedLength
<1>5. RsTyped /\ ChainsKept
  BY <1>1, SameStations
<1>6. Moves(0, 0, 1, -1)
  BY <1>1, <1>2, <1>4, <1>5, ChainsStay, HeldTyped DEF Moves
<1>7. 0 \in Int /\ -1 \in Int /\ 1 \in Int
  OBVIOUS
<1> QED
  BY <1>5, <1>6, <1>7, MovedLinks

\* An issued store frees its link, any other instruction takes it to the event queue.
LEMMA IssueLinks == ASSUME Types, NoLinkLost, NEW done \in BOOLEAN, IssueStep(done) PROVE NoLinkLost'
<1>1. /\ node # <<>> /\ node' = Tail(node) /\ ready_queue' = ready_queue /\ config' = config
  BY DEF IssueStep, WindowKept
<1>2. Len(node') = Len(node) + -1
  BY <1>1, TypesGive, TailLength
<1>3. Candidate \in Stations /\ rs[Candidate].tag \in Nat
  BY <1>1, TypesGive, HeadOfNode
<1>4. RsTyped /\ ChainsKept
  BY <1>1, <1>3, TypesGive, IssueEffect DEF IssueStep
<1>5. 0 \in Int /\ -1 \in Int /\ 1 \in Int
  OBVIOUS
<1>6. CASE done
  <2>1. event_queue' = event_queue /\ free_links' = free_links + 1
    BY <1>6 DEF IssueStep
  <2>2. Moves(0, 0, 0, -1)
    BY <2>1, <1>1, <1>2, <1>4, ChainsStay, HeldTyped DEF Moves
  <2> QED
    BY <2>2, <1>4, <1>5, MovedLinks
<1>7. CASE ~ done
  <2>1. free_links' = free_links
    BY <1>7 DEF IssueStep
  <2>2. PICK lat \in Int : event_queue' = eventq_queue_event(Candidate, lat)
    BY <1>7 DEF IssueStep
  <2>3. Len(event_queue') = Len(event_queue) + 1
    BY <1>3, <2>2, TypesGive, EventQueued DEF OneMore
  <2>4. Moves(0, 1, 0, -1)
    BY <2>1, <2>3, <1>1, <1>2, <1>4, ChainsStay, HeldTyped DEF Moves
  <2> QED
    BY <2>4, <1>4, <1>5, MovedLinks
<1> QED
  BY <1>6, <1>7

\* A broadcast frees the link that it takes off a chain, or queues the instruction with it.
LEMMA WakeLinks ==
  ASSUME Types, Lists, NoLinkLost, Wake, wb \in InFlight, rs[wb].completed
  PROVE  NoLinkLost'
<1>0. TypeOK /\ wb \in Stations
  BY WakeConsumer, TypesGive
<1>1. /\ WakeIndex \in 1 .. 2 /\ rs[wb].odep_list[WakeIndex] # <<>> /\ WakeLink.rs \in Stations
  BY <1>0, WakeTyped
<1>2. RSLINK_VALID(WakeLink) => WakeLink.rs # wb
  BY <1>0, WakeConsumer
<1>3. /\ RsTyped
      /\ \A s \in Stations, i \in 1 .. 2 :
           rs'[s].odep_list[i] = IF s = wb /\ i = WakeIndex THEN Tail(rs[s].odep_list[i])
                                 ELSE rs[s].odep_list[i]
  BY <1>0, <1>2, WakeEffect
<1>4. RingsTyped /\ rs \in [Stations -> Station] /\ rs' \in [Stations -> Station]
  BY <1>3, TypesGive DEF RsTyped
<1>5. Len(rs[wb].odep_list[WakeIndex]) = Len(rs'[wb].odep_list[WakeIndex]) + 1
  <2>1. rs[wb].odep_list[WakeIndex] \in Seq(Links_)
    BY <1>0, <1>1, <1>4, ChainOf
  <2>2. /\ Len(Tail(rs[wb].odep_list[WakeIndex])) = Len(rs[wb].odep_list[WakeIndex]) - 1
        /\ Len(rs[wb].odep_list[WakeIndex]) \in Nat
    BY <2>1, <1>1, SeqParts
  <2>3. rs'[wb].odep_list[WakeIndex] = Tail(rs[wb].odep_list[WakeIndex])
    BY <1>0, <1>1, <1>3
  <2> QED
    BY ONLY <2>2, <2>3
<1>6. Total(rs) = Total(rs') + 1
  <2>1. \A s \in Stations, i \in 1 .. 2 : s # wb \/ i # WakeIndex =>
          Len(rs[s].odep_list[i]) = Len(rs'[s].odep_list[i])
    BY <1>3
  <2> QED
    BY <1>0, <1>1, <1>4, <1>5, <2>1, OneLonger
<1>7. event_queue' = event_queue /\ node' = node
  BY DEF Wake
<1>8. /\ ready_queue' = IF WakeQueues THEN readyq_enqueue(ready_queue, WakeLink.rs, rs[WakeLink.rs])
                        ELSE ready_queue
      /\ free_links' = IF WakeQueues THEN free_links ELSE free_links + 1
  BY <1>0, WakeQueue
<1>9. Total(rs') = Total(rs) + -1
  <2>1. Total(rs') \in Nat
    <3>1. Stations \in SUBSET Stations
      OBVIOUS
    <3> QED
      BY <3>1, <1>4, PlacesFinite DEF Total
  <2> QED
    BY <1>6, <2>1
<1>10. 0 \in Int /\ -1 \in Int /\ 1 \in Int
  OBVIOUS
<1>11. CASE WakeQueues
  <2>1. Len(ready_queue') = Len(ready_queue) + 1
    BY <1>1, <1>8, <1>11, TypesGive, EnqueuedLength
  <2>2. Moves(-1, 0, 1, 0)
    BY <2>1, <1>7, <1>8, <1>9, <1>11, HeldTyped DEF Moves
  <2> QED
    BY <2>2, <1>3, <1>10, MovedLinks
<1>12. CASE ~ WakeQueues
  <2>1. Moves(-1, 0, 0, 0)
    BY <1>7, <1>8, <1>9, <1>12, HeldTyped DEF Moves
  <2> QED
    BY <2>1, <1>3, <1>10, MovedLinks
<1> QED
  BY <1>11, <1>12

-----------------------------------------------------------------------------
\* Dispatching loses no link.

\* Filling in an entry without consumers leaves the chains as long as they were.
LEMMA FilledTotal ==
  ASSUME NEW st \in [Stations -> Station], NEW x \in Stations, NEW a \in Station,
         \A i \in 1 .. 2 : st[x].odep_list[i] = <<>>,
         \A i \in 1 .. 2 : a.odep_list[i] \in {st[x].odep_list[i], <<>>},
         NEW st2, st2 = Replaced(st, x, a)
  PROVE  /\ st2 \in [Stations -> Station] /\ Total(st2) = Total(st)
         /\ st2[x] = a /\ \A s \in Stations : s # x => st2[s] = st[s]
<1>1. st2 \in [Stations -> Station] /\ st2[x] = a /\ \A s \in Stations : s # x => st2[s] = st[s]
  BY DEF Replaced
<1>2. \A i \in 1 .. 2 : a.odep_list[i] = st[x].odep_list[i]
  OBVIOUS
<1>3. \A s \in Stations, i \in 1 .. 2 : st2[s].odep_list[i] = st[s].odep_list[i]
  BY <1>1, <1>2
<1>4. \A s \in Stations, i \in 1 .. 2 : Len(st2[s].odep_list[i]) = Len(st[s].odep_list[i])
  BY <1>3
<1> QED
  BY <1>1, <1>4, SameTotal

\* Setting a flag does, too.
LEMMA MarkedTotal ==
  ASSUME NEW st \in [Stations -> Station], NEW x \in Stations, NEW v \in BOOLEAN,
         NEW st2, st2 = Marked(st, x, v)
  PROVE  st2 \in [Stations -> Station] /\ Total(st2) = Total(st)
<1>1. st2 \in [Stations -> Station] /\ \A s \in Stations : SameChains(st2[s], st[s])
  BY MarkQueued
<1>2. \A s \in Stations, i \in 1 .. 2 : Len(st2[s].odep_list[i]) = Len(st[s].odep_list[i])
  BY <1>1 DEF SameChains
<1> QED
  BY <1>1, <1>2, SameTotal

\* What is counted.
LEMMA MissingNumber ==
  ASSUME NEW st, NEW x
  PROVE  Cardinality(Missing(st, x)) \in Nat /\ (Missing(st, x) = {} <=> Cardinality(Missing(st, x)) = 0)
<1>1. IsFiniteSet(Missing(st, x))
  <2>1. Missing(st, x) \subseteq 1 .. 3
    BY DEF Missing
  <2>2. 1 \in Int /\ 3 \in Int
    OBVIOUS
  <2>3. IsFiniteSet(1 .. 3)
    BY ONLY <2>2, FS_Interval
  <2> QED
    BY <2>1, <2>3, FS_Subset
<1> QED
  BY <1>1, FS_CardinalityType, FS_EmptySet

\* The tails of the rings have no consumers yet.
LEMMA TailsEmpty ==
  ASSUME Deep, stage = "dispatch", RUU_num < RUU_size, LSQ_num < LSQ_size
  PROVE  /\ RuuTail \in Stations /\ LsqTail \in Stations /\ RuuTail # LsqTail
         /\ \A i \in 1 .. 2 : rs[RuuTail].odep_list[i] = <<>> /\ rs[LsqTail].odep_list[i] = <<>>
<1>1. Good /\ ChainsEnd /\ RingsTyped /\ Rings
  BY GoodTypes DEF Deep, Good
<1>2. \A s \in Stations : s # wb
  BY <1>1, StageWb
<1>3. /\ RuuTail \in Stations /\ LsqTail \in Stations /\ RuuTail # LsqTail
      /\ RuuTail \notin InFlight /\ LsqTail \notin InFlight
  BY <1>1, TailsAre
<1>4. ~ InWindow(RuuTail) /\ ~ InWindow(LsqTail)
  BY <1>3 DEF InFlight
<1> QED
  BY <1>1, <1>2, <1>3, <1>4 DEF ChainsEnd

\* An instruction that has its operands takes a link of the ready list,
\* another one a link for every operand that is missing.
LEMMA OpLinks ==
  ASSUME Deep, NoLinkLost, NEW pc, NEW npc, OpStep(pc, npc), pc = Head(fetch_data).regs_PC,
         stage = "dispatch", RUU_num < RUU_size, LSQ_num < LSQ_size, fetch_data # <<>>, RsTyped,
         event_queue' = event_queue, node' = node
  PROVE  NoLinkLost'
<1> DEFINE x == RuuTail
           i == InstAt(pc)
           a == OpStation(pc, npc)
           st1 == OpFilled(pc, npc)
           st2 == OpLinked(pc, npc)
           c1 == CreatorOf(i.in[1])
           c2 == CreatorOf(i.in[2])
           c3 == CreatorOf(i.in[3])
           w == Cardinality(Missing(st2, x))
           ready == Missing(st2, x) = {}
<1>0. Good /\ Types /\ TypeOK /\ CvTypes /\ RingsTyped /\ Rings
  BY GoodTypes DEF Deep, Good
<1>1. /\ x \in Stations /\ \A k \in 1 .. 2 : rs[x].odep_list[k] = <<>>
  BY TailsEmpty
<1>2. IsFilled(a, x, i.op, pc, FALSE, Mispredicted(npc), 0, inst_seq + 1, i.out)
  BY <1>0, <1>1, OpStationIs
<1>3. /\ a \in Station /\ a.seq = inst_seq + 1 /\ a.tag = rs[x].tag
      /\ \A k \in 1 .. 2 : a.odep_list[k] \in {rs[x].odep_list[k], <<>>}
  BY <1>2 DEF IsFilled
<1>4. c1 \in CvEntry /\ c2 \in CvEntry /\ c3 \in CvEntry
  BY <1>0, TextTyped, CreatorTyped
<1>5. /\ st1 = Replaced(rs, x, a) /\ st2 = LinkAll(st1, x, c1, c2, c3)
  BY DEF OpFilled, OpLinked, Replaced
<1>6. /\ rs' = Marked(st2, x, ready)
      /\ ready_queue' = IF ready THEN readyq_enqueue(ready_queue, x, st1[x]) ELSE ready_queue
      /\ free_links' = free_links - IF ready THEN 1 ELSE w
  BY DEF OpStep, OpMissing, Missing, Marked
<1>7. rs \in [Stations -> Station] /\ rs[x].tag \in Nat /\ inst_seq \in Nat
  BY <1>0, <1>1, TypesGive DEF TypeOK
<1>8. ready \in BOOLEAN
  OBVIOUS
<1>9. w \in Nat /\ (ready <=> w = 0)
  BY MissingNumber
<1> HIDE DEF x, i, a, st1, st2, c1, c2, c3, w, ready
<1>10. st1 \in [Stations -> Station] /\ Total(st1) = Total(rs) /\ st1[x] = a
  BY <1>1, <1>3, <1>5, <1>7, FilledTotal
<1>11. st2 \in [Stations -> Station] /\ Total(st2) = Total(st1) + w
  BY <1>0, <1>1, <1>4, <1>5, <1>7, <1>10, LinkAllTotal DEF w
<1>12. Total(rs') = Total(rs) + w
  <2>1. Total(rs') = Total(st2)
    BY <1>1, <1>6, <1>8, <1>11, MarkedTotal
  <2> QED
    BY <1>10, <1>11, <2>1
<1>13. ready => Len(ready_queue') = Len(ready_queue) + 1
  <2>1. ready_queue \in Seq(ReadyLinks) /\ st1[x].tag \in Nat /\ st1[x].seq \in Nat
    BY <1>0, <1>3, <1>7, <1>10, TypesGive
  <2>2. Len(readyq_enqueue(ready_queue, x, st1[x])) = Len(ready_queue) + 1
    BY <1>0, <1>1, <2>1, EnqueuedLength
  <2> QED
    BY <1>6, <2>2
<1>14. 0 \in Int /\ 1 \in Int /\ w \in Int
  BY <1>9
<1>15. CASE ready
  <2>1. Moves(0, 0, 1, 0)
    BY <1>0, <1>6, <1>9, <1>12, <1>13, <1>15, HeldTyped DEF Moves
  <2> QED
    BY <2>1, <1>0, <1>14, MovedLinks
<1>16. CASE ~ ready
  <2>1. Moves(w, 0, 0, 0)
    BY <1>0, <1>6, <1>9, <1>12, <1>16, HeldTyped DEF Moves
  <2> QED
    BY <2>1, <1>0, <1>14, MovedLinks
<1> QED
  BY <1>15, <1>16

\* A load or a store does the same twice, a load that has its operands waits for lsq_refresh.
LEMMA MemLinks ==
  ASSUME Deep, NoLinkLost, NEW pc, NEW npc, NEW addr \in Addrs, MemStep(pc, npc, addr),
         pc = Head(fetch_data).regs_PC,
         stage = "dispatch", RUU_num < RUU_size, LSQ_num < LSQ_size, fetch_data # <<>>, RsTyped,
         event_queue' = event_queue, node' = node
  PROVE  NoLinkLost'
<1> DEFINE x == RuuTail
           y == LsqTail
           i == InstAt(pc)
           a == AgenStation(pc, npc)
           b == AccessStation(pc, addr)
           st0 == Replaced(rs, RuuTail, AgenStation(pc, npc))
           st1 == MemFilled(pc, npc, addr)
           st2 == MemAgen(pc, npc, addr)
           st3 == MemLinked(pc, npc, addr)
           first == AgenQueued(pc, npc, addr)
           second == StoreQueued(pc, npc, addr)
           st4 == Marked(MemLinked(pc, npc, addr), RuuTail, AgenQueued(pc, npc, addr))
           q1 == AgenQueue(pc, npc, addr)
           c == [rs |-> RuuTail, odep |-> 1]
           c1 == CreatorOf(i.in[1])
           c2 == CreatorOf(i.in[2])
           c3 == CreatorOf(i.in[3])
           w == MemWaits(pc, npc, addr, RuuTail)
           v == MemWaits(pc, npc, addr, LsqTail)
<1>0. Good /\ Types /\ TypeOK /\ CvTypes /\ RingsTyped /\ Rings
  BY GoodTypes DEF Deep, Good
<1>1. /\ x \in Stations /\ y \in Stations /\ x # y
      /\ \A k \in 1 .. 2 : rs[x].odep_list[k] = <<>> /\ rs[y].odep_list[k] = <<>>
  BY TailsEmpty
<1>2. /\ IsFilled(a, x, MD_AGEN_OP, pc, TRUE, Mispredicted(npc), 0, inst_seq + 1, <<DTMP, NA>>)
      /\ IsFilled(b, y, i.op, pc, FALSE, FALSE, addr, inst_seq + 2, i.out)
  BY <1>0, <1>1, MemStationsAre
<1>3. /\ a \in Station /\ a.seq = inst_seq + 1 /\ a.tag = rs[x].tag
      /\ \A k \in 1 .. 2 : a.odep_list[k] \in {rs[x].odep_list[k], <<>>}
  BY <1>2 DEF IsFilled
<1>4. /\ b \in Station /\ b.seq = inst_seq + 2 /\ b.tag = rs[y].tag
      /\ \A k \in 1 .. 2 : b.odep_list[k] \in {rs[y].odep_list[k], <<>>}
  BY <1>2 DEF IsFilled
<1>5. c1 \in CvEntry /\ c2 \in CvEntry /\ c3 \in CvEntry /\ CVLINK_NULL \in CvEntry /\ c \in CvEntry
  <2>1. c1 \in CvEntry /\ c2 \in CvEntry /\ c3 \in CvEntry
    BY <1>0, TextTyped, CreatorTyped
  <2>2. 1 \in 1 .. 2
    OBVIOUS
  <2>3. CVLINK_NULL \in CvEntry /\ c \in CvEntry
    BY <1>1, <2>2, Zenon DEF CvEntry
  <2> QED
    BY <2>1, <2>3
<1>6. /\ st0 = Replaced(rs, x, a) /\ st1 = Replaced(st0, y, b)
      /\ st2 = LinkAll(st1, x, CVLINK_NULL, c2, c3) /\ st3 = LinkAll(st2, y, c1, c, CVLINK_NULL)
      /\ st4 = Marked(st3, x, first)
  BY DEF MemFilled, Replaced, MemAgen, MemLinked
<1>7. /\ rs' = Marked(st4, y, second)
      /\ q1 = IF first THEN readyq_enqueue(ready_queue, x, st1[x]) ELSE ready_queue
      /\ ready_queue' = IF second THEN readyq_enqueue(q1, y, st1[y]) ELSE q1
      /\ free_links' = free_links - w - v - (IF first THEN 1 ELSE 0) - (IF second THEN 1 ELSE 0)
  BY DEF MemStep, Marked, AgenQueue
<1>8. rs \in [Stations -> Station] /\ rs[x].tag \in Nat /\ rs[y].tag \in Nat /\ inst_seq \in Nat
  BY <1>0, <1>1, TypesGive DEF TypeOK
<1>9. first \in BOOLEAN /\ second \in BOOLEAN
  BY Zenon DEF AgenQueued, StoreQueued
<1>10. w = Cardinality(Missing(st3, x)) /\ v = Cardinality(Missing(st3, y))
  BY Zenon DEF MemWaits, MemMissing, Missing
<1> HIDE DEF x, y, i, a, b, st0, st1, st2, st3, first, second, st4, q1, c, c1, c2, c3, w, v
<1>11. /\ st0 \in [Stations -> Station] /\ Total(st0) = Total(rs) /\ st0[x] = a /\ st0[y] = rs[y]
  BY <1>1, <1>3, <1>6, <1>8, FilledTotal
<1>12. /\ st1 \in [Stations -> Station] /\ Total(st1) = Total(st0) /\ st1[x] = a /\ st1[y] = b
  BY <1>1, <1>4, <1>6, <1>11, FilledTotal
<1>13. /\ st2 \in [Stations -> Station] /\ Total(st2) = Total(st1) + Cardinality(Missing(st2, x))
  BY <1>0, <1>1, <1>5, <1>6, <1>8, <1>12, LinkAllTotal
<1>14. /\ st3 \in [Stations -> Station] /\ Total(st3) = Total(st2) + v /\ Missing(st3, x) = Missing(st2, x)
  BY <1>0, <1>1, <1>5, <1>6, <1>8, <1>10, <1>13, LinkAllTotal
<1>15. w \in Nat /\ v \in Nat
  BY <1>10, MissingNumber
<1>16. st4 \in [Stations -> Station] /\ Total(st4) = Total(st3)
  BY <1>1, <1>6, <1>9, <1>14, MarkedTotal
<1>17. Total(rs') = Total(st4)
  BY <1>1, <1>7, <1>9, <1>16, MarkedTotal
<1>18. /\ Len(event_queue) \in Nat /\ Len(ready_queue) \in Nat /\ Len(node) \in Nat
       /\ Total(rs) \in Nat /\ free_links \in Int
  BY <1>0, HeldTyped
<1> DEFINE d == w + v
           f == IF first THEN 1 ELSE 0
           g == IF second THEN 1 ELSE 0
           r == f + g
<1>19. Total(rs') = Total(rs) + d
  <2>1. Total(st2) = Total(rs) + w
    BY <1>10, <1>11, <1>12, <1>13, <1>14
  <2> QED
    BY ONLY <1>14, <1>15, <1>16, <1>17, <1>18, <2>1
<1>20. q1 \in Seq(ReadyLinks) /\ Len(q1) = Len(ready_queue) + f
  <2>1. ready_queue \in Seq(ReadyLinks) /\ st1[x].tag \in Nat /\ st1[x].seq \in Nat
    BY <1>0, <1>3, <1>8, <1>12, TypesGive
  <2>2. CASE first
    BY <1>0, <1>1, <1>7, <2>1, <2>2, EnqueuedLength
  <2>3. CASE ~ first
    BY <1>7, <1>18, <2>1, <2>3
  <2> QED
    BY <2>2, <2>3
<1>21. Len(ready_queue') = Len(q1) + g
  <2>1. st1[y].tag \in Nat /\ st1[y].seq \in Nat
    BY <1>4, <1>8, <1>12
  <2>2. CASE second
    BY <1>0, <1>1, <1>7, <1>20, <2>1, <2>2, EnqueuedLength
  <2>3. CASE ~ second
    <3>1. Len(q1) \in Int
      BY <1>18, <1>20
    <3> QED
      BY <1>7, <2>3, <3>1
  <2> QED
    BY <2>2, <2>3
<1>22. f \in Int /\ g \in Int
  OBVIOUS
<1>23. free_links' = free_links - w - v - f - g
  BY <1>7
<1> HIDE DEF f, g
<1>24. /\ free_links' = free_links - (d + 0 + r + 0)
       /\ Len(ready_queue') = Len(ready_queue) + r
       /\ Len(event_queue') = Len(event_queue) + 0 /\ Len(node') = Len(node) + 0
  BY <1>15, <1>18, <1>20, <1>21, <1>22, <1>23
<1>25. 0 \in Int /\ d \in Int /\ r \in Int
  BY <1>15, <1>22
<1> HIDE DEF d, r
<1>26. Moves(d, 0, r, 0)
  BY <1>19, <1>24 DEF Moves
<1> QED
  BY <1>0, <1>25, <1>26, MovedLinks

\* DispatchOp and DispatchMem as a whole.
LEMMA DispatchLinks == ASSUME Deep, NoLinkLost, DispatchOp \/ DispatchMem PROVE NoLinkLost'
<1>0. Good /\ Types /\ TypeOK /\ CvTypes /\ RingsTyped /\ Rings /\ LinkInv(rs, InFlight)
  BY GoodTypes DEF Deep, Good, Lists
<1>1. CASE DispatchOp
  <2>1. \E pc \in {Head(fetch_data).regs_PC} : \E npc \in NextPCs(code, pc) : OpStep(pc, npc)
    BY <1>1, Zenon DEF DispatchOp, OpStep, OpMissing, OpLinked, LinkAll, OpFilled, OpStation, RuuTail
  <2>2. PICK pc, npc : pc = Head(fetch_data).regs_PC /\ OpStep(pc, npc)
    BY <2>1
  <2>3. stage = "dispatch" /\ RUU_num < RUU_size /\ LSQ_num < LSQ_size /\ fetch_data # <<>>
    BY <1>1 DEF DispatchOp, CanDispatch
  <2>4. Dispatches(FALSE)
    BY <1>0, <1>1, DispatchOpDispatches
  <2>5. RsTyped /\ event_queue' = event_queue /\ node' = node
    BY <2>4 DEF Dispatches, Entered
  <2> QED
    BY <2>2, <2>3, <2>5, OpLinks
<1>2. CASE DispatchMem
  <2>1. PICK pc, npc : \E addr \in Addrs :
          /\ npc \in NextPCs(code, pc) /\ pc = Head(fetch_data).regs_PC /\ MemStep(pc, npc, addr)
    BY ONLY <1>2, DispatchMemIs, Zenon
  <2>2. PICK addr \in Addrs : pc = Head(fetch_data).regs_PC /\ MemStep(pc, npc, addr)
    BY <2>1
  <2>3. stage = "dispatch" /\ RUU_num < RUU_size /\ LSQ_num < LSQ_size /\ fetch_data # <<>>
    BY <1>2 DEF DispatchMem, CanDispatch
  <2>4. Dispatches(TRUE)
    BY <1>0, <1>2, DispatchMemDispatches
  <2>5. RsTyped /\ event_queue' = event_queue /\ node' = node
    BY <2>4 DEF Dispatches, Entered
  <2> QED
    BY <2>2, <2>3, <2>5, MemLinks
<1> QED
  BY <1>1, <1>2

\* The steps that leave the queues and the stations alone.
LEMMA QuietStepLinks ==
  ASSUME Types, NoLinkLost,
         \/ CommitEnd \/ WakeEnd \/ WritebackEnd \/ IssueEnd \/ DispatchNop \/ DispatchEnd
         \/ Fetch \/ FetchMiss \/ FetchEnd \/ UNCHANGED vars
  PROVE  NoLinkLost'
<1>1. rs' = rs /\ config' = config /\ UNCHANGED queueVars
  <2>1. CASE CommitEnd \/ WakeEnd \/ WritebackEnd
    BY <2>1 DEF CommitEnd, WakeEnd, WritebackEnd, queueVars
  <2>2. CASE IssueEnd \/ DispatchEnd
    BY <2>2 DEF IssueEnd, DispatchEnd, issueRest, queueVars
  <2>3. CASE DispatchNop
    <3>1. Executed
      BY <2>3, DispatchNopIs, ExecuteTypes DEF DispatchNop, CanDispatch
    <3> QED
      BY <2>3, <3>1 DEF DispatchNop, Executed, queueVars
  <2>4. CASE Fetch \/ FetchMiss \/ FetchEnd
    BY <2>4 DEF Fetch, FetchMiss, FetchEnd, fetchRest, queueVars
  <2>5. CASE UNCHANGED vars
    BY <2>5 DEF vars, queueVars
  <2> QED
    BY <2>1, <2>2, <2>3, <2>4, <2>5
<1>2. RsTyped /\ ChainsKept
  BY <1>1, SameStations
<1> QED
  BY <1>1, <1>2, QuietLinks

\* No step loses a link.
LEMMA NextLinks == ASSUME Deep, NoLinkLost, [Next]_vars PROVE NoLinkLost'
<1>0. Good /\ Types /\ Lists /\ Broadcasts
  BY DEF Deep, Good
<1>1. CASE Commit \/ NextCycle \/ StaleEvent \/ StaleNode \/ Requeue
  BY <1>0, <1>1, CommitLinks, NextCycleLinks, StaleEventLinks, StaleNodeLinks, RequeueLinks
<1>2. CASE Wake
  <2>1. wb \in InFlight /\ rs[wb].completed
    BY <1>0, <1>2 DEF Broadcasts, Wake
  <2> QED
    BY <1>0, <1>2, <2>1, WakeLinks
<1>3. ASSUME NEW s \in Stations, Writeback(s) \/ Recover(s) PROVE NoLinkLost'
  BY <1>0, <1>3, WritebackLinks, RecoverLinks
<1>4. CASE Refresh
  <2>1. node = <<>>
    BY <1>0, <1>4, NoNode DEF Refresh
  <2> QED
    BY <1>0, <1>4, <2>1, RefreshLinks
<1>5. CASE IssueStore \/ IssueFree \/ IssueLoad \/ IssueOp
  <2>1. IssueStep(TRUE) \/ IssueStep(FALSE)
    BY <1>5, IssueStoreIs, IssueFreeIs, IssueLoadIs, IssueOpIs
  <2>2. TRUE \in BOOLEAN /\ FALSE \in BOOLEAN
    OBVIOUS
  <2> QED
    BY <1>0, <2>1, <2>2, IssueLinks
<1>6. CASE DispatchOp \/ DispatchMem
  BY <1>6, DispatchLinks
<1>7. CASE \/ CommitEnd \/ WakeEnd \/ WritebackEnd \/ IssueEnd \/ DispatchNop \/ DispatchEnd
           \/ Fetch \/ FetchMiss \/ FetchEnd \/ UNCHANGED vars
  BY <1>0, <1>7, QuietStepLinks
<1>8. Next => Cycle \/ UNCHANGED vars
  BY DEF Next, Stopped
<1> QED
  BY <1>1, <1>2, <1>3, <1>4, <1>5, <1>6, <1>7, <1>8 DEF Cycle

\* At first every link is free.
LEMMA InitLinks == Init => NoLinkLost
<1> SUFFICES ASSUME Init PROVE NoLinkLost
  OBVIOUS
<1>0. Good /\ Types /\ RingsTyped /\ rs \in [Stations -> Station]
  BY InitGood, TypesGive DEF Good
<1>1. Len(event_queue) = 0 /\ Len(ready_queue) = 0 /\ Len(node) = 0 /\ free_links = MAX_RS_LINKS
  BY DEF Init
<1>2. \A s \in Stations, i \in 1 .. 2 : rs[s].odep_list[i] = <<>>
  <2>1. \A s \in Stations : rs[s] = IdleStation
    BY DEF Init
  <2> QED
    BY <2>1 DEF IdleStation, NoConsumers
<1>3. Total(rs) = 0
  <2>1. Stations \in SUBSET Stations
    OBVIOUS
  <2>2. \A s \in Stations, i \in 1 .. 2 : Len(rs[s].odep_list[i]) = 0
    BY <1>2
  <2>3. ASSUME NEW z \in LinkPlaces(rs, Stations) PROVE FALSE
    <3>1. \E s \in Stations, i \in 1 .. 2, j \in Nat : 1 <= j /\ j <= Len(rs[s].odep_list[i])
      BY <1>0, <2>1, <2>3, PlaceIs
    <3> QED
      BY <2>2, <3>1
  <2>4. LinkPlaces(rs, Stations) = {}
    BY <2>3
  <2> QED
    BY <2>4, FS_EmptySet DEF Total
<1>4. free_links \in Int
  BY <1>0, HeldTyped
<1>5. AllHeld
  BY <1>1, <1>3, <1>4 DEF AllHeld
<1> QED
  BY <1>5, LinksAre

\* No link leaks: the free list, the three queues and the output chains hold all of them,
\* through broadcasts, squashes and stale links.
THEOREM NoLinkIsLost == Spec => []NoLinkLost
<1>1. Deep /\ NoLinkLost /\ [Next]_vars => Deep' /\ NoLinkLost'
  BY NextDeep, NextLinks
<1>2. Init => Deep /\ NoLinkLost
  BY InitDeep, InitLinks
<1> QED
  BY <1>1, <1>2, PTL DEF Spec

-----------------------------------------------------------------------------
\* The writers of a register, and the order of the window.

\* The access of the address computation at p is the entry of the LSQ as many places
\* behind its head as older address computations are in the RUU.
LEMMA AccessIs ==
  ASSUME RingsTyped, NEW p \in Nat, p <= RUU_num
  PROVE  AccessOf(p) = LsqAt(RankIn(Agens, p)) /\ RankIn(Agens, p) \in Nat
<1>1. \A q \in Nat : q \in Agens <=> q < RUU_num /\ rs[RuuAt(q)].ea_comp
  BY AgensAre
<1>2. Agens \subseteq Nat /\ RUU_num \in Nat
  BY AgensAre
<1>3. \A q : q \in Below(Agens, p) <=> q \in Agens /\ q \in Nat /\ q < p
  BY <1>2, BelowIs
<1>4. {q \in 0 .. p - 1 : rs[RuuAt(q)].ea_comp} = Below(Agens, p)
  <2>1. \A q : q \in 0 .. p - 1 <=> q \in Nat /\ q < p
    OBVIOUS
  <2> QED
    BY <1>1, <1>2, <1>3, <2>1
<1>5. AccessOf(p) = LsqAt(RankIn(Agens, p))
  BY <1>4 DEF AccessOf, RankIn
<1> QED
  BY <1>2, <1>5, BelowFinite

\* The station with the outputs of an entry is in the window, on the path of the entry.
WriterFacts(q) ==
  /\ q \in Nat /\ q < RUU_num /\ RuuAt(q) \in Stations /\ RuuAt(q) \in InFlight
  /\ Writer(q) \in Stations /\ Writer(q) \in InFlight
  /\ Writer(q) = RuuAt(q) \/ Writer(q) = AccessOf(q)
  /\ rs[Writer(q)].spec_mode = rs[RuuAt(q)].spec_mode
  /\ OpsAt(q) = {RuuAt(q), Writer(q)}
  /\ ~ rs[RuuAt(q)].ea_comp => Writer(q) = RuuAt(q)
  /\ rs[RuuAt(q)].ea_comp => Writer(q) = AccessOf(q) /\ Writer(q)[1] = "LSQ"

\* The operation that writes the registers an instruction names is its own station, or
\* the access of its address computation; both are in flight, on one path.
LEMMA WriterIs ==
  ASSUME RingsTyped, Accesses, NEW q \in Window
  PROVE  WriterFacts(q)
<1>1. RUU_num \in Nat /\ q \in Nat /\ q < RUU_num
  BY DEF RingsTyped, Window
<1>2. q \in 0 .. RUU_size - 1 /\ RuuAt(q) \in InFlight /\ RuuAt(q) \in Stations
  BY InFlightIs
<1>3. CASE rs[RuuAt(q)].ea_comp
  <2>1. q \in Agens
    BY <1>1, <1>3, AgensAre
  <2>2. RankIn(Agens, q) \in 0 .. LSQ_num - 1
    BY <2>1, AccessPlace
  <2>3. /\ RankIn(Agens, q) \in 0 .. LSQ_size - 1
        /\ LsqAt(RankIn(Agens, q)) \in InFlight /\ LsqAt(RankIn(Agens, q)) \in Stations
        /\ LsqAt(RankIn(Agens, q))[1] = "LSQ"
    BY <2>2, InFlightIs, Slots
  <2>4. AccessOf(q) = LsqAt(RankIn(Agens, q))
    BY <1>1, AccessIs
  <2>5. Matches(q, RankIn(Agens, q))
    BY <2>1 DEF Accesses
  <2>6. rs[AccessOf(q)].spec_mode = rs[RuuAt(q)].spec_mode
    BY <2>4, <2>5 DEF Matches
  <2>7. Writer(q) = AccessOf(q) /\ OpsAt(q) = {RuuAt(q), Writer(q)}
    BY <1>3 DEF Writer, OpsAt
  <2> QED
    BY <1>1, <1>2, <1>3, <2>3, <2>4, <2>6, <2>7 DEF WriterFacts
<1>4. CASE ~ rs[RuuAt(q)].ea_comp
  <2>1. Writer(q) = RuuAt(q) /\ OpsAt(q) = {RuuAt(q), Writer(q)}
    BY <1>4 DEF Writer, OpsAt
  <2> QED
    BY <1>1, <1>2, <1>4, <2>1 DEF WriterFacts
<1> QED
  BY <1>3, <1>4

\* A set of places has one youngest.
LEMMA LastUnique ==
  ASSUME NEW S, S \subseteq Int, NEW p, NEW q, LastOf(S, p), LastOf(S, q)
  PROVE  p = q
<1>1. p \in Int /\ q \in Int /\ p <= q /\ q <= p
  BY DEF LastOf
<1> QED
  BY <1>1

\* Writers that are d places nearer to the head, or gone.
Shifted(S, T, d) ==
  /\ S \subseteq Int /\ T \subseteq Int
  /\ \A q \in Int : q \in T <=> q >= 0 /\ q + d \in S

\* Moving a set of places keeps its youngest.
LEMMA LastMoved ==
  ASSUME NEW S, NEW T, NEW d \in Int, Shifted(S, T, d), NEW q \in T
  PROVE  /\ q \in Int /\ q >= 0 /\ q + d \in S
         /\ LastOf(T, q) <=> LastOf(S, q + d)
<1>0. q \in Int /\ q >= 0 /\ q + d \in S
  BY DEF Shifted
<1>1. ASSUME LastOf(T, q), NEW h \in S PROVE h <= q + d
  <2>1. h \in Int /\ h - d \in Int /\ (h - d) + d = h
    BY DEF Shifted
  <2>2. CASE h - d >= 0
    <3>1. h - d \in T
      BY <2>1, <2>2 DEF Shifted
    <3>2. h - d <= q
      BY <1>1, <3>1 DEF LastOf
    <3> QED
      BY <1>0, <2>1, <3>2
  <2> QED
    BY <1>0, <2>1, <2>2
<1>2. ASSUME LastOf(S, q + d), NEW h \in T PROVE h <= q
  <2>1. h \in Int /\ h + d \in S
    BY DEF Shifted
  <2>2. h + d <= q + d
    BY <1>2, <2>1 DEF LastOf
  <2> QED
    BY <1>0, <2>1, <2>2
<1> QED
  BY <1>0, <1>1, <1>2 DEF LastOf

\* A step after which the first m entries are those that were d places further away from the head.
Carried(d, m) ==
  /\ d \in Nat /\ m \in Nat /\ m + d <= RUU_num
  /\ Stations' = Stations /\ code' = code
  /\ \A q \in 0 .. m - 1 :
       /\ RuuAt(q)' = RuuAt(q + d) /\ Writer(q)' = Writer(q + d) /\ OpsAt(q)' = OpsAt(q + d)
       /\ SameText(rs'[RuuAt(q + d)], rs[RuuAt(q + d)])
       /\ SameText(rs'[Writer(q + d)], rs[Writer(q + d)])

\* A step that keeps heads and texts carries every place to itself.
LEMMA CarriedStay ==
  ASSUME RingsTyped, Accesses, RsTyped, NEW m \in Nat, m <= RUU_num,
         code' = code, config' = config, RUU_head' = RUU_head, LSQ_head' = LSQ_head,
         \A s \in InFlight : SameText(rs'[s], rs[s])
  PROVE  Carried(0, m)
<1>1. RUU_num \in Nat /\ LSQ_size' = LSQ_size /\ Stations' = Stations
  BY DEF RingsTyped, LSQ_size, RsTyped
<1>2. ASSUME NEW q \in 0 .. m - 1
      PROVE  /\ q + 0 = q /\ RuuAt(q)' = RuuAt(q) /\ Writer(q)' = Writer(q) /\ OpsAt(q)' = OpsAt(q)
             /\ SameText(rs'[RuuAt(q)], rs[RuuAt(q)]) /\ SameText(rs'[Writer(q)], rs[Writer(q)])
  <2>1. q \in Window /\ q \in Nat
    BY <1>1 DEF Window
  <2>2. WriterFacts(q)
    BY <2>1, WriterIs
  <2>3. \A h : RuuAt(h)' = RuuAt(h)
    BY DEF RuuAt
  <2>4. \A h \in 0 .. q - 1 : rs'[RuuAt(h)].ea_comp = rs[RuuAt(h)].ea_comp
    <3>1. TAKE h \in 0 .. q - 1
    <3>2. h \in Window
      BY <1>1, <2>1 DEF Window
    <3>3. RuuAt(h) \in InFlight
      BY <3>2, InFlightIs
    <3> QED
      BY <3>3 DEF SameText
  <2>5. {h \in 0 .. q - 1 : rs'[RuuAt(h)'].ea_comp} = {h \in 0 .. q - 1 : rs[RuuAt(h)].ea_comp}
    BY <2>3, <2>4
  <2>6. AccessOf(q)' = AccessOf(q)
    BY <1>1, <2>5 DEF AccessOf, LsqAt
  <2>7. SameText(rs'[RuuAt(q)], rs[RuuAt(q)]) /\ SameText(rs'[Writer(q)], rs[Writer(q)])
    BY <2>2 DEF WriterFacts
  <2>8. rs'[RuuAt(q)'].ea_comp = rs[RuuAt(q)].ea_comp
    BY <2>3, <2>7 DEF SameText
  <2>9. Writer(q)' = Writer(q)
    BY <2>3, <2>6, <2>8 DEF Writer
  <2>10. OpsAt(q)' = OpsAt(q)
    BY <2>3, <2>6, <2>8 DEF OpsAt
  <2> QED
    BY <2>1, <2>3, <2>7, <2>9, <2>10
<1>3. m + 0 = m
  OBVIOUS
<1> QED
  BY <1>1, <1>2, <1>3 DEF Carried

\* An instruction carried along writes what it wrote, on the path it was on.
LEMMA CarriedWrites ==
  ASSUME RingsTyped, Accesses, NEW d, NEW m, Carried(d, m), NEW q \in 0 .. m - 1, NEW r
  PROVE  /\ Writes(q, r)' <=> Writes(q + d, r)
         /\ rs'[RuuAt(q)'].spec_mode = rs[RuuAt(q + d)].spec_mode
<1>1. SameText(rs'[Writer(q + d)], rs[Writer(q + d)]) /\ Writer(q)' = Writer(q + d)
  BY DEF Carried
<1>2. SameText(rs'[RuuAt(q + d)], rs[RuuAt(q + d)]) /\ RuuAt(q)' = RuuAt(q + d)
  BY DEF Carried
<1> QED
  BY <1>1, <1>2 DEF Writes, SameText

\* The writers below a place that is carried along are the writers below where it came
\* from, but for those that left.
LEMMA CarriedBelow ==
  ASSUME RingsTyped, Accesses, NEW d, NEW m, Carried(d, m), NEW p \in 0 .. m, NEW r
  PROVE  Shifted(WritersBelow(p + d, r), WritersBelow(p, r)', d)
<1>1. d \in Nat /\ m \in Nat /\ p \in Nat
  BY DEF Carried
<1>2. \A q \in 0 .. m - 1 : Writes(q, r)' <=> Writes(q + d, r)
  BY CarriedWrites
<1>3. WritersBelow(p, r)' = {q \in 0 .. p - 1 : Writes(q, r)'}
  BY DEF WritersBelow
<1>4. WritersBelow(p + d, r) = {q \in 0 .. (p + d) - 1 : Writes(q, r)}
  BY DEF WritersBelow
<1>5. ASSUME NEW q \in Int
      PROVE  q \in WritersBelow(p, r)' <=> q >= 0 /\ q + d \in WritersBelow(p + d, r)
  <2>1. q \in 0 .. p - 1 <=> q >= 0 /\ q + d \in 0 .. (p + d) - 1
    BY <1>1
  <2>2. q \in 0 .. p - 1 => q \in 0 .. m - 1
    BY <1>1
  <2> QED
    BY <1>2, <1>3, <1>4, <2>1, <2>2
<1>6. WritersBelow(p + d, r) \subseteq Int /\ WritersBelow(p, r)' \subseteq Int
  BY <1>1, <1>3, <1>4
<1> QED
  BY <1>5, <1>6 DEF Shifted

\* An operation carried along names what it named.
LEMMA CarriedName ==
  ASSUME RingsTyped, Accesses, NEW d, NEW m, Carried(d, m), NEW p \in 0 .. m - 1,
         NEW x \in OpsAt(p + d), NEW k
  PROVE  OperandName(x, k)' = OperandName(x, k) /\ x \in Stations
<1>1. d \in Nat /\ m \in Nat /\ m + d <= RUU_num /\ code' = code
  BY DEF Carried
<1>2. p + d \in Window
  BY <1>1 DEF Window, RingsTyped
<1>3. WriterFacts(p + d)
  BY <1>2, WriterIs
<1>4. x \in {RuuAt(p + d), Writer(p + d)} /\ x \in Stations
  BY <1>3 DEF WriterFacts
<1>5. SameText(rs'[x], rs[x])
  BY <1>4 DEF Carried
<1>6. rs'[x].PC = rs[x].PC /\ rs'[x].ea_comp = rs[x].ea_comp
  BY <1>5 DEF SameText
<1> QED
  BY <1>1, <1>4, <1>6 DEF OperandName, InstAt

\* What an operand waits for, before and after such a step.
LEMMA CarriedSupplies ==
  ASSUME RingsTyped, Accesses, NEW d, NEW m, Carried(d, m), NEW p \in 0 .. m - 1,
         NEW x \in OpsAt(p + d), NEW k, NEW s, NEW i
  PROVE  /\ Supplies(p, x, k, s, i)' => Supplies(p + d, x, k, s, i)
         /\ Supplies(p + d, x, k, s, i) /\ (\A h \in 0 .. d - 1 : s # Writer(h)) => Supplies(p, x, k, s, i)'
<1>1. d \in Nat /\ m \in Nat /\ m + d <= RUU_num /\ p \in Nat /\ p < m /\ RuuAt(p)' = RuuAt(p + d)
  BY DEF Carried
<1>2. PICK r : r = OperandName(x, k)
  OBVIOUS
<1>3. OperandName(x, k)' = r
  BY <1>2, CarriedName
<1> DEFINE S == WritersBelow(p + d, r)
           T == WritersBelow(p, r)'
<1>4. Shifted(S, T, d)
  BY <1>1, CarriedBelow
<1>5. \A q \in T : q \in 0 .. p - 1
  BY DEF WritersBelow
<1>6. \A q \in S : q \in Int /\ q >= 0
  BY <1>1 DEF WritersBelow
<1>7. Supplies(p + d, x, k, s, i) <=>
        \/ r = DTMP /\ s = RuuAt(p + d) /\ i = 1
        \/ r \notin {NA, DTMP} /\ rs[s].onames[i] = r /\ \E q \in S : LastOf(S, q) /\ s = Writer(q)
  BY <1>2 DEF Supplies
<1>8. Supplies(p, x, k, s, i)' <=>
        \/ r = DTMP /\ s = RuuAt(p)' /\ i = 1
        \/ r \notin {NA, DTMP} /\ rs'[s].onames[i] = r /\ \E q \in T : LastOf(T, q) /\ s = Writer(q)'
  BY <1>3 DEF Supplies, DTMP, NA
<1> HIDE DEF S, T
<1>9. ASSUME NEW q \in T
      PROVE  /\ q + d \in S /\ (LastOf(T, q) <=> LastOf(S, q + d)) /\ Writer(q)' = Writer(q + d)
             /\ rs'[Writer(q + d)].onames = rs[Writer(q + d)].onames
  <2>1. q \in 0 .. m - 1
    BY <1>1, <1>5
  <2>2. Writer(q)' = Writer(q + d) /\ SameText(rs'[Writer(q + d)], rs[Writer(q + d)])
    BY <2>1 DEF Carried
  <2>3. q + d \in S /\ (LastOf(T, q) <=> LastOf(S, q + d))
    <3>1. d \in Int
      BY <1>1
    <3> QED
      BY ONLY <3>1, <1>4, q \in T, LastMoved
  <2>4. rs'[Writer(q + d)].onames = rs[Writer(q + d)].onames
    BY <2>2 DEF SameText
  <2> QED
    BY ONLY <2>2, <2>3, <2>4
<1>10. ASSUME NEW q \in S, q >= d PROVE q - d \in T /\ (q - d) + d = q
  <2>1. q - d \in Int /\ q - d >= 0 /\ (q - d) + d = q
    BY <1>1, <1>6, <1>10
  <2>2. \A h \in Int : h \in T <=> h >= 0 /\ h + d \in S
    BY <1>4 DEF Shifted
  <2> QED
    BY ONLY <2>1, <2>2, q \in S
<1>11. ASSUME Supplies(p, x, k, s, i)' PROVE Supplies(p + d, x, k, s, i)
  <2>1. CASE r = DTMP /\ s = RuuAt(p)' /\ i = 1
    BY <1>1, <1>7, <2>1
  <2>2. CASE r \notin {NA, DTMP} /\ rs'[s].onames[i] = r /\ \E q \in T : LastOf(T, q) /\ s = Writer(q)'
    BY <1>7, <1>9, <2>2
  <2> QED
    BY <1>8, <1>11, <2>1, <2>2
<1>12. ASSUME Supplies(p + d, x, k, s, i), \A h \in 0 .. d - 1 : s # Writer(h)
       PROVE  Supplies(p, x, k, s, i)'
  <2>1. CASE r = DTMP /\ s = RuuAt(p + d) /\ i = 1
    BY <1>1, <1>8, <2>1
  <2>2. CASE r \notin {NA, DTMP} /\ rs[s].onames[i] = r /\ \E q \in S : LastOf(S, q) /\ s = Writer(q)
    <3>1. PICK q \in S : LastOf(S, q) /\ s = Writer(q)
      BY <2>2
    <3>2. q >= d
      BY <1>1, <1>6, <1>12, <3>1
    <3>3. q - d \in T /\ (q - d) + d = q
      BY <1>10, <3>2
    <3>4. /\ LastOf(T, q - d) /\ Writer(q - d)' = Writer(q) /\ rs'[Writer(q)].onames = rs[Writer(q)].onames
      BY <1>9, <3>1, <3>3
    <3> QED
      BY <1>8, <2>2, <3>1, <3>3, <3>4
  <2> QED
    BY <1>7, <1>12, <2>1, <2>2
<1> QED
  BY <1>11, <1>12

-----------------------------------------------------------------------------
\* Every step keeps the waiting operands right.

Waiting == AgensName /\ CvTracks /\ OperandsSettled

\* Who supplies an operand is no younger, and in the window.
LEMMA SuppliersAre ==
  ASSUME RingsTyped, Accesses, NEW p \in Window, NEW x \in OpsAt(p), NEW k, NEW s, NEW i, Supplies(p, x, k, s, i)
  PROVE  \E q \in Window : q <= p /\ s \in OpsAt(q) /\ s \in Stations /\ s \in InFlight
<1>1. p \in Nat /\ p < RUU_num /\ RUU_num \in Nat
  BY DEF Window, RingsTyped
<1>2. CASE s = RuuAt(p)
  <2>1. WriterFacts(p)
    BY WriterIs
  <2> QED
    BY <1>1, <1>2, <2>1 DEF WriterFacts
<1>3. CASE s # RuuAt(p)
  <2>1. PICK q \in 0 .. p - 1 : s = Writer(q)
    BY <1>3 DEF Supplies, WritersBelow
  <2>2. q \in Window /\ q <= p
    BY <1>1 DEF Window
  <2>3. WriterFacts(q)
    BY <2>2, WriterIs
  <2> QED
    BY <2>1, <2>2, <2>3 DEF WriterFacts
<1> QED
  BY <1>2, <1>3

\* An operand stays settled where its reader is carried along, suppliers stay completed,
\* its link stays, and its supplier does not leave.
LEMMA SettledKept ==
  ASSUME RingsTyped, Accesses, NEW d, NEW m, Carried(d, m), NEW p \in 0 .. m - 1, NEW x \in OpsAt(p + d),
         NEW k \in 1 .. 3, Settled(p + d, x, k),
         rs'[x].tag = rs[x].tag, rs'[x].idep_ready[k] = rs[x].idep_ready[k],
         \A s \in Stations : rs[s].completed => rs'[s].completed,
         \A s \in Stations, i \in 1 .. 2 :
           ~ rs[x].idep_ready[k] /\ Supplies(p + d, x, k, s, i) /\ HasLink(rs, s, i, x, k) =>
             HasLink(rs', s, i, x, k) /\ \A h \in 0 .. d - 1 : s # Writer(h)
  PROVE  Settled(p, x, k)'
<1>1. Stations' = Stations
  BY DEF Carried
<1>2. \A s, i : /\ Supplies(p, x, k, s, i)' => Supplies(p + d, x, k, s, i)
                /\ Supplies(p + d, x, k, s, i) /\ (\A h \in 0 .. d - 1 : s # Writer(h)) => Supplies(p, x, k, s, i)'
  BY CarriedSupplies
<1>3. Settled(p, x, k)' <=>
        IF rs'[x].idep_ready[k]
        THEN \A s \in Stations, i \in 1 .. 2 : Supplies(p, x, k, s, i)' => rs'[s].completed
        ELSE \E s \in Stations, i \in 1 .. 2 : Supplies(p, x, k, s, i)' /\ HasLink(rs', s, i, x, k)
  BY <1>1 DEF Settled, HasLink
<1>4. CASE rs[x].idep_ready[k]
  <2>1. \A s \in Stations, i \in 1 .. 2 : Supplies(p + d, x, k, s, i) => rs[s].completed
    BY <1>4 DEF Settled
  <2> QED
    BY <1>2, <1>3, <1>4, <2>1
<1>5. CASE ~ rs[x].idep_ready[k]
  <2>1. PICK s \in Stations, i \in 1 .. 2 : Supplies(p + d, x, k, s, i) /\ HasLink(rs, s, i, x, k)
    BY <1>5 DEF Settled
  <2> QED
    BY <1>2, <1>3, <1>5, <2>1
<1> QED
  BY <1>4, <1>5

TracksNext(e, T) ==
  IF e = CVLINK_NULL THEN \A q \in T : LastOf(T, q) => rs'[Writer(q)'].completed
  ELSE \E q \in T : LastOf(T, q) /\ e.rs = Writer(q)'

\* A create vector entry kept, or cleared for a completed creator, keeps tracking the
\* youngest writer.
LEMMA TracksMoved ==
  ASSUME NEW S, NEW T, NEW d \in Nat, Shifted(S, T, d), NEW e, NEW e2, Tracks(e, S),
         \A q \in T : Writer(q)' = Writer(q + d),
         \A q \in S : rs[Writer(q)].completed => rs'[Writer(q)].completed,
         e2 = e \/ (e2 = CVLINK_NULL /\ e # CVLINK_NULL /\ rs'[e.rs].completed),
         \A q \in S : e # CVLINK_NULL /\ e2 # CVLINK_NULL /\ e.rs = Writer(q) => q >= d
  PROVE  TracksNext(e2, T)
<1>1. \A q \in T : /\ q \in Int /\ q >= 0 /\ q + d \in S /\ (LastOf(T, q) <=> LastOf(S, q + d))
  <2>1. d \in Int
    OBVIOUS
  <2> QED
    BY <2>1, LastMoved
<1>2. S \subseteq Int /\ \A q \in Int : q \in T <=> q >= 0 /\ q + d \in S
  BY DEF Shifted
<1>3. CASE e2 = CVLINK_NULL
  <2>1. SUFFICES ASSUME NEW q \in T, LastOf(T, q) PROVE rs'[Writer(q)'].completed
    BY <1>3 DEF TracksNext
  <2>2. q + d \in S /\ LastOf(S, q + d) /\ Writer(q)' = Writer(q + d)
    BY <1>1, <2>1
  <2>3. CASE e = CVLINK_NULL
    <3>1. rs[Writer(q + d)].completed
      BY <2>2, <2>3 DEF Tracks
    <3> QED
      BY <2>2, <3>1
  <2>4. CASE e # CVLINK_NULL
    <3>1. PICK h \in S : LastOf(S, h) /\ e.rs = Writer(h)
      BY <2>4 DEF Tracks
    <3>2. h = q + d
      BY <1>2, <2>2, <3>1, LastUnique
    <3> QED
      BY <1>3, <2>2, <2>4, <3>1, <3>2
  <2> QED
    BY <2>3, <2>4
<1>4. CASE e2 # CVLINK_NULL
  <2>1. e2 = e /\ e # CVLINK_NULL
    BY <1>4
  <2>2. PICK h \in S : LastOf(S, h) /\ e.rs = Writer(h)
    BY <2>1 DEF Tracks
  <2>3. h >= d /\ h \in Int
    BY <1>2, <1>4, <2>1, <2>2
  <2>4. h - d \in Int /\ h - d >= 0 /\ (h - d) + d = h
    BY <2>3
  <2>5. h - d \in T
    BY <1>2, <2>4
  <2>6. LastOf(T, h - d) /\ Writer(h - d)' = Writer(h)
    BY <1>1, <2>2, <2>4, <2>5
  <2> QED
    BY <1>4, <2>1, <2>2, <2>5, <2>6 DEF TracksNext
<1> QED
  BY <1>3, <1>4

\* CvTracks in the next state.
LEMMA TracksThen ==
  ASSUME Regs' = Regs,
         \A r \in Regs \ {DTMP} :
           /\ TracksNext(create_vector'[r], StraightWriters(r)')
           /\ r \in use_spec_cv' <=> AstrayWriters(r)' # {}
           /\ r \in use_spec_cv' => TracksNext(spec_create_vector'[r], AstrayWriters(r)')
  PROVE  CvTracks'
BY DEF CvTracks, Tracks, TracksNext, DTMP

\* The writers of the two paths, when no entry moves.
LEMMA WritersStay ==
  ASSUME RingsTyped, Accesses, Carried(0, RUU_num), RUU_num' = RUU_num, NEW r
  PROVE  /\ StraightWriters(r)' = StraightWriters(r) /\ AstrayWriters(r)' = AstrayWriters(r)
         /\ StraightWriters(r) \subseteq Window /\ AstrayWriters(r) \subseteq Window
         /\ \A q \in Window : Writer(q)' = Writer(q) /\ q + 0 = q
<1>1. RUU_num \in Nat /\ Window = 0 .. RUU_num - 1 /\ Window' = Window
  BY DEF RingsTyped, Window
<1>2. \A q \in Window : q + 0 = q
  BY <1>1
<1>3. \A q \in Window : /\ Writes(q, r)' <=> Writes(q, r)
                        /\ rs'[RuuAt(q)'].spec_mode = rs[RuuAt(q)].spec_mode
  BY <1>1, <1>2, CarriedWrites
<1>4. \A q \in Window : Writer(q)' = Writer(q)
  BY <1>1, <1>2 DEF Carried
<1> QED
  BY <1>1, <1>2, <1>3, <1>4 DEF StraightWriters, AstrayWriters

\* A set of places of the window is itself, moved by none.
LEMMA SameShifted ==
  ASSUME RingsTyped, NEW S, S \subseteq Window
  PROVE  Shifted(S, S, 0)
<1>1. RUU_num \in Nat /\ \A q \in Window : q \in Int /\ q >= 0
  BY DEF RingsTyped, Window
<1>2. \A q \in Int : q + 0 = q
  OBVIOUS
<1> QED
  BY <1>1, <1>2 DEF Shifted

\* An entry of a create vector, as it was, or empty because its station is complete.
Cleared(e, e2) == e2 = e \/ (e2 = CVLINK_NULL /\ e # CVLINK_NULL /\ rs'[e.rs].completed)

\* A step that keeps the window, and clears at most entries of completed creators, keeps
\* the create vectors tracking the youngest writers.
LEMMA CvKept ==
  ASSUME RingsTyped, Accesses, Carried(0, RUU_num), RUU_num' = RUU_num, CvTracks,
         \A s \in Stations : rs[s].completed => rs'[s].completed,
         use_spec_cv' = use_spec_cv,
         \A r \in Regs : /\ Cleared(create_vector[r], create_vector'[r])
                         /\ r \in use_spec_cv => Cleared(spec_create_vector[r], spec_create_vector'[r])
  PROVE  CvTracks'
<1>1. ASSUME NEW S, S \subseteq Window, NEW e, NEW e2, Cleared(e, e2), Tracks(e, S)
      PROVE  TracksNext(e2, S)
  <2>1. Shifted(S, S, 0)
    BY <1>1, SameShifted
  <2>2. \A q \in S : Writer(q)' = Writer(q + 0) /\ q >= 0 /\ Writer(q) \in Stations
    <3>1. TAKE q \in S
    <3>2. q \in Window
      BY <1>1
    <3>3. WriterFacts(q)
      BY <3>2, WriterIs
    <3> QED
      BY <3>2, <3>3, WritersStay DEF WriterFacts
  <2>3. \A q \in S : rs[Writer(q)].completed => rs'[Writer(q)].completed
    BY <2>2
  <2>4. e2 = e \/ (e2 = CVLINK_NULL /\ e # CVLINK_NULL /\ rs'[e.rs].completed)
    BY <1>1 DEF Cleared
  <2>5. 0 \in Nat /\ \A q \in S : e # CVLINK_NULL /\ e2 # CVLINK_NULL /\ e.rs = Writer(q) => q >= 0
    BY <2>2
  <2> QED
    BY ONLY <1>1, <2>1, <2>2, <2>3, <2>4, <2>5, TracksMoved
<1>2. Regs' = Regs
  BY DEF Regs
<1>3. ASSUME NEW r \in Regs \ {DTMP}
      PROVE  /\ TracksNext(create_vector'[r], StraightWriters(r)')
             /\ r \in use_spec_cv' <=> AstrayWriters(r)' # {}
             /\ r \in use_spec_cv' => TracksNext(spec_create_vector'[r], AstrayWriters(r)')
  <2>1. /\ StraightWriters(r)' = StraightWriters(r) /\ AstrayWriters(r)' = AstrayWriters(r)
        /\ StraightWriters(r) \subseteq Window /\ AstrayWriters(r) \subseteq Window
    BY WritersStay
  <2>2. /\ Tracks(create_vector[r], StraightWriters(r))
        /\ r \in use_spec_cv <=> AstrayWriters(r) # {}
        /\ r \in use_spec_cv => Tracks(spec_create_vector[r], AstrayWriters(r))
    BY DEF CvTracks
  <2>3. TracksNext(create_vector'[r], StraightWriters(r))
    BY <1>1, <2>1, <2>2
  <2>4. r \in use_spec_cv => TracksNext(spec_create_vector'[r], AstrayWriters(r))
    BY <1>1, <2>1, <2>2
  <2> QED
    BY <2>1, <2>2, <2>3, <2>4
<1> QED
  BY <1>2, <1>3, TracksThen

\* Address computations carried along name the temporary register as before.
LEMMA AgensNameKept ==
  ASSUME RingsTyped, Accesses, NEW d, NEW m, Carried(d, m), RUU_num' = m, AgensName
  PROVE  AgensName'
<1>1. d \in Nat /\ m \in Nat /\ m + d <= RUU_num /\ RUU_num \in Nat
  BY DEF Carried, RingsTyped
<1>2. SUFFICES ASSUME NEW q \in 0 .. m - 1
               PROVE  rs'[RuuAt(q)'].ea_comp => /\ rs'[RuuAt(q)'].onames[1] = DTMP
                                                /\ rs'[RuuAt(q)'].onames[2] = NA
  BY DEF AgensName, Window, DTMP, NA
<1>3. q + d \in Window
  BY <1>1 DEF Window
<1>4. RuuAt(q)' = RuuAt(q + d) /\ SameText(rs'[RuuAt(q + d)], rs[RuuAt(q + d)])
  BY DEF Carried
<1> QED
  BY <1>3, <1>4 DEF AgensName, SameText

\* Chains that are kept keep their links.
LEMMA LinksStay ==
  ASSUME RsTyped, TagsKept, ChainsKept, NEW s \in Stations, NEW i, NEW x \in Stations, NEW k
  PROVE  /\ HasLink(rs, s, i, x, k) => HasLink(rs', s, i, x, k)
         /\ rs'[x].tag = rs[x].tag /\ rs'[x].idep_ready[k] = rs[x].idep_ready[k]
BY DEF HasLink, TagsKept, ChainsKept, SameChains

\* A step that keeps texts, tags, chains and window keeps the waiting operands right.
LEMMA StillWaiting ==
  ASSUME Good, Waiting, RsTyped, TextKept, TagsKept, ChainsKept, WindowKept,
         \A s \in Stations : rs[s].completed => rs'[s].completed,
         use_spec_cv' = use_spec_cv,
         \A r \in Regs : /\ Cleared(create_vector[r], create_vector'[r])
                         /\ r \in use_spec_cv => Cleared(spec_create_vector[r], spec_create_vector'[r])
  PROVE  Waiting'
<1>1. RingsTyped /\ Accesses /\ AgensName /\ CvTracks /\ OperandsSettled
  BY GoodTypes DEF Waiting
<1>2. /\ code' = code /\ config' = config /\ RUU_head' = RUU_head /\ LSQ_head' = LSQ_head
      /\ RUU_num' = RUU_num /\ RUU_num \in Nat
  BY <1>1 DEF WindowKept, windowVars, RingsTyped
<1>3. Carried(0, RUU_num)
  <2>1. \A s \in InFlight : SameText(rs'[s], rs[s])
    BY DEF TextKept, InFlight
  <2> QED
    BY <1>1, <1>2, <2>1, CarriedStay
<1>4. AgensName' /\ CvTracks'
  BY <1>1, <1>2, <1>3, AgensNameKept, CvKept
<1>5. ASSUME NEW p \in 0 .. RUU_num - 1, NEW x \in OpsAt(p + 0), NEW k \in 1 .. 3
      PROVE  Settled(p, x, k)'
  <2>1. p \in Window /\ p + 0 = p
    BY <1>2 DEF Window
  <2>2. x \in Stations /\ Settled(p + 0, x, k)
    <3>1. WriterFacts(p)
      BY <1>1, <2>1, WriterIs
    <3> QED
      BY <1>1, <2>1, <3>1 DEF WriterFacts, OperandsSettled
  <2>3. rs'[x].tag = rs[x].tag /\ rs'[x].idep_ready[k] = rs[x].idep_ready[k]
    BY <2>2, LinksStay
  <2>4. \A s \in Stations, i \in 1 .. 2 :
           ~ rs[x].idep_ready[k] /\ Supplies(p + 0, x, k, s, i) /\ HasLink(rs, s, i, x, k) =>
             HasLink(rs', s, i, x, k) /\ \A h \in 0 .. 0 - 1 : s # Writer(h)
    BY <2>2, LinksStay
  <2> QED
    BY <1>1, <1>3, <2>2, <2>3, <2>4, SettledKept
<1>6. OperandsSettled'
  <2>1. \A p \in 0 .. RUU_num - 1 : OpsAt(p)' = OpsAt(p + 0)
    BY <1>3 DEF Carried
  <2>2. Window' = 0 .. RUU_num - 1
    BY <1>2 DEF Window
  <2> QED
    BY <1>5, <2>1, <2>2 DEF OperandsSettled
<1> QED
  BY <1>4, <1>6 DEF Waiting

\* Create vectors kept are cleared at most.
LEMMA CvStaysCleared ==
  ASSUME UNCHANGED cvVars
  PROVE  /\ use_spec_cv' = use_spec_cv
         /\ \A r \in Regs : /\ Cleared(create_vector[r], create_vector'[r])
                            /\ r \in use_spec_cv => Cleared(spec_create_vector[r], spec_create_vector'[r])
BY DEF cvVars, Cleared

\* A step that keeps stations, window and create vectors keeps the waiting operands
\* right.
LEMMA SameWaiting ==
  ASSUME Good, Waiting, rs' = rs, WindowKept, UNCHANGED cvVars
  PROVE  Waiting'
<1>1. config' = config /\ TypeOK
  BY GoodTypes DEF WindowKept
<1>2. RsTyped /\ TextKept /\ TagsKept /\ ChainsKept
  BY <1>1, RsKept
<1> QED
  BY <1>2, CvStaysCleared, StillWaiting

\* Steps that change no station, window or create vector keep the waiting operands
\* right.
LEMMA QuietWaiting ==
  ASSUME Good, Waiting,
         \/ CommitEnd \/ StaleEvent \/ WakeEnd \/ WritebackEnd \/ Requeue \/ StaleNode \/ IssueEnd
         \/ DispatchNop \/ DispatchEnd \/ Fetch \/ FetchMiss \/ FetchEnd \/ NextCycle
         \/ UNCHANGED vars
  PROVE  Waiting'
<1>1. CASE CommitEnd
  BY <1>1, SameWaiting DEF CommitEnd, WindowKept
<1>2. CASE StaleEvent
  BY <1>2, SameWaiting DEF StaleEvent, WindowKept
<1>3. CASE WritebackEnd
  BY <1>3, SameWaiting DEF WritebackEnd, WindowKept
<1>4. CASE Requeue
  BY <1>4, SameWaiting DEF Requeue, issueRest, WindowKept
<1>5. CASE StaleNode
  BY <1>5, SameWaiting DEF StaleNode, issueRest, WindowKept
<1>6. CASE IssueEnd
  BY <1>6, SameWaiting DEF IssueEnd, issueRest, WindowKept
<1>7. CASE DispatchNop
  <2>1. /\ rs' = rs /\ WindowKept /\ UNCHANGED cvVars
    BY <1>7 DEF DispatchNop, Execute, WindowKept, windowVars
  <2> QED
    BY <2>1, SameWaiting
<1>8. CASE DispatchEnd
  BY <1>8, SameWaiting DEF DispatchEnd, WindowKept
<1>9. CASE Fetch
  BY <1>9, SameWaiting DEF Fetch, fetchRest, WindowKept
<1>10. CASE FetchMiss
  BY <1>10, SameWaiting DEF FetchMiss, fetchRest, WindowKept
<1>11. CASE FetchEnd
  BY <1>11, SameWaiting DEF FetchEnd, fetchRest, WindowKept
<1>12. CASE NextCycle
  BY <1>12, SameWaiting DEF NextCycle, WindowKept
<1>13. CASE UNCHANGED vars
  BY <1>13, SameWaiting DEF vars, WindowKept
<1>14. CASE WakeEnd
  BY <1>14, SameWaiting DEF WakeEnd, WindowKept
<1> QED
  BY <1>1, <1>2, <1>3, <1>4, <1>5, <1>6, <1>7, <1>8, <1>9, <1>10, <1>11, <1>12, <1>13, <1>14

\* lsq_refresh keeps the waiting operands right.
LEMMA RefreshWaiting == ASSUME Good, Waiting, Refresh PROVE Waiting'
<1>1. WindowKept /\ UNCHANGED cvVars
  BY DEF Refresh, WindowKept
<1>2. /\ RsTyped /\ TextKept /\ TagsKept /\ ChainsKept
      /\ \A s \in Stations : rs'[s].completed = rs[s].completed
  BY GoodTypes, RefreshEffect
<1> QED
  BY <1>1, <1>2, CvStaysCleared, StillWaiting

\* An issue keeps the waiting operands right.
LEMMA IssueStepWaiting ==
  ASSUME Good, Waiting, NEW done \in BOOLEAN, IssueStep(done)
  PROVE  Waiting'
<1>1. WindowKept /\ UNCHANGED cvVars /\ config' = config
  BY DEF IssueStep, WindowKept
<1>2. Candidate \in Stations
  BY <1>1, GoodTypes, CandidateIs DEF IssueStep
<1>3. /\ RsTyped /\ TextKept /\ TagsKept /\ ChainsKept
      /\ \A s \in Stations : rs'[s].completed <=> rs[s].completed \/ (done /\ s = Candidate)
  BY <1>1, <1>2, GoodTypes, IssueEffect DEF IssueStep
<1> QED
  BY <1>1, <1>3, CvStaysCleared, StillWaiting

\* What a completed station created is forgotten.
LEMMA ClearedBy ==
  ASSUME NEW cv, NEW s, NEW r \in Regs, rs'[s].completed
  PROVE  Cleared(cv[r], WithoutCreator(cv, s)[r])
<1>1. CASE \E i \in 1 .. 2 : rs[s].onames[i] = r /\ cv[r] = [rs |-> s, odep |-> i]
  <2>1. PICK i \in 1 .. 2 : cv[r] = [rs |-> s, odep |-> i]
    BY <1>1
  <2>2. WithoutCreator(cv, s)[r] = CVLINK_NULL /\ cv[r].rs = s /\ cv[r].odep # 0
    BY <1>1, <2>1 DEF WithoutCreator
  <2>3. cv[r] # CVLINK_NULL
    BY <2>2 DEF CVLINK_NULL
  <2> QED
    BY <2>2, <2>3 DEF Cleared
<1>2. CASE ~ \E i \in 1 .. 2 : rs[s].onames[i] = r /\ cv[r] = [rs |-> s, odep |-> i]
  BY <1>2 DEF WithoutCreator, Cleared
<1> QED
  BY <1>1, <1>2

\* ruu_writeback of an instruction keeps the waiting operands right.
LEMMA WritebackWaiting == ASSUME Good, Waiting, NEW b \in Stations, Writeback(b) PROVE Waiting'
<1>1. /\ WindowKept /\ use_spec_cv' = use_spec_cv
      /\ create_vector' = IF rs[b].spec_mode THEN create_vector ELSE WithoutCreator(create_vector, b)
      /\ spec_create_vector' = IF rs[b].spec_mode THEN WithoutCreator(spec_create_vector, b)
                               ELSE spec_create_vector
  BY DEF Writeback, WindowKept
<1>2. /\ RsTyped /\ TextKept /\ TagsKept /\ ChainsKept
      /\ \A s \in Stations : rs'[s].completed <=> rs[s].completed \/ s = b
  BY GoodTypes, WritebackEffect
<1>3. \A r \in Regs : /\ Cleared(create_vector[r], create_vector'[r])
                      /\ Cleared(spec_create_vector[r], spec_create_vector'[r])
  <2>1. TAKE r \in Regs
  <2>2. rs'[b].completed
    BY <1>2
  <2>3. /\ Cleared(create_vector[r], WithoutCreator(create_vector, b)[r])
        /\ Cleared(spec_create_vector[r], WithoutCreator(spec_create_vector, b)[r])
    BY <2>2, ClearedBy
  <2> QED
    BY <1>1, <2>3 DEF Cleared
<1> QED
  BY <1>1, <1>2, <1>3, StillWaiting

\* Where every operand of the window left is settled, the clause of the invariant holds.
LEMMA SettledAll ==
  ASSUME RingsTyped, NEW d, NEW m, Carried(d, m), RUU_num' = m,
         \A p \in 0 .. m - 1 : \A x \in OpsAt(p + d), k \in 1 .. 3 : Settled(p, x, k)'
  PROVE  OperandsSettled'
<1>1. \A p \in 0 .. m - 1 : OpsAt(p)' = OpsAt(p + d)
  BY DEF Carried
<1>2. Window' = 0 .. m - 1
  BY DEF Window
<1> QED
  BY <1>1, <1>2 DEF OperandsSettled

\* An operand has one supplier.
LEMMA OneSupplier ==
  ASSUME NEW p \in Nat, NEW x, NEW k, NEW s, NEW i, NEW t, NEW j, Supplies(p, x, k, s, i), Supplies(p, x, k, t, j)
  PROVE  s = t
<1>1. PICK r : r = OperandName(x, k)
  OBVIOUS
<1>2. CASE r = DTMP
  BY <1>1, <1>2 DEF Supplies
<1>3. CASE r # DTMP
  <2>1. PICK q \in WritersBelow(p, r) : LastOf(WritersBelow(p, r), q) /\ s = Writer(q)
    BY <1>1, <1>3 DEF Supplies
  <2>2. PICK h \in WritersBelow(p, r) : LastOf(WritersBelow(p, r), h) /\ t = Writer(h)
    BY <1>1, <1>3 DEF Supplies
  <2>3. WritersBelow(p, r) \subseteq Int
    BY DEF WritersBelow
  <2>4. q = h
    BY <2>1, <2>2, <2>3, LastUnique
  <2> QED
    BY <2>1, <2>2, <2>4
<1> QED
  BY <1>2, <1>3

\* A valid link in a chain is at some place of it and waits there.
LEMMA HasLinkIs ==
  ASSUME NEW st \in [Stations -> Station], NEW s \in Stations, NEW i \in 1 .. 2, NEW x \in Stations, NEW k,
         HasLink(st, s, i, x, k)
  PROVE  \E j \in Nat : /\ j \in DOMAIN st[s].odep_list[i] /\ Waits(st, s, i, j)
                        /\ LinkAt(st, s, i, j) = [rs |-> x, tag |-> st[x].tag, opnum |-> k]
                        /\ LinkAt(st, s, i, j).rs = x /\ LinkAt(st, s, i, j).opnum = k
<1>1. PICK j \in DOMAIN st[s].odep_list[i] :
        st[s].odep_list[i][j] = [rs |-> x, tag |-> st[x].tag, opnum |-> k]
  BY DEF HasLink
<1>2. j \in Nat
  BY LinkTyped
<1> QED
  BY <1>1, <1>2 DEF Waits, LinkAt

\* The other links stay, when the first of a chain is taken.
LEMMA TailLinks ==
  ASSUME NEW st \in [Stations -> Station], NEW st2, NEW s \in Stations, NEW i \in 1 .. 2,
         NEW x \in Stations, NEW k, HasLink(st, s, i, x, k), st2[x].tag = st[x].tag,
         st2[s].odep_list[i] = Tail(st[s].odep_list[i]), st[s].odep_list[i] # <<>>,
         st[s].odep_list[i][1] # [rs |-> x, tag |-> st[x].tag, opnum |-> k]
  PROVE  HasLink(st2, s, i, x, k)
<1> DEFINE q == st[s].odep_list[i]
           l == [rs |-> x, tag |-> st[x].tag, opnum |-> k]
<1>1. PICK j \in DOMAIN q : q[j] = l
  BY DEF HasLink
<1>2. q \in Seq(Links_) /\ q # <<>> /\ q[1] # l
  BY ChainOf
<1>3. st2[s].odep_list[i] = Tail(q)
  OBVIOUS
<1> HIDE DEF q, l
<1>4. Len(q) \in Nat \ {0} /\ Len(Tail(q)) = Len(q) - 1 /\ Tail(q) \in Seq(Links_) /\ DOMAIN q = 1 .. Len(q)
      /\ \A h \in DOMAIN Tail(q) : Tail(q)[h] = q[h + 1]
  BY <1>2, SeqParts
<1>5. j \in Nat /\ j # 1 /\ j - 1 \in 1 .. Len(q) - 1 /\ (j - 1) + 1 = j
  BY <1>1, <1>2, <1>4
<1>6. DOMAIN Tail(q) = 1 .. Len(q) - 1
  BY <1>4
<1>7. Tail(q)[j - 1] = l
  BY <1>1, <1>4, <1>5, <1>6
<1> QED
  BY <1>3, <1>5, <1>6, <1>7 DEF HasLink, l

\* A broadcast of ruu_writeback keeps the waiting operands right.
LEMMA WakeWaiting == ASSUME Good, Waiting, Wake PROVE Waiting'
<1>1. /\ WindowKept /\ UNCHANGED cvVars /\ wb' = wb /\ stage = "broadcast"
      /\ RingsTyped /\ Accesses /\ AgensName /\ CvTracks /\ OperandsSettled /\ TypeOK /\ Lists
      /\ LinkInv(rs, InFlight) /\ rs \in [Stations -> Station]
  BY GoodTypes, TypesGive DEF Wake, WindowKept, Waiting
<1>2. wb \in InFlight /\ rs[wb].completed /\ wb \in Stations
  BY <1>1, GoodTypes DEF Broadcasts, InFlight
<1>3. /\ WakeLink.rs \in Stations /\ WakeLink.opnum \in 1 .. 3
      /\ RSLINK_VALID(WakeLink) =>
              /\ WakeLink.rs # wb
              /\ ~ rs[WakeLink.rs].idep_ready[WakeLink.opnum]
              /\ Waits(rs, wb, WakeIndex, 1) /\ WakeLink = LinkAt(rs, wb, WakeIndex, 1)
  BY <1>1, <1>2, WakeConsumer
<1>4. /\ WakeIndex \in 1 .. 2 /\ rs[wb].odep_list[WakeIndex] # <<>>
      /\ WakeLink = rs[wb].odep_list[WakeIndex][1]
  BY <1>1, <1>2, WakeTyped
<1>5. /\ RsTyped /\ TextKept /\ TagsKept
      /\ \A s \in Stations : rs'[s].completed = rs[s].completed
      /\ \A s \in Stations, k \in 1 .. 3 :
              rs'[s].idep_ready[k] <=> \/ rs[s].idep_ready[k]
                                       \/ RSLINK_VALID(WakeLink) /\ s = WakeLink.rs /\ k = WakeLink.opnum
      /\ \A s \in Stations, i \in 1 .. 2 :
              rs'[s].odep_list[i] = IF s = wb /\ i = WakeIndex THEN Tail(rs[s].odep_list[i])
                                    ELSE rs[s].odep_list[i]
  BY <1>1, <1>2, <1>3, WakeEffect
<1>6. /\ code' = code /\ config' = config /\ RUU_head' = RUU_head /\ LSQ_head' = LSQ_head
      /\ RUU_num' = RUU_num /\ RUU_num \in Nat
  BY <1>1 DEF WindowKept, windowVars, RingsTyped
<1>7. Carried(0, RUU_num)
  <2>1. \A s \in InFlight : SameText(rs'[s], rs[s])
    BY <1>5 DEF TextKept, InFlight
  <2> QED
    BY <1>1, <1>5, <1>6, <2>1, CarriedStay DEF RsTyped
<1>8. AgensName' /\ CvTracks'
  <2>1. \A s \in Stations : rs[s].completed => rs'[s].completed
    BY <1>5
  <2>2. UNCHANGED cvVars
    BY <1>1
  <2> QED
    BY <1>1, <1>6, <1>7, <2>1, <2>2, AgensNameKept, CvKept, CvStaysCleared
<1>9. ASSUME NEW p \in 0 .. RUU_num - 1, NEW x \in OpsAt(p + 0), NEW k \in 1 .. 3
      PROVE  Settled(p, x, k)'
  <2>1. p \in Window /\ p + 0 = p /\ p \in Nat
    BY <1>6 DEF Window
  <2>2. x \in Stations /\ x \in OpsAt(p) /\ Settled(p + 0, x, k) /\ Settled(p, x, k)
    <3>1. WriterFacts(p)
      BY <1>1, <2>1, WriterIs
    <3> QED
      BY <1>1, <2>1, <3>1 DEF WriterFacts, OperandsSettled
  <2>3. CASE RSLINK_VALID(WakeLink) /\ x = WakeLink.rs /\ k = WakeLink.opnum
    <3>1. ~ rs[x].idep_ready[k] /\ rs'[x].idep_ready[k]
      BY <1>3, <1>5, <2>2, <2>3
    <3>2. PICK s \in Stations, i \in 1 .. 2 : Supplies(p, x, k, s, i) /\ HasLink(rs, s, i, x, k)
      BY <2>2, <3>1 DEF Settled
    <3>3. PICK j \in Nat : Waits(rs, s, i, j) /\ LinkAt(rs, s, i, j).rs = x /\ LinkAt(rs, s, i, j).opnum = k
      BY <1>1, <2>2, <3>2, HasLinkIs
    <3>4. s = wb
      <4>1. Waits(rs, wb, WakeIndex, 1) /\ LinkAt(rs, wb, WakeIndex, 1).rs = x /\ LinkAt(rs, wb, WakeIndex, 1).opnum = k
        BY <1>3, <2>3
      <4>2. Alone(rs)
        BY <1>1 DEF LinkInv
      <4>3. 1 \in Nat
        OBVIOUS
      <4> QED
        BY <1>2, <1>4, <3>2, <3>3, <4>1, <4>2, <4>3 DEF Alone
    <3>5. ASSUME NEW t \in Stations, NEW h \in 1 .. 2, Supplies(p, x, k, t, h)'
          PROVE  rs'[t].completed
      <4>1. Supplies(p + 0, x, k, t, h)
        BY <1>1, <1>7, <3>5, CarriedSupplies
      <4>2. t = s
        BY <2>1, <3>2, <4>1, OneSupplier
      <4> QED
        BY <1>2, <1>5, <3>4, <4>2
    <3> QED
      BY <1>5, <3>1, <3>5 DEF Settled, RsTyped
  <2>4. CASE ~ (RSLINK_VALID(WakeLink) /\ x = WakeLink.rs /\ k = WakeLink.opnum)
    <3>1. rs'[x].tag = rs[x].tag /\ (rs'[x].idep_ready[k] <=> rs[x].idep_ready[k])
      BY <1>5, <2>2, <2>4 DEF TagsKept
    <3>2. rs'[x].idep_ready[k] = rs[x].idep_ready[k]
      <4>1. rs[x].idep_ready \in [1 .. 3 -> BOOLEAN] /\ rs'[x].idep_ready \in [1 .. 3 -> BOOLEAN]
        BY <1>1, <1>5, <2>2 DEF RsTyped, Station
      <4> QED
        BY <3>1, <4>1
    <3>3. ASSUME NEW s \in Stations, NEW i \in 1 .. 2, HasLink(rs, s, i, x, k)
          PROVE  HasLink(rs', s, i, x, k)
      <4>1. CASE s = wb /\ i = WakeIndex
        <5>1. rs[s].odep_list[i] # <<>> /\ rs[s].odep_list[i][1] = WakeLink
              /\ rs'[s].odep_list[i] = Tail(rs[s].odep_list[i])
          BY <1>4, <1>5, <4>1
        <5>2. WakeLink # [rs |-> x, tag |-> rs[x].tag, opnum |-> k]
          BY <2>4 DEF RSLINK_VALID
        <5> QED
          BY <1>1, <2>2, <3>1, <3>3, <5>1, <5>2, TailLinks
      <4>2. CASE ~ (s = wb /\ i = WakeIndex)
        BY <1>5, <3>1, <3>3, <4>2 DEF HasLink
      <4> QED
        BY <4>1, <4>2
    <3>4. \A s \in Stations, i \in 1 .. 2 :
           ~ rs[x].idep_ready[k] /\ Supplies(p + 0, x, k, s, i) /\ HasLink(rs, s, i, x, k) =>
             HasLink(rs', s, i, x, k) /\ \A h \in 0 .. 0 - 1 : s # Writer(h)
      BY <3>3
    <3>5. \A s \in Stations : rs[s].completed => rs'[s].completed
      BY <1>5
    <3> QED
      BY <1>1, <1>7, <2>2, <3>1, <3>2, <3>4, <3>5, SettledKept
  <2> QED
    BY <2>3, <2>4
<1>10. OperandsSettled'
  BY <1>1, <1>6, <1>7, <1>9, SettledAll
<1> QED
  BY <1>8, <1>10 DEF Waiting

\* An entry tracks the youngest writer as long as the writers stay and completed ones
\* stay completed.
LEMMA TracksStay ==
  ASSUME RingsTyped, Accesses, NEW S, S \subseteq Window, NEW e, NEW e2, Cleared(e, e2), Tracks(e, S),
         \A q \in S : Writer(q)' = Writer(q),
         \A s \in Stations : rs[s].completed => rs'[s].completed
  PROVE  TracksNext(e2, S)
<1>1. Shifted(S, S, 0)
  BY SameShifted
<1>2. \A q \in S : Writer(q)' = Writer(q + 0) /\ q >= 0 /\ Writer(q) \in Stations
  <2>1. TAKE q \in S
  <2>2. q \in Window
    OBVIOUS
  <2>3. WriterFacts(q)
    BY <2>2, WriterIs
  <2>4. q + 0 = q /\ q >= 0
    BY <2>2 DEF Window, RingsTyped
  <2> QED
    BY <2>3, <2>4 DEF WriterFacts
<1>3. \A q \in S : rs[Writer(q)].completed => rs'[Writer(q)].completed
  BY <1>2
<1>4. e2 = e \/ (e2 = CVLINK_NULL /\ e # CVLINK_NULL /\ rs'[e.rs].completed)
  BY DEF Cleared
<1>5. 0 \in Nat /\ \A q \in S : e # CVLINK_NULL /\ e2 # CVLINK_NULL /\ e.rs = Writer(q) => q >= 0
  BY <1>2
<1>6. Tracks(e, S) /\ \A q \in S : Writer(q)' = Writer(q + 0)
  BY <1>2
<1> QED
  BY ONLY <1>1, <1>3, <1>4, <1>5, <1>6, TracksMoved

\* Recovery squashes nothing up to the branch.
LEMMA UpToTheBranch ==
  ASSUME Good, NEW b \in Stations, Recover(b), NEW p \in 0 .. Pos(b), NEW x \in OpsAt(p)
  PROVE  x \in Stations /\ x \notin Squashed(b)
<1>1. /\ RingsTyped /\ Accesses /\ TypeOK /\ Kinds /\ WrongPath /\ Counted
  BY GoodTypes
<1>2. Pos(b) \in Nat /\ Pos(b) < RUU_num /\ RUU_num \in Nat
  BY <1>1, RecoverIs DEF RingsTyped
<1>3. p \in Window /\ p \in Nat /\ p <= Pos(b) /\ p <= RUU_num
  BY <1>2 DEF Window
<1>4. WriterFacts(p)
  BY <1>1, <1>3, WriterIs
<1>5. CASE x = RuuAt(p)
  <2>1. p \in 0 .. RUU_size - 1
    BY <1>1, <1>3, InFlightIs
  <2>2. x[1] = "RUU" /\ Pos(x) = p /\ x \in Stations
    BY <1>1, <1>5, <2>1, Slots
  <2>3. ~ (Pos(x) > Pos(b)) /\ x[1] # "LSQ"
    BY <1>2, <1>3, <2>2
  <2> QED
    BY <2>2, <2>3 DEF Squashed, SquashedRuu, SquashedLsq
<1>6. CASE x # RuuAt(p)
  <2>1. rs[RuuAt(p)].ea_comp /\ x = AccessOf(p) /\ x \in Stations
    BY <1>4, <1>6 DEF WriterFacts
  <2>2. p \in Agens
    <3>1. \A q \in Nat : q \in Agens <=> q < RUU_num /\ rs[RuuAt(q)].ea_comp
      BY <1>1, AgensAre
    <3> QED
      BY ONLY <1>2, <1>3, <2>1, <3>1 DEF Window
  <2>3. x = LsqAt(RankIn(Agens, p)) /\ RankIn(Agens, p) \in Nat
    BY <1>1, <1>2, <1>3, <2>1, AccessIs DEF Window
  <2>4. RankIn(Agens, p) \in 0 .. LSQ_num - 1
    BY <1>1, <2>2, AccessPlace
  <2>5. RankIn(Agens, p) \in 0 .. LSQ_size - 1
    BY <1>1, <2>4, InFlightIs
  <2>6. x[1] = "LSQ" /\ Pos(x) = RankIn(Agens, p)
    BY <1>1, <2>3, <2>5, Slots
  <2>7. RankIn(Agens, p) < RankIn(Agens, Pos(b) + 1)
    <3>1. Agens \subseteq Nat /\ Pos(b) + 1 \in Nat /\ p < Pos(b) + 1
      BY <1>1, <1>2, <1>3, AgensAre
    <3> QED
      BY <2>2, <3>1, RankStrict
  <2>8. LSQ_num - SquashedMem(b) = RankIn(Agens, Pos(b) + 1) /\ RankIn(Agens, Pos(b) + 1) \in Nat
    BY <1>1, RecoverNumbers
  <2>9. ~ (Pos(x) >= LSQ_num - SquashedMem(b)) /\ x[1] # "RUU"
    BY <2>3, <2>6, <2>7, <2>8
  <2> QED
    BY <2>1, <2>9 DEF Squashed, SquashedRuu, SquashedLsq
<1> QED
  BY <1>5, <1>6

\* ruu_recover keeps the waiting operands right.
LEMMA RecoverWaiting == ASSUME Good, Waiting, NEW b \in Stations, Recover(b) PROVE Waiting'
<1>1. /\ RingsTyped /\ Accesses /\ TypeOK /\ Kinds /\ WrongPath /\ Counted
      /\ AgensName /\ CvTracks /\ OperandsSettled /\ rs \in [Stations -> Station]
  BY GoodTypes, TypesGive DEF Waiting
<1>2. PICK m : m = Pos(b) + 1
  OBVIOUS
<1>3. /\ Pos(b) \in Nat /\ m \in Nat /\ m <= RUU_num /\ RUU_num \in Nat
      /\ \A p \in Window : rs[RuuAt(p)].spec_mode <=> p > Pos(b)
  BY <1>1, <1>2, RecoverIs DEF RingsTyped
<1>4. /\ RUU_num' = m /\ RUU_head' = RUU_head /\ LSQ_head' = LSQ_head /\ code' = code /\ config' = config
      /\ b \notin Squashed(b)
  BY <1>1, <1>2, RecoverNumbers, RecoverWindow
<1>5. /\ RsTyped /\ TextKept
      /\ \A s \in Stations :
           /\ (rs'[s].completed <=> rs[s].completed \/ (s = b /\ s \notin Squashed(b)))
           /\ rs'[s].idep_ready = rs[s].idep_ready
           /\ rs'[s].tag = IF s \in Squashed(b) THEN rs[s].tag + 1 ELSE rs[s].tag
      /\ \A s \in Stations, i \in 1 .. 2 :
           rs'[s].odep_list[i] = IF s \in Squashed(b) THEN <<>> ELSE rs[s].odep_list[i]
  BY <1>1, RecoverEffect
<1>6. Carried(0, m)
  <2>1. \A s \in InFlight : SameText(rs'[s], rs[s])
    BY <1>5 DEF TextKept, InFlight
  <2> QED
    BY <1>1, <1>3, <1>4, <1>5, <2>1, CarriedStay
<1>7. AgensName'
  BY <1>1, <1>4, <1>6, AgensNameKept
<1>8. /\ use_spec_cv' = {}
      /\ create_vector' = IF rs[b].spec_mode THEN create_vector ELSE WithoutCreator(create_vector, b)
  BY DEF Recover
<1>9. CvTracks'
  <2>1. ASSUME NEW r \in Regs \ {DTMP}
        PROVE  /\ TracksNext(create_vector'[r], StraightWriters(r)')
               /\ r \in use_spec_cv' <=> AstrayWriters(r)' # {}
               /\ r \in use_spec_cv' => TracksNext(spec_create_vector'[r], AstrayWriters(r)')
    <3>1. Window' = 0 .. m - 1 /\ Window = 0 .. RUU_num - 1
      BY <1>4 DEF Window
    <3>2. \A q \in 0 .. m - 1 : /\ q \in Window /\ q + 0 = q
                                /\ q <= Pos(b)
      BY <1>2, <1>3, <3>1
    <3>3. \A q \in Window : q \in 0 .. m - 1 <=> ~ rs[RuuAt(q)].spec_mode
      BY <1>2, <1>3, <3>1
    <3>4. \A q \in 0 .. m - 1 : /\ Writes(q, r)' <=> Writes(q, r)
                                /\ rs'[RuuAt(q)'].spec_mode = rs[RuuAt(q)].spec_mode
                                /\ ~ rs[RuuAt(q)].spec_mode
                                /\ Writer(q)' = Writer(q)
      BY <1>1, <1>6, <3>2, <3>3, CarriedWrites DEF Carried
    <3>5. StraightWriters(r)' = StraightWriters(r)
      BY <3>1, <3>2, <3>3, <3>4 DEF StraightWriters
    <3>6. AstrayWriters(r)' = {}
      BY <3>1, <3>4 DEF AstrayWriters
    <3>7. Cleared(create_vector[r], create_vector'[r])
      <4>1. rs'[b].completed
        BY <1>4, <1>5
      <4>2. Cleared(create_vector[r], WithoutCreator(create_vector, b)[r])
        BY <4>1, ClearedBy
      <4> QED
        BY <1>8, <4>2 DEF Cleared
    <3>8. TracksNext(create_vector'[r], StraightWriters(r))
      <4>1. Tracks(create_vector[r], StraightWriters(r)) /\ StraightWriters(r) \subseteq Window
        BY <1>1 DEF CvTracks, StraightWriters
      <4>2. \A q \in StraightWriters(r) : Writer(q)' = Writer(q)
        BY <3>3, <3>4, <4>1 DEF StraightWriters
      <4>3. \A s \in Stations : rs[s].completed => rs'[s].completed
        BY <1>5
      <4> QED
        BY <1>1, <3>7, <4>1, <4>2, <4>3, TracksStay
    <3> QED
      BY <1>8, <3>5, <3>6, <3>8
  <2>2. Regs' = Regs
    BY DEF Regs
  <2> QED
    BY <2>1, <2>2, TracksThen
<1>10. ASSUME NEW p \in 0 .. m - 1, NEW x \in OpsAt(p + 0), NEW k \in 1 .. 3
       PROVE  Settled(p, x, k)'
  <2>1. p \in 0 .. Pos(b) /\ p \in Window /\ p + 0 = p
    BY <1>2, <1>3 DEF Window
  <2>2. x \in OpsAt(p) /\ x \in Stations /\ x \notin Squashed(b) /\ Settled(p + 0, x, k)
    BY <1>1, <2>1, UpToTheBranch DEF OperandsSettled
  <2>3. rs'[x].tag = rs[x].tag /\ rs'[x].idep_ready[k] = rs[x].idep_ready[k]
    BY <1>5, <2>2
  <2>4. ASSUME NEW s \in Stations, NEW i \in 1 .. 2, Supplies(p + 0, x, k, s, i), HasLink(rs, s, i, x, k)
        PROVE  HasLink(rs', s, i, x, k)
    <3>1. PICK q \in Window : q <= p /\ s \in OpsAt(q)
      BY <1>1, <2>1, <2>2, <2>4, SuppliersAre
    <3>2. q \in 0 .. Pos(b)
      BY <1>3, <2>1, <3>1 DEF Window
    <3>3. s \notin Squashed(b)
      BY <3>1, <3>2, UpToTheBranch
    <3>4. rs'[s].odep_list[i] = rs[s].odep_list[i]
      BY <1>5, <3>3
    <3> QED
      BY <2>3, <2>4, <3>4 DEF HasLink
  <2>5. \A s \in Stations, i \in 1 .. 2 :
           ~ rs[x].idep_ready[k] /\ Supplies(p + 0, x, k, s, i) /\ HasLink(rs, s, i, x, k) =>
             HasLink(rs', s, i, x, k) /\ \A h \in 0 .. 0 - 1 : s # Writer(h)
    BY <2>4
  <2>6. \A s \in Stations : rs[s].completed => rs'[s].completed
    BY <1>5
  <2> QED
    BY <1>1, <1>6, <2>2, <2>3, <2>5, <2>6, SettledKept
<1>11. OperandsSettled'
  BY <1>1, <1>4, <1>6, <1>10, SettledAll
<1> QED
  BY <1>7, <1>9, <1>11 DEF Waiting

\* The entries move one place towards the head when it retires.
LEMMA CommitCarries ==
  ASSUME Good, Commit
  PROVE  Carried(1, RUU_num - 1)
<1>1. /\ RingsTyped /\ Accesses /\ TypeOK
      /\ RsTyped /\ TextKept /\ code' = code
      /\ RUU_num \in Nat /\ LSQ_num \in Nat /\ RUU_num > 0 /\ RUU_num' = RUU_num - 1 /\ RUU_num' \in Nat
      /\ (Mem <=> 0 \in Agens) /\ Mem \in BOOLEAN
  BY GoodTypes, CommitEffect, CommitNumbers
<1>2. /\ \A p \in 0 .. RUU_size - 1 : RuuAt(p)' = RuuAt(p + 1)
      /\ \A p \in 0 .. LSQ_size - 1 : LsqAt(p)' = LsqAt(p + One(Mem))
  BY <1>1, CommitWindow
<1>3. RUU_num <= RUU_size /\ RUU_size \in Nat /\ LSQ_num <= LSQ_size /\ LSQ_size \in Nat
  BY <1>1, SizeType DEF RingsTyped
<1>4. ASSUME NEW p \in Nat, p < RUU_num - 1
      PROVE  /\ p + 1 \in Window /\ p + 1 \in Nat /\ p + 1 <= RUU_num
             /\ RuuAt(p)' = RuuAt(p + 1) /\ SameText(rs'[RuuAt(p + 1)], rs[RuuAt(p + 1)])
             /\ rs'[RuuAt(p)'].ea_comp = rs[RuuAt(p + 1)].ea_comp
  <2>1. p \in 0 .. RUU_size - 1 /\ p + 1 \in Window /\ p + 1 \in Nat /\ p + 1 <= RUU_num
    BY <1>1, <1>3, <1>4 DEF Window
  <2>2. RuuAt(p)' = RuuAt(p + 1) /\ RuuAt(p + 1) \in Stations
    BY <1>1, <1>2, <2>1, InFlightIs
  <2>3. SameText(rs'[RuuAt(p + 1)], rs[RuuAt(p + 1)])
    BY <1>1, <2>2 DEF TextKept
  <2> QED
    BY <2>1, <2>2, <2>3 DEF SameText
<1>5. PICK B : B = Agens'
  OBVIOUS
<1>6. /\ B \subseteq Nat /\ Agens \subseteq Nat
      /\ \A p \in Nat : p \in B <=> p < RUU_num - 1 /\ rs'[RuuAt(p)'].ea_comp
      /\ \A p \in Nat : p \in Agens <=> p < RUU_num /\ rs[RuuAt(p)].ea_comp
  BY <1>1, <1>5, AgensNext, AgensAre
<1>7. \A p \in Nat : p \in B <=> p + 1 \in Agens
  <2>1. TAKE p \in Nat
  <2>2. p + 1 \in Nat /\ (p + 1 < RUU_num <=> p < RUU_num - 1)
    BY <1>1
  <2> QED
    BY <1>4, <1>6, <2>2
<1>8. ASSUME NEW q \in 0 .. (RUU_num - 1) - 1
      PROVE  /\ RuuAt(q)' = RuuAt(q + 1) /\ Writer(q)' = Writer(q + 1) /\ OpsAt(q)' = OpsAt(q + 1)
             /\ SameText(rs'[RuuAt(q + 1)], rs[RuuAt(q + 1)])
             /\ SameText(rs'[Writer(q + 1)], rs[Writer(q + 1)])
  <2>1. /\ q \in Nat /\ q < RUU_num - 1 /\ q + 1 \in Window /\ q + 1 \in Nat /\ q + 1 <= RUU_num
        /\ RuuAt(q)' = RuuAt(q + 1) /\ SameText(rs'[RuuAt(q + 1)], rs[RuuAt(q + 1)])
        /\ rs'[RuuAt(q)'].ea_comp = rs[RuuAt(q + 1)].ea_comp
    BY <1>1, <1>4
  <2>2. WriterFacts(q + 1)
    BY <1>1, <2>1, WriterIs
  <2>3. SameText(rs'[Writer(q + 1)], rs[Writer(q + 1)])
    BY <1>1, <2>2 DEF WriterFacts, TextKept
  <2>4. {h \in 0 .. q - 1 : rs'[RuuAt(h)'].ea_comp} = Below(B, q)
    <3>1. \A h : h \in Below(B, q) <=> h \in B /\ h \in Nat /\ h < q
      BY <1>6, <2>1, BelowIs
    <3>2. \A h : h \in 0 .. q - 1 <=> h \in Nat /\ h < q
      BY <2>1
    <3>3. \A h \in Nat : h < q => (h \in B <=> rs'[RuuAt(h)'].ea_comp)
      BY <1>1, <1>6, <2>1
    <3> QED
      BY <3>1, <3>2, <3>3
  <2>5. PICK k : k = RankIn(B, q)
    OBVIOUS
  <2>6. AccessOf(q)' = LsqAt(k)'
    BY <2>4, <2>5 DEF AccessOf, LsqAt, RankIn
  <2>7. ASSUME rs[RuuAt(q + 1)].ea_comp PROVE AccessOf(q)' = AccessOf(q + 1)
    <3>1. q + 1 \in Agens
      BY <1>6, <2>1, <2>7, <1>1 DEF Window
    <3>2. RankIn(Agens, q + 1) \in 0 .. LSQ_num - 1
      BY <1>1, <3>1, AccessPlace
    <3>3. k = RankIn(Agens, q + 1) - One(0 \in Agens) /\ k \in Nat
      BY <1>6, <1>7, <2>1, <2>5, RankShift, BelowFinite
    <3>4. One(0 \in Agens) = One(Mem) /\ One(Mem) \in 0 .. 1
      BY <1>1 DEF One
    <3>5. k \in 0 .. LSQ_size - 1 /\ k + One(Mem) = RankIn(Agens, q + 1)
      BY <1>1, <1>3, <3>2, <3>3, <3>4
    <3>6. LsqAt(k)' = LsqAt(RankIn(Agens, q + 1))
      BY <1>2, <3>5
    <3>7. AccessOf(q + 1) = LsqAt(RankIn(Agens, q + 1))
      BY <1>1, <2>1, AccessIs
    <3> QED
      BY <2>6, <3>6, <3>7
  <2>8. Writer(q)' = Writer(q + 1)
    BY <2>1, <2>7 DEF Writer
  <2>9. OpsAt(q)' = OpsAt(q + 1)
    BY <2>1, <2>7 DEF OpsAt
  <2> QED
    BY <2>1, <2>3, <2>8, <2>9
<1>9. 1 \in Nat /\ RUU_num - 1 \in Nat /\ (RUU_num - 1) + 1 <= RUU_num /\ Stations' = Stations
  BY <1>1 DEF RsTyped
<1> QED
  BY <1>1, <1>8, <1>9 DEF Carried

\* The instruction that retires is complete, of the correct path, and nothing waits for it.
LEMMA CommitHead ==
  ASSUME Deep, Commit
  PROVE  /\ 0 \in Window /\ ~ rs[RuuAt(0)].spec_mode
         /\ Writer(0) \in Stations /\ rs[Writer(0)].completed
         /\ \A i \in 1 .. 2 : rs[Writer(0)].odep_list[i] = <<>>
         /\ \A p \in Window : \A x : p >= 1 /\ x \in OpsAt(p) => x \in Stations /\ x \notin Gone
<1>1. /\ Good /\ RingsTyped /\ Accesses /\ TypeOK /\ WrongPath /\ ChainsEnd /\ CvLive
  BY GoodTypes DEF Deep
<1>2. RUU_num \in Nat /\ RUU_num > 0 /\ (Mem <=> 0 \in Agens)
  BY <1>1, CommitNumbers
<1>3. 0 \in Window /\ RuuAt(0) = RuuHead /\ LsqAt(0) = LsqHead
  BY <1>1, <1>2, Slots DEF Window
<1>4. rs[RuuHead].completed /\ (rs[RuuHead].ea_comp => rs[LsqHead].completed) /\ stage = "commit"
  BY DEF Commit, CanCommit
<1>5. WriterFacts(0)
  BY <1>1, <1>3, WriterIs
<1>6. rs[RuuHead].ea_comp => Writer(0) = LsqHead
  <2>1. AccessOf(0) = LsqAt(RankIn(Agens, 0))
    BY <1>1, <1>2, AccessIs
  <2>2. RankIn(Agens, 0) = 0
    BY <1>1, AgensAre, RankZero
  <2> QED
    BY <1>3, <2>1, <2>2 DEF Writer
<1>7. Writer(0) \in Stations /\ rs[Writer(0)].completed
  BY <1>3, <1>4, <1>5, <1>6 DEF WriterFacts
<1>8. \A i \in 1 .. 2 : rs[Writer(0)].odep_list[i] = <<>>
  <2>1. \A s \in Stations : s # wb
    BY <1>1, <1>4, StageWb
  <2> QED
    BY <1>1, <1>7, <2>1 DEF ChainsEnd
<1>9. ~ rs[RuuAt(0)].spec_mode
  <2>1. CASE spec_mode
    <3>1. PICK b \in Nat : b \in Branches
      BY <1>1, <2>1 DEF WrongPath
    <3>2. rs[RuuAt(0)].spec_mode <=> 0 > b
      BY <1>1, <1>3, <3>1 DEF WrongPath
    <3> QED
      BY <3>1, <3>2
  <2>2. CASE ~ spec_mode
    BY <1>1, <1>3, <2>2 DEF WrongPath
  <2> QED
    BY <2>1, <2>2
<1>10. ASSUME NEW p \in Window, NEW x, p >= 1, x \in OpsAt(p)
       PROVE  x \in Stations /\ x \notin Gone
  <2>1. WriterFacts(p)
    BY <1>1, WriterIs
  <2>2. p \in 0 .. RUU_size - 1 /\ 0 \in 0 .. RUU_size - 1 /\ p \in Nat /\ p # 0
    BY <1>1, <1>2, <1>3, <1>10, InFlightIs DEF Window
  <2>3. CASE x = RuuAt(p)
    <3>1. x[1] = "RUU" /\ Pos(x) = p /\ Pos(RuuHead) = 0 /\ LsqHead[1] = "LSQ" /\ x \in Stations
      BY <1>1, <1>3, <2>1, <2>2, <2>3, Slots DEF LsqHead
    <3> QED
      BY <2>2, <3>1 DEF Gone
  <2>4. CASE x # RuuAt(p)
    <3>1. rs[RuuAt(p)].ea_comp /\ x = AccessOf(p) /\ x \in Stations
      BY <1>10, <2>1, <2>4 DEF WriterFacts
    <3>2. p \in Agens
      <4>1. \A q \in Nat : q \in Agens <=> q < RUU_num /\ rs[RuuAt(q)].ea_comp
        BY <1>1, AgensAre
      <4> QED
        BY ONLY <1>2, <2>2, <3>1, <4>1, p \in Window DEF Window
    <3>3. x = LsqAt(RankIn(Agens, p)) /\ RankIn(Agens, p) \in 0 .. LSQ_num - 1
      BY <1>1, <3>1, <3>2, AccessIs, AccessPlace, AgensAre
    <3>4. RankIn(Agens, p) \in 0 .. LSQ_size - 1
      BY <1>1, <3>3, InFlightIs
    <3>5. x[1] = "LSQ" /\ Pos(x) = RankIn(Agens, p)
      BY <1>1, <3>3, <3>4, Slots
    <3>6. Mem => RankIn(Agens, p) # 0
      <4>1. ASSUME Mem PROVE RankIn(Agens, 0) < RankIn(Agens, p)
        <5>1. Agens \subseteq Nat /\ 0 \in Agens /\ 0 < p
          BY <1>1, <1>2, <2>2, <4>1, AgensAre
        <5> QED
          BY <2>2, <5>1, RankStrict
      <4>2. RankIn(Agens, 0) = 0
        BY <1>1, AgensAre, RankZero
      <4> QED
        BY <4>1, <4>2
    <3>7. x # RuuHead
      BY <3>5 DEF RuuHead
    <3>8. Mem => Pos(LsqHead) = 0
      <4>1. ASSUME Mem PROVE 0 \in 0 .. LSQ_size - 1
        BY <1>1, SizeType DEF RingsTyped
      <4> QED
        BY <1>1, <1>3, <4>1, Slots
    <3>9. Mem => x # LsqHead
      BY <3>5, <3>6, <3>8
    <3> QED
      BY <3>1, <3>7, <3>9 DEF Gone, Mem
  <2> QED
    BY <2>3, <2>4
<1> QED
  BY <1>3, <1>7, <1>8, <1>9, <1>10

\* The writers of both paths, one place nearer to the head.
LEMMA CommitWriters ==
  ASSUME Deep, Commit, NEW r
  PROVE  /\ Shifted(StraightWriters(r), StraightWriters(r)', 1)
         /\ Shifted(AstrayWriters(r), AstrayWriters(r)', 1)
         /\ AstrayWriters(r)' = {} <=> AstrayWriters(r) = {}
         /\ \A q \in StraightWriters(r)' \cup AstrayWriters(r)' : Writer(q)' = Writer(q + 1)
         /\ StraightWriters(r) \subseteq Window /\ AstrayWriters(r) \subseteq Window
         /\ 0 \notin AstrayWriters(r)
<1>1. /\ RingsTyped /\ Accesses /\ Good /\ TypeOK
      /\ Carried(1, RUU_num - 1)
  BY GoodTypes, CommitCarries DEF Deep
<1>2. RUU_num \in Nat /\ RUU_num > 0 /\ RUU_num' = RUU_num - 1
  BY <1>1, CommitNumbers
<1>3. Window = 0 .. RUU_num - 1 /\ Window' = 0 .. (RUU_num - 1) - 1
  BY <1>2 DEF Window
<1>4. \A q \in 0 .. (RUU_num - 1) - 1 :
        /\ Writes(q, r)' <=> Writes(q + 1, r)
        /\ rs'[RuuAt(q)'].spec_mode = rs[RuuAt(q + 1)].spec_mode
        /\ Writer(q)' = Writer(q + 1)
  BY <1>1, CarriedWrites DEF Carried
<1>5. \A q \in Int : q \in 0 .. (RUU_num - 1) - 1 <=> q >= 0 /\ q + 1 \in Window
  BY <1>2, <1>3
<1>6. \A q : /\ q \in StraightWriters(r)' <=> q \in Window' /\ ~ rs'[RuuAt(q)'].spec_mode /\ Writes(q, r)'
             /\ q \in AstrayWriters(r)' <=> q \in Window' /\ rs'[RuuAt(q)'].spec_mode /\ Writes(q, r)'
             /\ q \in StraightWriters(r) <=> q \in Window /\ ~ rs[RuuAt(q)].spec_mode /\ Writes(q, r)
             /\ q \in AstrayWriters(r) <=> q \in Window /\ rs[RuuAt(q)].spec_mode /\ Writes(q, r)
  BY DEF StraightWriters, AstrayWriters
<1>7. \A q \in Int : /\ q \in StraightWriters(r)' <=> q >= 0 /\ q + 1 \in StraightWriters(r)
                     /\ q \in AstrayWriters(r)' <=> q >= 0 /\ q + 1 \in AstrayWriters(r)
  BY <1>3, <1>4, <1>5, <1>6
<1>8. /\ StraightWriters(r) \subseteq Int /\ AstrayWriters(r) \subseteq Int
      /\ StraightWriters(r)' \subseteq Int /\ AstrayWriters(r)' \subseteq Int
  BY <1>2, <1>3, <1>6
<1>9. 0 \notin AstrayWriters(r)
  BY <1>6, CommitHead
<1>10. AstrayWriters(r)' = {} <=> AstrayWriters(r) = {}
  <2>1. ASSUME NEW q \in AstrayWriters(r) PROVE q - 1 \in AstrayWriters(r)'
    <3>1. q \in Window /\ q # 0
      BY <1>6, <1>9, <2>1
    <3>2. q - 1 \in Int /\ q - 1 >= 0 /\ (q - 1) + 1 = q
      BY <1>2, <1>3, <3>1
    <3> QED
      BY <1>7, <2>1, <3>2
  <2>2. ASSUME NEW q \in AstrayWriters(r)' PROVE q + 1 \in AstrayWriters(r)
    BY <1>7, <1>8, <2>2
  <2> QED
    BY <2>1, <2>2
<1> QED
  BY <1>3, <1>4, <1>6, <1>7, <1>8, <1>9, <1>10 DEF Shifted

\* ruu_commit keeps the create vectors tracking the youngest writers: the head it
\* retires has completed and is tracked by no entry.
LEMMA CommitTracks ==
  ASSUME Deep, CvTracks, Commit
  PROVE  CvTracks'
<1>1. /\ RingsTyped /\ Accesses /\ Good /\ TypeOK /\ CvTypes /\ CvLive /\ UNCHANGED cvVars
      /\ RsTyped /\ StateKept
  BY GoodTypes, CommitEffect DEF Deep, Commit
<1>2. /\ create_vector' = create_vector /\ spec_create_vector' = spec_create_vector /\ use_spec_cv' = use_spec_cv
  BY <1>1 DEF cvVars
<1>3. Writer(0) \in Stations /\ rs[Writer(0)].completed
  BY CommitHead
<1>4. ASSUME NEW e, NEW S, NEW T, S \subseteq Window, Shifted(S, T, 1), Tracks(e, S),
             \A q \in T : Writer(q)' = Writer(q + 1), e # CVLINK_NULL => ~ rs[e.rs].completed
      PROVE  TracksNext(e, T)
  <2>1. ASSUME NEW q \in S PROVE q \in Int /\ q >= 0 /\ Writer(q) \in Stations
    <3>1. q \in Window
      BY <1>4, <2>1
    <3>2. WriterFacts(q)
      BY <1>1, <3>1, WriterIs
    <3> QED
      BY <3>2 DEF WriterFacts
  <2>2. \A q \in S : rs[Writer(q)].completed => rs'[Writer(q)].completed
    BY <1>1, <2>1 DEF StateKept, SameState
  <2>3. \A q \in S : e # CVLINK_NULL /\ e # CVLINK_NULL /\ e.rs = Writer(q) => q >= 1
    <3>1. TAKE q \in S
    <3>2. q # 0 => q >= 1
      BY <2>1
    <3> QED
      BY <1>3, <1>4, <3>2
  <2>4. 1 \in Nat /\ (e = e \/ (e = CVLINK_NULL /\ e # CVLINK_NULL /\ rs'[e.rs].completed))
    OBVIOUS
  <2>5. Tracks(e, S) /\ Shifted(S, T, 1) /\ \A q \in T : Writer(q)' = Writer(q + 1)
    BY <1>4
  <2> QED
    BY ONLY <2>2, <2>3, <2>4, <2>5, TracksMoved
<1>5. ASSUME NEW r \in Regs \ {DTMP}
      PROVE  /\ TracksNext(create_vector'[r], StraightWriters(r)')
             /\ r \in use_spec_cv' <=> AstrayWriters(r)' # {}
             /\ r \in use_spec_cv' => TracksNext(spec_create_vector'[r], AstrayWriters(r)')
  <2>1. /\ Shifted(StraightWriters(r), StraightWriters(r)', 1)
        /\ Shifted(AstrayWriters(r), AstrayWriters(r)', 1)
        /\ AstrayWriters(r)' = {} <=> AstrayWriters(r) = {}
        /\ \A q \in StraightWriters(r)' \cup AstrayWriters(r)' : Writer(q)' = Writer(q + 1)
        /\ StraightWriters(r) \subseteq Window /\ AstrayWriters(r) \subseteq Window
    BY CommitWriters
  <2>2. /\ Tracks(create_vector[r], StraightWriters(r))
        /\ r \in use_spec_cv <=> AstrayWriters(r) # {}
        /\ r \in use_spec_cv => Tracks(spec_create_vector[r], AstrayWriters(r))
    BY DEF CvTracks
  <2>3. /\ create_vector[r] # CVLINK_NULL => ~ rs[create_vector[r].rs].completed
        /\ r \in use_spec_cv /\ spec_create_vector[r] # CVLINK_NULL => ~ rs[spec_create_vector[r].rs].completed
    BY <1>1 DEF CvLive, Creates
  <2>4. TracksNext(create_vector[r], StraightWriters(r)')
    BY <1>4, <2>1, <2>2, <2>3
  <2>5. r \in use_spec_cv => TracksNext(spec_create_vector[r], AstrayWriters(r)')
    BY <1>4, <2>1, <2>2, <2>3
  <2> QED
    BY <1>2, <2>1, <2>2, <2>4, <2>5
<1>6. Regs' = Regs
  BY DEF Regs
<1> QED
  BY <1>5, <1>6, TracksThen

\* ruu_commit keeps the waiting operands right.
LEMMA CommitWaiting == ASSUME Deep, Waiting, Commit PROVE Waiting'
<1>1. /\ RingsTyped /\ Accesses /\ Good /\ TypeOK
      /\ AgensName /\ CvTracks /\ OperandsSettled
      /\ Carried(1, RUU_num - 1)
      /\ RsTyped /\ StateKept /\ ChainsKept
      /\ \A s \in Stations : rs'[s].tag = IF s \in Gone THEN rs[s].tag + 1 ELSE rs[s].tag
  BY GoodTypes, CommitCarries, CommitEffect DEF Deep, Waiting
<1>2. RUU_num \in Nat /\ RUU_num > 0 /\ RUU_num' = RUU_num - 1
  BY <1>1, CommitNumbers
<1>3. AgensName' /\ CvTracks'
  BY <1>1, <1>2, AgensNameKept, CommitTracks
<1>4. PICK m : m = RUU_num - 1
  OBVIOUS
<1>5. ASSUME NEW p \in 0 .. m - 1, NEW x \in OpsAt(p + 1), NEW k \in 1 .. 3
      PROVE  Settled(p, x, k)'
  <2>1. p + 1 \in Window /\ p + 1 >= 1 /\ p \in 0 .. (RUU_num - 1) - 1
    BY <1>2, <1>4 DEF Window
  <2>2. x \in Stations /\ x \notin Gone /\ Settled(p + 1, x, k)
    BY <1>1, <2>1, CommitHead DEF OperandsSettled
  <2>3. rs'[x].tag = rs[x].tag /\ rs'[x].idep_ready[k] = rs[x].idep_ready[k]
    BY <1>1, <2>2 DEF ChainsKept, SameChains
  <2>4. ASSUME NEW s \in Stations, NEW i \in 1 .. 2, HasLink(rs, s, i, x, k)
        PROVE  HasLink(rs', s, i, x, k) /\ \A h \in 0 .. 1 - 1 : s # Writer(h)
    <3>1. rs'[s].odep_list[i] = rs[s].odep_list[i]
      BY <1>1 DEF ChainsKept, SameChains
    <3>2. HasLink(rs', s, i, x, k)
      BY <2>3, <2>4, <3>1 DEF HasLink
    <3>3. s # Writer(0)
      <4>1. \A j \in 1 .. 2 : rs[Writer(0)].odep_list[j] = <<>>
        BY CommitHead
      <4> QED
        BY <2>4, <4>1 DEF HasLink
    <3>4. \A h \in 0 .. 1 - 1 : h = 0
      OBVIOUS
    <3> QED
      BY <3>2, <3>3, <3>4
  <2>5. \A s \in Stations : rs[s].completed => rs'[s].completed
    BY <1>1 DEF StateKept, SameState
  <2> QED
    BY <1>1, <2>1, <2>2, <2>3, <2>4, <2>5, SettledKept
<1>6. OperandsSettled'
  BY <1>1, <1>2, <1>4, <1>5, SettledAll
<1> QED
  BY <1>3, <1>6 DEF Waiting

-----------------------------------------------------------------------------
\* What a dispatch does to the dependences.

\* No link is taken off its chain.
KeepsLinks(st, st2) ==
  \A s, x \in Stations, i \in 1 .. 2, k \in 1 .. 3 : HasLink(st, s, i, x, k) => HasLink(st2, s, i, x, k)

\* With tags and chains kept, every valid link is kept.
LEMMA ChainsKeepLinks ==
  ASSUME NEW st, NEW st2, \A s \in Stations : st2[s].tag = st[s].tag,
         \A s \in Stations, i \in 1 .. 2 : st2[s].odep_list[i] = st[s].odep_list[i]
  PROVE  KeepsLinks(st, st2)
BY DEF KeepsLinks, HasLink

\* Keeping links twice keeps them.
LEMMA KeepsTwice ==
  ASSUME NEW st, NEW st2, NEW st3, KeepsLinks(st, st2), KeepsLinks(st2, st3)
  PROVE  KeepsLinks(st, st3)
BY DEF KeepsLinks

\* A station without consumers may be filled in.
LEMMA ReplacedKeeps ==
  ASSUME NEW st \in [Stations -> Station], NEW x \in Stations, NEW a \in Station, a.tag = st[x].tag,
         \A i \in 1 .. 2 : st[x].odep_list[i] = <<>>,
         NEW st2, st2[x] = a, \A s \in Stations : s # x => st2[s] = st[s]
  PROVE  KeepsLinks(st, st2)
<1>1. \A s \in Stations : st2[s].tag = st[s].tag
  OBVIOUS
<1>2. SUFFICES ASSUME NEW s \in Stations, NEW y \in Stations, NEW i \in 1 .. 2, NEW k \in 1 .. 3,
                      HasLink(st, s, i, y, k)
               PROVE  HasLink(st2, s, i, y, k)
  BY DEF KeepsLinks
<1>3. s # x
  BY <1>2 DEF HasLink
<1> QED
  BY <1>1, <1>2, <1>3 DEF HasLink

\* ruu_link_idep puts a link in front of the chain of the creator.
LEMMA LinkKeeps ==
  ASSUME NEW st \in [Stations -> Station], NEW x \in Stations, NEW k \in 1 .. 3, NEW c \in CvEntry,
         NEW st2, Linked(st, st2, x, k, c), st[x].tag = rs[x].tag
  PROVE  /\ KeepsLinks(st, st2)
         /\ c # CVLINK_NULL => HasLink(st2, c.rs, c.odep, x, k)
<1> DEFINE e == [rs |-> x, tag |-> rs[x].tag, opnum |-> k]
<1>1. \A s \in Stations : st2[s].tag = st[s].tag
  BY DEF Linked
<1>2. \A s \in Stations, i \in 1 .. 2 :
        st2[s].odep_list[i] = IF c # CVLINK_NULL /\ s = c.rs /\ i = c.odep
                              THEN <<e>> \o st[s].odep_list[i] ELSE st[s].odep_list[i]
  BY DEF Linked
<1>3. e \in Links_
  <2>1. st[x].tag \in Nat
    BY DEF Station
  <2> QED
    BY <2>1 DEF Links_
<1>4. \A s \in Stations, i \in 1 .. 2 : st[s].odep_list[i] \in Seq(Links_)
  BY DEF Station
<1>5. ASSUME NEW s \in Stations, NEW y \in Stations, NEW i \in 1 .. 2, NEW m \in 1 .. 3,
             HasLink(st, s, i, y, m)
      PROVE  HasLink(st2, s, i, y, m)
  <2>1. PICK q : q = st[s].odep_list[i]
    OBVIOUS
  <2>2. q \in Seq(Links_)
    BY <1>4, <2>1
  <2>3. PICK j \in DOMAIN q : q[j] = [rs |-> y, tag |-> st[y].tag, opnum |-> m]
    BY <1>5, <2>1 DEF HasLink
  <2>4. CASE c # CVLINK_NULL /\ s = c.rs /\ i = c.odep
    <3>1. st2[s].odep_list[i] = <<e>> \o q
      BY <1>2, <2>1, <2>4
    <3>2. /\ DOMAIN (<<e>> \o q) = 1 .. Len(q) + 1 /\ Len(q) \in Nat /\ DOMAIN q = 1 .. Len(q)
          /\ \A h \in 2 .. Len(q) + 1 : (<<e>> \o q)[h] = q[h - 1]
      BY ONLY <2>2, <1>3, ConsAt
    <3>3. j + 1 \in 2 .. Len(q) + 1 /\ j + 1 \in 1 .. Len(q) + 1 /\ (j + 1) - 1 = j
      BY <2>3, <3>2
    <3>4. (<<e>> \o q)[j + 1] = q[j] /\ j + 1 \in DOMAIN (<<e>> \o q)
      BY <3>2, <3>3
    <3> HIDE DEF e
    <3> QED
      BY <1>1, <2>3, <3>1, <3>4 DEF HasLink
  <2>5. CASE ~ (c # CVLINK_NULL /\ s = c.rs /\ i = c.odep)
    <3>1. st2[s].odep_list[i] = q
      BY <1>2, <2>1, <2>5
    <3> QED
      BY <1>1, <2>3, <3>1 DEF HasLink
  <2> QED
    BY <2>4, <2>5
<1>6. ASSUME c # CVLINK_NULL PROVE HasLink(st2, c.rs, c.odep, x, k)
  <2>1. c.rs \in Stations /\ c.odep \in 1 .. 2
    BY <1>6 DEF CvEntry
  <2>2. PICK q : q = st[c.rs].odep_list[c.odep]
    OBVIOUS
  <2>3. q \in Seq(Links_) /\ st2[c.rs].odep_list[c.odep] = <<e>> \o q
    BY <1>2, <1>4, <1>6, <2>1, <2>2
  <2>4. DOMAIN (<<e>> \o q) = 1 .. Len(q) + 1 /\ Len(q) \in Nat /\ (<<e>> \o q)[1] = e
    BY ONLY <2>3, <1>3, ConsAt
  <2>5. 1 \in DOMAIN (<<e>> \o q)
    BY <2>4
  <2>6. st2[x].tag = rs[x].tag
    BY <1>1
  <2> QED
    BY <2>3, <2>4, <2>5, <2>6 DEF HasLink
<1> QED
  BY <1>5, <1>6 DEF KeepsLinks

\* Operand k of x waits for c, if there is one.
WaitsOn(st, x, k, c) ==
  /\ st[x].idep_ready[k] <=> c = CVLINK_NULL
  /\ c # CVLINK_NULL => HasLink(st, c.rs, c.odep, x, k)

\* An operand linked to its creator stays linked while links are kept and it is not
\* delivered.
LEMMA WaitsOnStays ==
  ASSUME NEW st, NEW st2, NEW x \in Stations, NEW k \in 1 .. 3, NEW c \in CvEntry, WaitsOn(st, x, k, c),
         st2[x].idep_ready[k] = st[x].idep_ready[k], KeepsLinks(st, st2)
  PROVE  WaitsOn(st2, x, k, c)
<1>1. c # CVLINK_NULL => c.rs \in Stations /\ c.odep \in 1 .. 2
  BY DEF CvEntry
<1> QED
  BY <1>1 DEF WaitsOn, KeepsLinks

\* The same for all three operands.
LEMMA LinkAllWaits ==
  ASSUME NEW st \in [Stations -> Station], NEW x \in Stations, st[x].tag = rs[x].tag,
         NEW c1 \in CvEntry, NEW c2 \in CvEntry, NEW c3 \in CvEntry,
         NEW st4, st4 = LinkAll(st, x, c1, c2, c3)
  PROVE  /\ st4 \in [Stations -> Station]
         /\ \A s \in Stations : SameText(st4[s], st[s]) /\ st4[s].tag = st[s].tag
         /\ \A s \in Stations, m \in 1 .. 3 : s # x => st4[s].idep_ready[m] = st[s].idep_ready[m]
         /\ KeepsLinks(st, st4)
         /\ WaitsOn(st4, x, 1, c1) /\ WaitsOn(st4, x, 2, c2) /\ WaitsOn(st4, x, 3, c3)
<1> DEFINE st2 == ruu_link_idep(st, x, 1, c1)
           st3 == ruu_link_idep(st2, x, 2, c2)
<1>1. 1 \in 1 .. 3 /\ 2 \in 1 .. 3 /\ 3 \in 1 .. 3
  OBVIOUS
<1>2. rs[x].tag \in Nat
  BY DEF Station
<1>3. st4 = ruu_link_idep(st3, x, 3, c3)
  BY DEF LinkAll
<1>4. Linked(st, st2, x, 1, c1)
  BY <1>1, <1>2, LinkIdep
<1>5. st2 \in [Stations -> Station] /\ \A s \in Stations : SameText(st2[s], st[s]) /\ st2[s].tag = st[s].tag
  BY <1>4 DEF Linked
<1> HIDE DEF st2
<1>6. Linked(st2, st3, x, 2, c2)
  BY <1>1, <1>2, <1>5, LinkIdep
<1>7. st3 \in [Stations -> Station] /\ \A s \in Stations : SameText(st3[s], st2[s]) /\ st3[s].tag = st2[s].tag
  BY <1>6 DEF Linked
<1> HIDE DEF st3
<1>8. Linked(st3, st4, x, 3, c3)
  BY <1>1, <1>2, <1>3, <1>7, LinkIdep
<1>9. st4 \in [Stations -> Station] /\ \A s \in Stations : SameText(st4[s], st3[s]) /\ st4[s].tag = st3[s].tag
  BY <1>8 DEF Linked
<1>10. st2[x].tag = rs[x].tag /\ st3[x].tag = rs[x].tag
  BY <1>5, <1>7
<1>11. KeepsLinks(st, st2) /\ (c1 # CVLINK_NULL => HasLink(st2, c1.rs, c1.odep, x, 1))
  BY <1>1, <1>4, LinkKeeps
<1>12. KeepsLinks(st2, st3) /\ (c2 # CVLINK_NULL => HasLink(st3, c2.rs, c2.odep, x, 2))
  BY <1>1, <1>5, <1>6, <1>10, LinkKeeps
<1>13. KeepsLinks(st3, st4) /\ (c3 # CVLINK_NULL => HasLink(st4, c3.rs, c3.odep, x, 3))
  BY <1>1, <1>7, <1>8, <1>10, LinkKeeps
<1>14. /\ st2[x].idep_ready[1] <=> c1 = CVLINK_NULL
       /\ st3[x].idep_ready[2] <=> c2 = CVLINK_NULL
       /\ st4[x].idep_ready[3] <=> c3 = CVLINK_NULL
  BY <1>4, <1>6, <1>8 DEF Linked
<1>15. /\ st3[x].idep_ready[1] = st2[x].idep_ready[1]
       /\ st4[x].idep_ready[1] = st3[x].idep_ready[1]
       /\ st4[x].idep_ready[2] = st3[x].idep_ready[2]
  BY <1>1, <1>6, <1>8 DEF Linked
<1>16. WaitsOn(st4, x, 1, c1)
  <2>1. WaitsOn(st2, x, 1, c1)
    BY <1>11, <1>14 DEF WaitsOn
  <2>2. WaitsOn(st3, x, 1, c1)
    BY <1>1, <1>12, <1>15, <2>1, WaitsOnStays
  <2> QED
    BY <1>1, <1>13, <1>15, <2>2, WaitsOnStays
<1>17. WaitsOn(st4, x, 2, c2)
  <2>1. WaitsOn(st3, x, 2, c2)
    BY <1>12, <1>14 DEF WaitsOn
  <2> QED
    BY <1>1, <1>13, <1>15, <2>1, WaitsOnStays
<1>18. WaitsOn(st4, x, 3, c3)
  BY <1>13, <1>14 DEF WaitsOn
<1>19. KeepsLinks(st, st4)
  BY <1>11, <1>12, <1>13, KeepsTwice
<1>20. \A s \in Stations : SameText(st4[s], st[s]) /\ st4[s].tag = st[s].tag
  BY <1>5, <1>7, <1>9 DEF SameText
<1>21. \A s \in Stations, m \in 1 .. 3 : s # x => st4[s].idep_ready[m] = st[s].idep_ready[m]
  <2>1. TAKE s \in Stations, m \in 1 .. 3
  <2>2. /\ s # x => st2[s].idep_ready[m] = st[s].idep_ready[m]
        /\ s # x => st3[s].idep_ready[m] = st2[s].idep_ready[m]
        /\ s # x => st4[s].idep_ready[m] = st3[s].idep_ready[m]
    BY <1>4, <1>6, <1>8 DEF Linked
  <2> QED
    BY <2>2
<1> QED
  BY <1>9, <1>16, <1>17, <1>18, <1>19, <1>20, <1>21

\* The creator that an operand named r of the new instruction waits for.
SourceOf(r) == IF r = DTMP THEN [rs |-> RuuTail, odep |-> 1] ELSE CreatorOf(r)

\* Entry e of a create vector is of station w.
OfStation(e, w) == \E i \in 1 .. 2 : e = [rs |-> w, odep |-> i]

\* Register r is one of the outputs names.
NamedBy(names, r) == \E i \in 1 .. 2 : names[i] = r

\* The create vector of the mode has the new instruction, whose outputs are those of w, for
\* all it writes.
CvWritten(w) ==
  \A r \in Regs \ {DTMP} :
    LET names == NamedBy(rs'[w].onames, r)
    IN  /\ spec_mode => /\ create_vector'[r] = create_vector[r]
                        /\ r \in use_spec_cv' <=> r \in use_spec_cv \/ names
                        /\ IF names THEN OfStation(spec_create_vector'[r], w)
                           ELSE spec_create_vector'[r] = spec_create_vector[r]
        /\ ~ spec_mode => /\ spec_create_vector'[r] = spec_create_vector[r]
                          /\ use_spec_cv' = use_spec_cv
                          /\ IF names THEN OfStation(create_vector'[r], w)
                             ELSE create_vector'[r] = create_vector[r]

\* The operands of a new instruction wait for the creators of their registers.
Depends(mem) ==
  /\ KeepsLinks(rs, rs')
  /\ \A x \in Entering(mem), k \in 1 .. 3 : \E r \in Regs \cup {NA} :
       r = OperandName(x, k)' /\ WaitsOn(rs', x, k, SourceOf(r))
  /\ mem => rs'[RuuTail].onames[1] = DTMP /\ rs'[RuuTail].onames[2] = NA
  /\ CvWritten(IF mem THEN LsqTail ELSE RuuTail)

\* ruu_install_odep writes the registers it is given, and no other.
LEMMA InstallWritten ==
  ASSUME NEW w, NEW names, NEW cv, NEW cv2, cv2 = ruu_install_odep(cv, w, names), NEW r \in Regs
  PROVE  /\ NamedBy(names, r) => OfStation(cv2[r], w)
         /\ ~ NamedBy(names, r) => cv2[r] = cv[r]
<1>1. \/ cv2[r] = cv[r] /\ r # names[1] /\ r # names[2]
      \/ \E i \in 1 .. 2 : cv2[r] = [rs |-> w, odep |-> i] /\ names[i] = r
  BY OdepIs
<1>2. NamedBy(names, r) => ~ (r # names[1] /\ r # names[2])
  BY DEF NamedBy
<1> QED
  BY <1>1, <1>2 DEF OfStation, NamedBy

\* The registers of the instruction at pc.
LEMMA NamesThen ==
  ASSUME TypeOK, code' = code, NEW pc, NEW x, NEW k \in 1 .. 3, rs'[x].PC = pc
  PROVE  /\ OperandName(x, k)' = IF x[1] = "LSQ" THEN <<InstAt(pc).in[1], DTMP, NA>>[k]
                                 ELSE IF rs'[x].ea_comp /\ k = 1 THEN NA ELSE InstAt(pc).in[k]
         /\ \A m \in 1 .. 3 : InstAt(pc).in[m] \in Regs \cup {NA} /\ InstAt(pc).in[m] # DTMP
<1>1. InstAt(rs[x].PC)' = InstAt(pc)
  BY DEF InstAt
<1>2. \A m \in 1 .. 3 : InstAt(pc).in[m] \in Regs \cup {NA} /\ InstAt(pc).in[m] # DTMP
  BY TextTyped
<1> QED
  BY <1>1, <1>2 DEF OperandName, DTMP, NA

\* The operation entered by ruu_dispatch for an instruction that is no access is linked,
\* operand by operand, to the creators of the registers it names, and becomes the
\* creator of its own.
LEMMA OpDepends ==
  ASSUME Deep, NEW pc, NEW npc, OpStep(pc, npc), pc = Head(fetch_data).regs_PC,
         stage = "dispatch", RUU_num < RUU_size, LSQ_num < LSQ_size, fetch_data # <<>>, code' = code
  PROVE  Depends(FALSE)
<1>8. PICK x : x = RuuTail
  OBVIOUS
<1> DEFINE i == InstAt(pc)
           a == OpStation(pc, npc)
           st1 == OpFilled(pc, npc)
           st2 == OpLinked(pc, npc)
           c1 == CreatorOf(i.in[1])
           c2 == CreatorOf(i.in[2])
           c3 == CreatorOf(i.in[3])
           ready == OpMissing(pc, npc) = {}
<1>0. Good /\ Types /\ TypeOK /\ CvTypes /\ RingsTyped /\ Rings
  BY GoodTypes DEF Deep, Good
<1>1. /\ x \in Stations /\ \A k \in 1 .. 2 : rs[x].odep_list[k] = <<>>
  BY <1>8, TailsEmpty
<1>2. IsFilled(a, x, i.op, pc, FALSE, Mispredicted(npc), 0, inst_seq + 1, i.out)
  BY <1>0, <1>1, <1>8, OpStationIs
<1>3. a \in Station /\ a.tag = rs[x].tag /\ a.PC = pc /\ a.ea_comp = FALSE /\ a.onames = i.out
  BY <1>2 DEF IsFilled
<1>4. c1 \in CvEntry /\ c2 \in CvEntry /\ c3 \in CvEntry
  BY <1>0, TextTyped, CreatorTyped
<1>5. /\ st1 = Replaced(rs, x, a) /\ st2 = LinkAll(st1, x, c1, c2, c3)
  BY <1>8 DEF OpFilled, OpLinked, Replaced
<1>6. /\ rs' = Marked(st2, x, ready) /\ ready \in BOOLEAN
      /\ spec_mode => /\ spec_create_vector' = ruu_install_odep(spec_create_vector, x, i.out)
                      /\ use_spec_cv' = use_spec_cv \cup ({i.out[1], i.out[2]} \ {NA})
                      /\ create_vector' = create_vector
      /\ ~ spec_mode => /\ create_vector' = ruu_install_odep(create_vector, x, i.out)
                        /\ spec_create_vector' = spec_create_vector /\ use_spec_cv' = use_spec_cv
  BY <1>8 DEF OpStep, Marked, Install
<1>7. rs \in [Stations -> Station] /\ x[1] = "RUU" /\ Entering(FALSE) = {x}
  BY <1>0, <1>8, TypesGive DEF TypeOK, Entering, RuuTail
<1> HIDE DEF a, st1, st2, c1, c2, c3, ready
<1>9. st1 \in [Stations -> Station] /\ st1[x] = a /\ \A s \in Stations : s # x => st1[s] = rs[s]
  BY <1>1, <1>3, <1>5, <1>7 DEF Replaced
<1>10. KeepsLinks(rs, st1)
  BY ONLY <1>1, <1>3, <1>7, <1>9, ReplacedKeeps
<1>11. /\ st2 \in [Stations -> Station]
       /\ \A s \in Stations : SameText(st2[s], st1[s]) /\ st2[s].tag = st1[s].tag
       /\ KeepsLinks(st1, st2)
       /\ WaitsOn(st2, x, 1, c1) /\ WaitsOn(st2, x, 2, c2) /\ WaitsOn(st2, x, 3, c3)
  <2>1. st1[x].tag = rs[x].tag
    BY <1>3, <1>9
  <2> QED
    BY ONLY <1>1, <1>4, <1>5, <1>9, <2>1, LinkAllWaits
<1>12. /\ \A s \in Stations : /\ SameText(rs'[s], st2[s]) /\ SameChains(rs'[s], st2[s])
                              /\ rs'[s].tag = st2[s].tag
  BY <1>1, <1>6, <1>11, MarkQueued
<1>13. KeepsLinks(st2, rs')
  <2>1. \A s \in Stations : rs'[s].tag = st2[s].tag
    BY <1>12
  <2>2. \A s \in Stations, j \in 1 .. 2 : rs'[s].odep_list[j] = st2[s].odep_list[j]
    BY <1>12 DEF SameChains
  <2> QED
    BY ONLY <2>1, <2>2, ChainsKeepLinks
<1>14. KeepsLinks(rs, rs')
  BY <1>10, <1>11, <1>13, KeepsTwice
<1>15. rs'[x].PC = pc /\ rs'[x].ea_comp = FALSE /\ rs'[x].onames = i.out
  <2>1. SameText(rs'[x], st2[x]) /\ SameText(st2[x], a)
    BY <1>1, <1>9, <1>11, <1>12
  <2> HIDE DEF i
  <2> QED
    BY <1>3, <2>1 DEF SameText
<1>16. WaitsOn(rs', x, 1, c1) /\ WaitsOn(rs', x, 2, c2) /\ WaitsOn(rs', x, 3, c3)
  <2>1. \A m \in 1 .. 3 : rs'[x].idep_ready[m] = st2[x].idep_ready[m]
    BY <1>1, <1>12 DEF SameChains
  <2>2. 1 \in 1 .. 3 /\ 2 \in 1 .. 3 /\ 3 \in 1 .. 3
    OBVIOUS
  <2> QED
    BY <1>1, <1>4, <1>11, <1>13, <2>1, <2>2, WaitsOnStays
<1>17. ASSUME NEW k \in 1 .. 3
       PROVE  /\ OperandName(x, k)' = i.in[k] /\ i.in[k] \in Regs \cup {NA} /\ i.in[k] # DTMP
              /\ WaitsOn(rs', x, k, SourceOf(i.in[k]))
  <2>1. OperandName(x, k)' = i.in[k] /\ i.in[k] \in Regs \cup {NA} /\ i.in[k] # DTMP
    <3>1. /\ OperandName(x, k)' = IF x[1] = "LSQ" THEN <<InstAt(pc).in[1], DTMP, NA>>[k]
                                 ELSE IF rs'[x].ea_comp /\ k = 1 THEN NA ELSE InstAt(pc).in[k]
          /\ \A m \in 1 .. 3 : InstAt(pc).in[m] \in Regs \cup {NA} /\ InstAt(pc).in[m] # DTMP
      BY <1>0, <1>15, NamesThen
    <3> QED
      BY <1>7, <1>15, <3>1
  <2>2. SourceOf(i.in[k]) = CreatorOf(i.in[k])
    BY <2>1 DEF SourceOf
  <2>3. WaitsOn(rs', x, k, CreatorOf(i.in[k]))
    <3>1. k = 1 \/ k = 2 \/ k = 3
      OBVIOUS
    <3> QED
      BY <1>16, <3>1 DEF c1, c2, c3
  <2> QED
    BY <2>1, <2>2, <2>3
<1>18. CvWritten(x)
  <2>1. PICK names : names = i.out
    OBVIOUS
  <2>2. rs'[x].onames = names /\ use_spec_cv \cup ({i.out[1], i.out[2]} \ {NA})
                                 = use_spec_cv \cup ({names[1], names[2]} \ {NA})
    BY <1>15, <2>1
  <2>3. /\ spec_mode => /\ spec_create_vector' = ruu_install_odep(spec_create_vector, x, names)
                        /\ use_spec_cv' = use_spec_cv \cup ({names[1], names[2]} \ {NA})
                        /\ create_vector' = create_vector
        /\ ~ spec_mode => /\ create_vector' = ruu_install_odep(create_vector, x, names)
                          /\ spec_create_vector' = spec_create_vector /\ use_spec_cv' = use_spec_cv
    BY <1>6, <2>1
  <2> HIDE DEF i
  <2>4. ASSUME NEW r \in Regs \ {DTMP}
        PROVE  /\ spec_mode => /\ create_vector'[r] = create_vector[r]
                               /\ r \in use_spec_cv' <=> r \in use_spec_cv \/ NamedBy(names, r)
                               /\ NamedBy(names, r) => OfStation(spec_create_vector'[r], x)
                               /\ ~ NamedBy(names, r) => spec_create_vector'[r] = spec_create_vector[r]
               /\ ~ spec_mode => /\ spec_create_vector'[r] = spec_create_vector[r]
                                 /\ use_spec_cv' = use_spec_cv
                                 /\ NamedBy(names, r) => OfStation(create_vector'[r], x)
                                 /\ ~ NamedBy(names, r) => create_vector'[r] = create_vector[r]
    <3>1. r \in {names[1], names[2]} \ {NA} <=> NamedBy(names, r)
      <4>1. r # NA
        BY DEF Regs, NA
      <4> QED
        BY <4>1 DEF NamedBy
    <3>2. r \in Regs
      OBVIOUS
    <3>3. \A cv, cv2 : cv2 = ruu_install_odep(cv, x, names) =>
            /\ NamedBy(names, r) => OfStation(cv2[r], x)
            /\ ~ NamedBy(names, r) => cv2[r] = cv[r]
      BY ONLY <3>2, InstallWritten
    <3> QED
      BY <2>3, <3>1, <3>3
  <2> QED
    BY <2>2, <2>4 DEF CvWritten
<1>19. FALSE => rs'[RuuTail].onames[1] = DTMP /\ rs'[RuuTail].onames[2] = NA
  OBVIOUS
<1> HIDE DEF i
<1> QED
  BY <1>7, <1>8, <1>14, <1>17, <1>18 DEF Depends

\* The create vector after a load or store, whose address computation writes DTMP.
LEMMA MemWritten ==
  ASSUME NEW x, NEW y, NEW names,
         spec_mode =>
           /\ spec_create_vector' = ruu_install_odep(ruu_install_odep(spec_create_vector, x, <<DTMP, NA>>), y, names)
           /\ use_spec_cv' = use_spec_cv \cup ({DTMP, names[1], names[2]} \ {NA})
           /\ create_vector' = create_vector,
         ~ spec_mode =>
           /\ create_vector' = ruu_install_odep(ruu_install_odep(create_vector, x, <<DTMP, NA>>), y, names)
           /\ spec_create_vector' = spec_create_vector /\ use_spec_cv' = use_spec_cv,
         rs'[y].onames = names
  PROVE  CvWritten(y)
<1>1. ASSUME NEW r \in Regs \ {DTMP}
      PROVE  /\ spec_mode => /\ create_vector'[r] = create_vector[r]
                             /\ r \in use_spec_cv' <=> r \in use_spec_cv \/ NamedBy(names, r)
                             /\ NamedBy(names, r) => OfStation(spec_create_vector'[r], y)
                             /\ ~ NamedBy(names, r) => spec_create_vector'[r] = spec_create_vector[r]
             /\ ~ spec_mode => /\ spec_create_vector'[r] = spec_create_vector[r]
                               /\ use_spec_cv' = use_spec_cv
                               /\ NamedBy(names, r) => OfStation(create_vector'[r], y)
                               /\ ~ NamedBy(names, r) => create_vector'[r] = create_vector[r]
  <2>1. r \in {DTMP, names[1], names[2]} \ {NA} <=> NamedBy(names, r)
    <3>1. r # NA
      BY DEF Regs, NA
    <3> QED
      BY <3>1 DEF NamedBy
  <2>2. r \in Regs
    OBVIOUS
  <2>3. ~ NamedBy(<<DTMP, NA>>, r)
    BY DEF NamedBy, Regs, NA
  <2>4. \A cv : ruu_install_odep(cv, x, <<DTMP, NA>>)[r] = cv[r]
    BY ONLY <2>2, <2>3, InstallWritten
  <2>5. \A cv, cv2 : cv2 = ruu_install_odep(cv, y, names) =>
          /\ NamedBy(names, r) => OfStation(cv2[r], y)
          /\ ~ NamedBy(names, r) => cv2[r] = cv[r]
    BY ONLY <2>2, InstallWritten
  <2> QED
    BY <2>1, <2>4, <2>5
<1> QED
  BY <1>1 DEF CvWritten

\* The two operations entered for a load or store are linked likewise, the access to its
\* address computation by the temporary register.
LEMMA MemDepends ==
  ASSUME Deep, NEW pc, NEW npc, NEW addr \in Addrs, MemStep(pc, npc, addr), pc = Head(fetch_data).regs_PC,
         stage = "dispatch", RUU_num < RUU_size, LSQ_num < LSQ_size, fetch_data # <<>>, code' = code
  PROVE  Depends(TRUE)
<1>a. PICK x : x = RuuTail
  OBVIOUS
<1>b. PICK y : y = LsqTail
  OBVIOUS
<1> DEFINE i == InstAt(pc)
           a == AgenStation(pc, npc)
           b == AccessStation(pc, addr)
           st0 == Replaced(rs, RuuTail, AgenStation(pc, npc))
           st1 == MemFilled(pc, npc, addr)
           st2 == MemAgen(pc, npc, addr)
           st3 == MemLinked(pc, npc, addr)
           first == AgenQueued(pc, npc, addr)
           second == StoreQueued(pc, npc, addr)
           st4 == Marked(MemLinked(pc, npc, addr), RuuTail, AgenQueued(pc, npc, addr))
           c == [rs |-> RuuTail, odep |-> 1]
           c1 == CreatorOf(i.in[1])
           c2 == CreatorOf(i.in[2])
           c3 == CreatorOf(i.in[3])
<1>0. Good /\ Types /\ TypeOK /\ CvTypes /\ RingsTyped /\ Rings
  BY GoodTypes DEF Deep, Good
<1>1. /\ x \in Stations /\ y \in Stations /\ x # y
      /\ \A k \in 1 .. 2 : rs[x].odep_list[k] = <<>> /\ rs[y].odep_list[k] = <<>>
  BY <1>a, <1>b, TailsEmpty
<1>2. /\ IsFilled(a, x, MD_AGEN_OP, pc, TRUE, Mispredicted(npc), 0, inst_seq + 1, <<DTMP, NA>>)
      /\ IsFilled(b, y, i.op, pc, FALSE, FALSE, addr, inst_seq + 2, i.out)
  BY <1>0, <1>1, <1>a, <1>b, MemStationsAre
<1>3. a \in Station /\ a.tag = rs[x].tag /\ a.PC = pc /\ a.ea_comp = TRUE /\ a.onames = <<DTMP, NA>>
  BY <1>2 DEF IsFilled
<1>4. b \in Station /\ b.tag = rs[y].tag /\ b.PC = pc /\ b.ea_comp = FALSE /\ b.onames = i.out
  BY <1>2 DEF IsFilled
<1>5. c1 \in CvEntry /\ c2 \in CvEntry /\ c3 \in CvEntry /\ CVLINK_NULL \in CvEntry /\ c \in CvEntry
  <2>1. c1 \in CvEntry /\ c2 \in CvEntry /\ c3 \in CvEntry
    BY <1>0, TextTyped, CreatorTyped
  <2>2. 1 \in 1 .. 2
    OBVIOUS
  <2>3. RuuTail \in Stations
    BY <1>1, <1>a
  <2>4. CVLINK_NULL \in CvEntry /\ c \in CvEntry
    BY <2>2, <2>3, Zenon DEF CvEntry
  <2> QED
    BY <2>1, <2>4
<1>6. /\ st0 = Replaced(rs, x, a) /\ st1 = Replaced(st0, y, b)
      /\ st2 = LinkAll(st1, x, CVLINK_NULL, c2, c3) /\ st3 = LinkAll(st2, y, c1, c, CVLINK_NULL)
      /\ st4 = Marked(st3, x, first)
  BY <1>a, <1>b DEF MemFilled, Replaced, MemAgen, MemLinked
<1>7. rs' = Marked(st4, y, second)
  BY <1>b DEF MemStep, Marked
<1>8. rs \in [Stations -> Station] /\ x[1] = "RUU" /\ y[1] = "LSQ" /\ Entering(TRUE) = {x, y}
  BY <1>0, <1>a, <1>b, TypesGive DEF TypeOK, Entering, RuuTail, LsqTail
<1>9. first \in BOOLEAN /\ second \in BOOLEAN
  BY Zenon DEF AgenQueued, StoreQueued
<1>10. c = [rs |-> x, odep |-> 1]
  BY <1>a
<1> HIDE DEF a, b, st0, st1, st2, st3, first, second, st4, c, c1, c2, c3
<1>11. st0 \in [Stations -> Station] /\ st0[x] = a /\ \A s \in Stations : s # x => st0[s] = rs[s]
  BY <1>1, <1>3, <1>6, <1>8 DEF Replaced
<1>12. st1 \in [Stations -> Station] /\ st1[y] = b /\ \A s \in Stations : s # y => st1[s] = st0[s]
  BY <1>1, <1>4, <1>6, <1>11 DEF Replaced
<1>13. KeepsLinks(rs, st0)
  BY ONLY <1>1, <1>3, <1>8, <1>11, ReplacedKeeps
<1>14. KeepsLinks(st0, st1)
  <2>1. b.tag = st0[y].tag /\ \A k \in 1 .. 2 : st0[y].odep_list[k] = <<>>
    BY <1>1, <1>4, <1>11
  <2> QED
    BY ONLY <1>1, <1>4, <2>1, <1>11, <1>12, ReplacedKeeps
<1>15. /\ st2 \in [Stations -> Station]
       /\ \A s \in Stations : SameText(st2[s], st1[s]) /\ st2[s].tag = st1[s].tag
       /\ KeepsLinks(st1, st2)
       /\ WaitsOn(st2, x, 1, CVLINK_NULL) /\ WaitsOn(st2, x, 2, c2) /\ WaitsOn(st2, x, 3, c3)
  <2>1. st1[x].tag = rs[x].tag
    BY <1>1, <1>3, <1>11, <1>12
  <2> QED
    <3>1. x \in Stations /\ CVLINK_NULL \in CvEntry /\ c2 \in CvEntry /\ c3 \in CvEntry
      BY <1>1, <1>5
    <3>2. st2 = LinkAll(st1, x, CVLINK_NULL, c2, c3) /\ st1 \in [Stations -> Station]
      BY <1>6, <1>12
    <3> QED
      BY ONLY <2>1, <3>1, <3>2, LinkAllWaits
<1>16. /\ st3 \in [Stations -> Station]
       /\ \A s \in Stations : SameText(st3[s], st2[s]) /\ st3[s].tag = st2[s].tag
       /\ \A s \in Stations, m \in 1 .. 3 : s # y => st3[s].idep_ready[m] = st2[s].idep_ready[m]
       /\ KeepsLinks(st2, st3)
       /\ WaitsOn(st3, y, 1, c1) /\ WaitsOn(st3, y, 2, c) /\ WaitsOn(st3, y, 3, CVLINK_NULL)
  <2>1. st2[y].tag = rs[y].tag
    BY <1>1, <1>4, <1>12, <1>15
  <2> QED
    <3>1. y \in Stations /\ CVLINK_NULL \in CvEntry /\ c1 \in CvEntry /\ c \in CvEntry
      BY <1>1, <1>5
    <3>2. st3 = LinkAll(st2, y, c1, c, CVLINK_NULL) /\ st2 \in [Stations -> Station]
      BY <1>6, <1>15
    <3> QED
      BY ONLY <2>1, <3>1, <3>2, LinkAllWaits
<1>17. /\ st4 \in [Stations -> Station]
       /\ \A s \in Stations : SameText(st4[s], st3[s]) /\ SameChains(st4[s], st3[s]) /\ st4[s].tag = st3[s].tag
  BY <1>1, <1>6, <1>9, <1>16, MarkQueued
<1>18. \A s \in Stations : SameText(rs'[s], st4[s]) /\ SameChains(rs'[s], st4[s]) /\ rs'[s].tag = st4[s].tag
  BY <1>1, <1>7, <1>9, <1>17, MarkQueued
<1>19. /\ \A s \in Stations : /\ SameText(rs'[s], st3[s]) /\ rs'[s].tag = st3[s].tag
                              /\ \A m \in 1 .. 3 : rs'[s].idep_ready[m] = st3[s].idep_ready[m]
                              /\ \A m \in 1 .. 2 : rs'[s].odep_list[m] = st3[s].odep_list[m]
  BY <1>17, <1>18 DEF SameText, SameChains
<1>20. KeepsLinks(st3, rs')
  BY ONLY <1>19, ChainsKeepLinks
<1>21. KeepsLinks(rs, rs')
  BY <1>13, <1>14, <1>15, <1>16, <1>20, KeepsTwice
<1>22. /\ rs'[x].PC = pc /\ rs'[x].ea_comp = TRUE /\ rs'[x].onames = <<DTMP, NA>>
       /\ rs'[y].PC = pc /\ rs'[y].onames = i.out
  <2>1. /\ SameText(rs'[x], st3[x]) /\ SameText(st3[x], st2[x]) /\ SameText(st2[x], a)
        /\ SameText(rs'[y], st3[y]) /\ SameText(st3[y], st2[y]) /\ SameText(st2[y], b)
    BY <1>1, <1>11, <1>12, <1>15, <1>16, <1>19
  <2> HIDE DEF i
  <2> QED
    BY <1>3, <1>4, <2>1 DEF SameText
<1>23. 1 \in 1 .. 3 /\ 2 \in 1 .. 3 /\ 3 \in 1 .. 3
  OBVIOUS
<1>24. KeepsLinks(st2, rs')
  BY <1>16, <1>20, KeepsTwice
<1>25. WaitsOn(rs', x, 1, CVLINK_NULL) /\ WaitsOn(rs', x, 2, c2) /\ WaitsOn(rs', x, 3, c3)
  <2>1. \A m \in 1 .. 3 : rs'[x].idep_ready[m] = st2[x].idep_ready[m]
    BY <1>1, <1>16, <1>19
  <2> QED
    BY <1>1, <1>5, <1>15, <1>23, <1>24, <2>1, WaitsOnStays
<1>26. WaitsOn(rs', y, 1, c1) /\ WaitsOn(rs', y, 2, c) /\ WaitsOn(rs', y, 3, CVLINK_NULL)
  <2>1. \A m \in 1 .. 3 : rs'[y].idep_ready[m] = st3[y].idep_ready[m]
    BY <1>1, <1>19
  <2> QED
    BY <1>1, <1>5, <1>16, <1>20, <1>23, <2>1, WaitsOnStays
<1>27. \A m \in 1 .. 3 : InstAt(pc).in[m] \in Regs \cup {NA} /\ InstAt(pc).in[m] # DTMP
  BY <1>0, TextTyped
<1>28. CreatorOf(NA) = CVLINK_NULL /\ NA # DTMP
  <2>1. DTMP \in Nat \ {0}
    BY SizesAssumption DEF DTMP
  <2> QED
    BY <2>1 DEF CreatorOf, NA
<1>29. ASSUME NEW k \in 1 .. 3
       PROVE  \E r \in Regs \cup {NA} : r = OperandName(x, k)' /\ r # DTMP /\ WaitsOn(rs', x, k, SourceOf(r))
  <2>1. OperandName(x, k)' = IF k = 1 THEN NA ELSE InstAt(pc).in[k]
    BY <1>0, <1>8, <1>22, NamesThen
  <2>2. CASE k = 1
    <3>1. OperandName(x, k)' = NA
      BY <2>1, <2>2
    <3>2. SourceOf(NA) = CVLINK_NULL
      BY <1>28 DEF SourceOf
    <3> QED
      BY <1>25, <1>28, <2>2, <3>1, <3>2
  <2>3. CASE k # 1
    <3>1. PICK r : r = InstAt(pc).in[k]
      OBVIOUS
    <3>2. r = OperandName(x, k)' /\ r \in Regs \cup {NA} /\ r # DTMP
      BY <1>27, <2>1, <2>3, <3>1
    <3>3. SourceOf(r) = CreatorOf(r)
      BY <3>2 DEF SourceOf
    <3>4. k = 2 \/ k = 3
      BY <2>3
    <3>5. WaitsOn(rs', x, k, CreatorOf(r))
      BY <1>25, <3>1, <3>4 DEF c2, c3
    <3> QED
      BY <3>2, <3>3, <3>5
  <2> QED
    BY <2>2, <2>3
<1>30. ASSUME NEW k \in 1 .. 3
       PROVE  \E r \in Regs \cup {NA} : r = OperandName(y, k)' /\ WaitsOn(rs', y, k, SourceOf(r))
  <2>1. OperandName(y, k)' = <<InstAt(pc).in[1], DTMP, NA>>[k]
    BY <1>0, <1>8, <1>22, NamesThen
  <2>2. CASE k = 1
    <3>1. PICK r : r = InstAt(pc).in[1]
      OBVIOUS
    <3>2. r = OperandName(y, k)' /\ r \in Regs \cup {NA} /\ r # DTMP
      BY <1>23, <1>27, <2>1, <2>2, <3>1
    <3>3. SourceOf(r) = CreatorOf(r)
      BY <3>2 DEF SourceOf
    <3>4. WaitsOn(rs', y, k, CreatorOf(r))
      BY <1>26, <2>2, <3>1 DEF c1
    <3> QED
      BY <3>2, <3>3, <3>4
  <2>3. CASE k = 2
    <3>1. OperandName(y, k)' = DTMP
      BY <2>1, <2>3
    <3>2. SourceOf(DTMP) = c
      BY <1>10, <1>a DEF SourceOf
    <3>3. DTMP \in Regs
      BY SizesAssumption DEF DTMP, Regs
    <3> QED
      BY <1>26, <2>3, <3>1, <3>2, <3>3
  <2>4. CASE k = 3
    <3>1. OperandName(y, k)' = NA
      BY <2>1, <2>4
    <3>2. SourceOf(NA) = CVLINK_NULL
      BY <1>28 DEF SourceOf
    <3> QED
      BY <1>26, <2>4, <3>1, <3>2
  <2> QED
    BY <2>2, <2>3, <2>4
<1>31. CvWritten(y)
  <2>1. PICK names : names = i.out
    OBVIOUS
  <2>2. /\ spec_mode =>
             /\ spec_create_vector' = ruu_install_odep(ruu_install_odep(spec_create_vector, x, <<DTMP, NA>>), y, names)
             /\ use_spec_cv' = use_spec_cv \cup ({DTMP, names[1], names[2]} \ {NA})
             /\ create_vector' = create_vector
        /\ ~ spec_mode =>
             /\ create_vector' = ruu_install_odep(ruu_install_odep(create_vector, x, <<DTMP, NA>>), y, names)
             /\ spec_create_vector' = spec_create_vector /\ use_spec_cv' = use_spec_cv
    BY <1>a, <1>b, <2>1 DEF MemStep, Install
  <2>3. rs'[y].onames = names
    BY <1>22, <2>1
  <2> QED
    BY ONLY <2>2, <2>3, MemWritten
<1>32. rs'[RuuTail].onames[1] = DTMP /\ rs'[RuuTail].onames[2] = NA
  BY <1>22, <1>a
<1> HIDE DEF i
<1> QED
  BY <1>1, <1>8, <1>a, <1>b, <1>21, <1>29, <1>30, <1>31, <1>32 DEF Depends

\* ruu_dispatch links what it enters to the creators of the registers it names.
LEMMA DispatchDepends ==
  ASSUME Deep
  PROVE  /\ DispatchOp => Dispatches(FALSE) /\ Depends(FALSE)
         /\ DispatchMem => Dispatches(TRUE) /\ Depends(TRUE)
<1>0. Good /\ Types /\ Rings /\ LinkInv(rs, InFlight)
  BY GoodTypes DEF Deep, Good, Lists
<1>1. ASSUME DispatchOp PROVE Dispatches(FALSE) /\ Depends(FALSE)
  <2>1. \E pc \in {Head(fetch_data).regs_PC} : \E npc \in NextPCs(code, pc) : OpStep(pc, npc)
    BY <1>1, Zenon DEF DispatchOp, OpStep, OpMissing, OpLinked, LinkAll, OpFilled, OpStation, RuuTail
  <2>2. PICK pc, npc : pc = Head(fetch_data).regs_PC /\ OpStep(pc, npc)
    BY <2>1
  <2>3. stage = "dispatch" /\ RUU_num < RUU_size /\ LSQ_num < LSQ_size /\ fetch_data # <<>>
    BY <1>1 DEF DispatchOp, CanDispatch
  <2>4. Dispatches(FALSE)
    BY <1>0, <1>1, DispatchOpDispatches
  <2>5. code' = code
    BY <2>4 DEF Dispatches, Extended
  <2>6. Depends(FALSE)
    BY <2>2, <2>3, <2>5, OpDepends
  <2> QED
    BY <2>4, <2>6
<1>2. ASSUME DispatchMem PROVE Dispatches(TRUE) /\ Depends(TRUE)
  <2>1. PICK pc, npc : \E addr \in Addrs :
          /\ npc \in NextPCs(code, pc) /\ pc = Head(fetch_data).regs_PC /\ MemStep(pc, npc, addr)
    BY ONLY <1>2, DispatchMemIs, Zenon
  <2>2. PICK addr \in Addrs : pc = Head(fetch_data).regs_PC /\ MemStep(pc, npc, addr)
    BY <2>1
  <2>3. stage = "dispatch" /\ RUU_num < RUU_size /\ LSQ_num < LSQ_size /\ fetch_data # <<>>
    BY <1>2 DEF DispatchMem, CanDispatch
  <2>4. Dispatches(TRUE)
    BY <1>0, <1>2, DispatchMemDispatches
  <2>5. code' = code
    BY <2>4 DEF Dispatches, Extended
  <2>6. Depends(TRUE)
    BY <2>2, <2>3, <2>5, MemDepends
  <2> QED
    BY <2>4, <2>6
<1> QED
  BY <1>1, <1>2

\* The new entry is at P, behind the others, which stay where they are.
Placed(mem, P) ==
  /\ P \in Nat /\ P = RUU_num /\ RUU_num' = P + 1 /\ mem \in BOOLEAN
  /\ Carried(0, P)
  /\ RuuAt(P)' = RuuTail /\ OpsAt(P)' = Entering(mem)
  /\ Writer(P)' = IF mem THEN LsqTail ELSE RuuTail
  /\ rs'[RuuTail].ea_comp = mem /\ rs'[RuuTail].spec_mode = spec_mode
  /\ \A s \in InFlight : /\ s \in Stations /\ s \notin Entering(mem)
                         /\ SameText(rs'[s], rs[s]) /\ SameState(rs'[s], rs[s]) /\ IdepKept(s)
  /\ TagsKept /\ RsTyped

\* ruu_dispatch appends one place to the window and carries the rest.
LEMMA DispatchAppends ==
  ASSUME Deep, NEW mem, Dispatches(mem), NEW P, P = RUU_num
  PROVE  Placed(mem, P)
<1>1. /\ Good /\ TypeOK /\ Rings /\ Accesses /\ RingsTyped
      /\ Extended(mem) /\ Entered(mem) /\ Executed
  BY GoodTypes DEF Deep, Good, Dispatches
<1>2. /\ mem \in BOOLEAN /\ RUU_num \in Nat /\ LSQ_num \in Nat /\ RUU_num' = RUU_num + 1
      /\ Stations' = Stations /\ LSQ_size' = LSQ_size
      /\ RuuAt(RUU_num) = RuuTail /\ LsqAt(LSQ_num) = LsqTail
      /\ \A s \in Entering(mem) : s \in Stations /\ ~ InWindow(s)
      /\ \A p : RuuAt(p)' = RuuAt(p) /\ LsqAt(p)' = LsqAt(p)
      /\ RuuTail \in Entering(mem)
  BY <1>1, EnteredWindow
<1>3. \A s \in InFlight : /\ s \in Stations /\ s \notin Entering(mem)
                          /\ SameText(rs'[s], rs[s]) /\ SameState(rs'[s], rs[s]) /\ IdepKept(s)
  BY <1>1, <1>2 DEF InFlight, Entered
<1>4. /\ code' = code /\ config' = config /\ RUU_head' = RUU_head /\ LSQ_head' = LSQ_head
      /\ RsTyped /\ TagsKept
  BY <1>1 DEF Extended, Entered
<1>5. Carried(0, P)
  <2>1. P \in Nat /\ P <= RUU_num
    BY <1>2
  <2> QED
    BY <1>1, <1>3, <1>4, <2>1, CarriedStay
<1>6. rs'[RuuTail].ea_comp = mem /\ rs'[RuuTail].spec_mode = spec_mode
  BY <1>1, <1>2 DEF Entered, EnteredText, Fresh
<1>7. RuuAt(P)' = RuuTail
  BY <1>2
<1>8. AccessOf(P)' = LsqTail
  <2>1. \A h \in 0 .. P - 1 : rs'[RuuAt(h)].ea_comp = rs[RuuAt(h)].ea_comp
    <3>1. TAKE h \in 0 .. P - 1
    <3>2. h \in Nat /\ h < RUU_num
      BY <1>2
    <3> QED
      BY <1>1, <3>2, EnteredOld DEF SameText
  <2>2. {h \in 0 .. P - 1 : rs'[RuuAt(h)'].ea_comp} = {h \in 0 .. P - 1 : rs[RuuAt(h)].ea_comp}
    BY <1>2, <2>1
  <2>3. AccessOf(P)' = AccessOf(P)
    BY <1>2, <2>2 DEF AccessOf
  <2>4. AccessOf(P) = LsqAt(RankIn(Agens, P))
    BY <1>1, <1>2, AccessIs
  <2>5. RankIn(Agens, P) = LSQ_num
    BY <1>1 DEF Accesses
  <2> QED
    BY <1>2, <2>3, <2>4, <2>5
<1>9. Writer(P)' = IF mem THEN LsqTail ELSE RuuTail
  BY <1>6, <1>7, <1>8 DEF Writer
<1>10. OpsAt(P)' = Entering(mem)
  BY <1>6, <1>7, <1>8 DEF OpsAt, Entering
<1> QED
  BY <1>2, <1>3, <1>4, <1>5, <1>6, <1>7, <1>9, <1>10 DEF Placed

\* The instructions that write a register, with the new one.
LEMMA PlacedWriters ==
  ASSUME RingsTyped, Accesses, NEW mem, NEW P, Placed(mem, P), NEW r,
         NEW w, w = IF mem THEN LsqTail ELSE RuuTail
  PROVE  /\ \A q : q \in StraightWriters(r)' <=>
              q \in StraightWriters(r) \/ (q = P /\ ~ spec_mode /\ NamedBy(rs'[w].onames, r))
         /\ \A q : q \in AstrayWriters(r)' <=>
              q \in AstrayWriters(r) \/ (q = P /\ spec_mode /\ NamedBy(rs'[w].onames, r))
         /\ StraightWriters(r) \subseteq 0 .. P - 1 /\ AstrayWriters(r) \subseteq 0 .. P - 1
         /\ WritersBelow(P, r)' = StraightWriters(r) \cup AstrayWriters(r)
         /\ WritersBelow(P, r) = StraightWriters(r) \cup AstrayWriters(r)
         /\ \A q \in 0 .. P - 1 : Writer(q)' = Writer(q) /\ Writer(q) \in InFlight
         /\ Writer(P)' = w
<1>1. /\ P \in Nat /\ P = RUU_num /\ RUU_num' = P + 1 /\ Carried(0, P)
      /\ Writer(P)' = w /\ RuuAt(P)' = RuuTail /\ rs'[RuuTail].spec_mode = spec_mode
  BY DEF Placed
<1>2. Window = 0 .. P - 1 /\ Window' = 0 .. (P + 1) - 1
  BY <1>1 DEF Window
<1>3. \A q \in 0 .. P - 1 : q + 0 = q
  BY <1>1
<1>4. ASSUME NEW q \in 0 .. P - 1
      PROVE  /\ Writer(q)' = Writer(q) /\ Writer(q) \in InFlight
             /\ Writes(q, r)' <=> Writes(q, r)
             /\ rs'[RuuAt(q)'].spec_mode = rs[RuuAt(q)].spec_mode
  <2>1. Writer(q)' = Writer(q)
    BY <1>1, <1>3 DEF Carried
  <2>2. (Writes(q, r)' <=> Writes(q, r)) /\ rs'[RuuAt(q)'].spec_mode = rs[RuuAt(q)].spec_mode
    <3>1. (Writes(q, r)' <=> Writes(q + 0, r)) /\ rs'[RuuAt(q)'].spec_mode = rs[RuuAt(q + 0)].spec_mode
      BY <1>1, CarriedWrites
    <3> QED
      BY <1>3, <3>1
  <2>3. WriterFacts(q)
    BY <1>2, WriterIs
  <2> QED
    BY <2>1, <2>2, <2>3 DEF WriterFacts
<1>5. /\ Writes(P, r)' <=> NamedBy(rs'[w].onames, r)
      /\ rs'[RuuAt(P)'].spec_mode = spec_mode
  BY <1>1 DEF Writes, NamedBy
<1>6. \A q : q \in Window' <=> q \in 0 .. P - 1 \/ q = P
  BY <1>1, <1>2
<1>7. /\ \A q : q \in StraightWriters(r)' <=> q \in Window' /\ ~ rs'[RuuAt(q)'].spec_mode /\ Writes(q, r)'
      /\ \A q : q \in AstrayWriters(r)' <=> q \in Window' /\ rs'[RuuAt(q)'].spec_mode /\ Writes(q, r)'
  BY DEF StraightWriters, AstrayWriters
<1>8. /\ \A q : q \in StraightWriters(r) <=> q \in 0 .. P - 1 /\ ~ rs[RuuAt(q)].spec_mode /\ Writes(q, r)
      /\ \A q : q \in AstrayWriters(r) <=> q \in 0 .. P - 1 /\ rs[RuuAt(q)].spec_mode /\ Writes(q, r)
  BY <1>2 DEF StraightWriters, AstrayWriters
<1>9. /\ \A q : q \in WritersBelow(P, r) <=> q \in 0 .. P - 1 /\ Writes(q, r)
      /\ \A q : q \in WritersBelow(P, r)' <=> q \in 0 .. P - 1 /\ Writes(q, r)'
  BY DEF WritersBelow
<1> QED
  BY <1>1, <1>4, <1>5, <1>6, <1>7, <1>8, <1>9

\* The writers that the create vector in use tracks.
TrackedWriters(r) == IF r \in use_spec_cv THEN AstrayWriters(r) ELSE StraightWriters(r)

\* Wrong-path writers are younger than all others: the last of all is the last of those.
LEMMA LastOfPath ==
  ASSUME RingsTyped, WrongPath, CvTracks, NEW r \in Regs \ {DTMP},
         NEW S, S = StraightWriters(r) \cup AstrayWriters(r), NEW q
  PROVE  LastOf(S, q) <=> LastOf(TrackedWriters(r), q)
<1>1. r \in use_spec_cv <=> AstrayWriters(r) # {}
  BY DEF CvTracks
<1>2. CASE r \notin use_spec_cv
  <2>1. S = TrackedWriters(r)
    BY <1>1, <1>2 DEF TrackedWriters
  <2> QED
    BY <2>1
<1>3. CASE r \in use_spec_cv
  <2>1. TrackedWriters(r) = AstrayWriters(r) /\ AstrayWriters(r) # {}
    BY <1>1, <1>3 DEF TrackedWriters
  <2>2. /\ \A h \in AstrayWriters(r) : h \in Window /\ rs[RuuAt(h)].spec_mode
        /\ \A h \in StraightWriters(r) : h \in Window /\ ~ rs[RuuAt(h)].spec_mode
    BY DEF AstrayWriters, StraightWriters
  <2>3. spec_mode
    BY <2>1, <2>2 DEF WrongPath
  <2>4. PICK b \in Nat : b \in Branches
    BY <2>3 DEF WrongPath
  <2>5. /\ \A h \in AstrayWriters(r) : h \in Nat /\ h > b
        /\ \A h \in StraightWriters(r) : h \in Nat /\ ~ (h > b)
    BY <2>2, <2>4 DEF WrongPath, Window
  <2>6. \A h \in StraightWriters(r), g \in AstrayWriters(r) : h <= g /\ h # g /\ ~ (g <= h)
    BY <2>4, <2>5
  <2>7. PICK A, B : A = AstrayWriters(r) /\ B = StraightWriters(r)
    OBVIOUS
  <2>8. A # {} /\ S = B \cup A /\ (\A h \in B, g \in A : h <= g /\ h # g /\ ~ (g <= h))
    BY <2>1, <2>6, <2>7
  <2>9. LastOf(S, q) <=> LastOf(A, q)
    BY ONLY <2>8 DEF LastOf
  <2> QED
    BY <2>1, <2>7, <2>9
<1> QED
  BY <1>2, <1>3

\* A create vector that gets the new writer, or stays the same, goes on tracking.
LEMMA TracksGrown ==
  ASSUME NEW P \in Nat, NEW S, S \subseteq 0 .. P - 1, NEW T, NEW b \in BOOLEAN,
         \A q : q \in T <=> q \in S \/ (q = P /\ b),
         NEW w, Writer(P)' = w,
         \A q \in S : Writer(q)' = Writer(q) /\ (rs[Writer(q)].completed => rs'[Writer(q)].completed),
         NEW e, NEW e2, b => OfStation(e2, w), ~ b => e2 = e /\ Tracks(e, S)
  PROVE  TracksNext(e2, T)
<1>1. CASE b
  <2>1. P \in T /\ LastOf(T, P)
    <3>1. P \in T
      BY <1>1
    <3>2. \A q \in T : q <= P
      <4>1. \A q \in T : q \in 0 .. P - 1 \/ q = P
        OBVIOUS
      <4>2. P \in Nat
        OBVIOUS
      <4> QED
        BY ONLY <4>1, <4>2
    <3> QED
      BY <3>1, <3>2 DEF LastOf
  <2>2. e2 # CVLINK_NULL /\ e2.rs = w
    BY <1>1 DEF OfStation, CVLINK_NULL
  <2> QED
    BY <2>1, <2>2 DEF TracksNext
<1>2. CASE ~ b
  <2>1. \A q : q \in T <=> q \in S
    BY <1>2
  <2>2. T = S
    BY <2>1
  <2>3. CASE e = CVLINK_NULL
    <3>1. \A q \in S : LastOf(S, q) => rs[Writer(q)].completed
      BY <1>2, <2>3 DEF Tracks
    <3>2. \A q \in S : LastOf(S, q) => rs'[Writer(q)'].completed
      BY <3>1
    <3> QED
      BY <1>2, <2>2, <2>3, <3>2 DEF TracksNext
  <2>4. CASE e # CVLINK_NULL
    <3>1. \E q \in S : LastOf(S, q) /\ e.rs = Writer(q)
      BY <1>2, <2>4 DEF Tracks
    <3> QED
      BY <1>2, <2>2, <2>4, <3>1 DEF TracksNext
  <2> QED
    BY <2>3, <2>4
<1> QED
  BY <1>1, <1>2

\* ruu_dispatch keeps the create vectors tracking the youngest writers: what it enters
\* is the youngest, and on the path that is fetched.
LEMMA DispatchTracks ==
  ASSUME Deep, CvTracks, NEW mem, NEW P, Placed(mem, P), Depends(mem)
  PROVE  CvTracks'
<1>1. RingsTyped /\ Accesses /\ WrongPath
  BY GoodTypes DEF Deep
<1>2. PICK w : w = IF mem THEN LsqTail ELSE RuuTail
  OBVIOUS
<1>3. CvWritten(w) /\ P \in Nat /\ spec_mode \in BOOLEAN
  <2>1. spec_mode \in BOOLEAN
    BY GoodTypes DEF Deep, TypeOK
  <2> QED
    BY <1>2, <2>1 DEF Depends, Placed
<1>4. ASSUME NEW r \in Regs \ {DTMP}
      PROVE  /\ TracksNext(create_vector'[r], StraightWriters(r)')
             /\ r \in use_spec_cv' <=> AstrayWriters(r)' # {}
             /\ r \in use_spec_cv' => TracksNext(spec_create_vector'[r], AstrayWriters(r)')
  <2>1. PICK S, A : S = StraightWriters(r) /\ A = AstrayWriters(r)
    OBVIOUS
  <2>2. PICK named \in BOOLEAN : named <=> NamedBy(rs'[w].onames, r)
    BY DEF NamedBy
  <2>3. /\ \A q : q \in StraightWriters(r)' <=> q \in S \/ (q = P /\ ~ spec_mode /\ named)
        /\ \A q : q \in AstrayWriters(r)' <=> q \in A \/ (q = P /\ spec_mode /\ named)
        /\ S \subseteq 0 .. P - 1 /\ A \subseteq 0 .. P - 1
        /\ \A q \in 0 .. P - 1 : Writer(q)' = Writer(q) /\ Writer(q) \in InFlight
        /\ Writer(P)' = w
    BY <1>1, <1>2, <2>1, <2>2, PlacedWriters
  <2>4. \A q \in 0 .. P - 1 : Writer(q)' = Writer(q) /\ (rs[Writer(q)].completed => rs'[Writer(q)].completed)
    BY <2>3 DEF Placed, SameState
  <2>5. /\ Tracks(create_vector[r], S)
        /\ r \in use_spec_cv <=> A # {}
        /\ r \in use_spec_cv => Tracks(spec_create_vector[r], A)
    BY <2>1 DEF CvTracks
  <2>6. /\ spec_mode => /\ create_vector'[r] = create_vector[r]
                        /\ r \in use_spec_cv' <=> r \in use_spec_cv \/ named
                        /\ named => OfStation(spec_create_vector'[r], w)
                        /\ ~ named => spec_create_vector'[r] = spec_create_vector[r]
        /\ ~ spec_mode => /\ spec_create_vector'[r] = spec_create_vector[r]
                          /\ use_spec_cv' = use_spec_cv
                          /\ named => OfStation(create_vector'[r], w)
                          /\ ~ named => create_vector'[r] = create_vector[r]
    BY <1>3, <2>2 DEF CvWritten
  <2>7. TracksNext(create_vector'[r], StraightWriters(r)')
    <3>1. PICK b \in BOOLEAN : b <=> ~ spec_mode /\ named
      OBVIOUS
    <3>2. PICK T : T = StraightWriters(r)'
      OBVIOUS
    <3>3. \A q : q \in T <=> q \in S \/ (q = P /\ b)
      BY <2>3, <3>1, <3>2
    <3>4. PICK e, e2 : e = create_vector[r] /\ e2 = create_vector'[r]
      OBVIOUS
    <3>5. (b => OfStation(e2, w)) /\ (~ b => e2 = e /\ Tracks(e, S))
      BY <2>5, <2>6, <3>1, <3>4
    <3>6. P \in Nat /\ S \subseteq 0 .. P - 1 /\ Writer(P)' = w
      BY <1>3, <2>3
    <3>7. \A q \in S : Writer(q)' = Writer(q) /\ (rs[Writer(q)].completed => rs'[Writer(q)].completed)
      BY <2>4, <3>6
    <3>8. TracksNext(e2, T)
      BY ONLY b \in BOOLEAN, <3>3, <3>5, <3>6, <3>7, TracksGrown
    <3> QED
      BY <3>2, <3>4, <3>8
  <2>8. r \in use_spec_cv' <=> AstrayWriters(r)' # {}
    <3>1. AstrayWriters(r)' # {} <=> A # {} \/ (spec_mode /\ named)
      <4>1. PICK T : T = AstrayWriters(r)'
        OBVIOUS
      <4>2. \A q : q \in T <=> q \in A \/ (q = P /\ spec_mode /\ named)
        BY <2>3, <4>1
      <4>3. T # {} <=> A # {} \/ (spec_mode /\ named)
        BY ONLY <4>2
      <4> QED
        BY <4>1, <4>3
    <3> QED
      BY <2>5, <2>6, <3>1
  <2>9. ASSUME r \in use_spec_cv' PROVE TracksNext(spec_create_vector'[r], AstrayWriters(r)')
    <3>1. PICK b \in BOOLEAN : b <=> spec_mode /\ named
      OBVIOUS
    <3>2. PICK T : T = AstrayWriters(r)'
      OBVIOUS
    <3>3. \A q : q \in T <=> q \in A \/ (q = P /\ b)
      BY <2>3, <3>1, <3>2
    <3>4. PICK e, e2 : e = spec_create_vector[r] /\ e2 = spec_create_vector'[r]
      OBVIOUS
    <3>5. (b => OfStation(e2, w)) /\ (~ b => e2 = e /\ Tracks(e, A))
      BY <2>5, <2>6, <2>9, <3>1, <3>4
    <3>6. P \in Nat /\ A \subseteq 0 .. P - 1 /\ Writer(P)' = w
      BY <1>3, <2>3
    <3>7. \A q \in A : Writer(q)' = Writer(q) /\ (rs[Writer(q)].completed => rs'[Writer(q)].completed)
      BY <2>4, <3>6
    <3>8. TracksNext(e2, T)
      BY ONLY b \in BOOLEAN, <3>3, <3>5, <3>6, <3>7, TracksGrown
    <3> QED
      BY <3>2, <3>4, <3>8
  <2> QED
    BY <2>7, <2>8, <2>9
<1>5. Regs' = Regs
  BY DEF Regs
<1> QED
  BY <1>4, <1>5, TracksThen

\* An operand of an entry that stays keeps its suppliers and its link.
LEMMA SettledStays ==
  ASSUME RingsTyped, Accesses, NEW P, Carried(0, P), NEW p \in 0 .. P - 1, NEW x \in OpsAt(p),
         NEW k \in 1 .. 3, Settled(p, x, k),
         rs'[x].tag = rs[x].tag, rs'[x].idep_ready[k] = rs[x].idep_ready[k],
         \A s \in InFlight : rs[s].completed => rs'[s].completed,
         KeepsLinks(rs, rs')
  PROVE  Settled(p, x, k)'
<1>1. Stations' = Stations /\ P \in Nat /\ P + 0 <= RUU_num /\ p + 0 = p /\ RUU_num \in Nat
  BY DEF Carried, RingsTyped
<1>2. \A h : ~ h \in 0 .. 0 - 1
  OBVIOUS
<1>3. \A s, i : Supplies(p, x, k, s, i)' <=> Supplies(p, x, k, s, i)
  <2>1. x \in OpsAt(p + 0)
    BY <1>1
  <2>2. \A s, i : /\ Supplies(p, x, k, s, i)' => Supplies(p + 0, x, k, s, i)
                  /\ Supplies(p + 0, x, k, s, i) /\ (\A h \in 0 .. 0 - 1 : s # Writer(h)) => Supplies(p, x, k, s, i)'
    BY <2>1, CarriedSupplies
  <2> QED
    BY <1>1, <1>2, <2>2
<1>4. p \in Window /\ x \in Stations
  <2>1. p \in Window
    BY <1>1 DEF Window
  <2>2. WriterFacts(p)
    BY <2>1, WriterIs
  <2> QED
    BY <2>1, <2>2 DEF WriterFacts
<1>5. \A s, i : Supplies(p, x, k, s, i) => s \in InFlight
  BY <1>4, SuppliersAre
<1>6. Settled(p, x, k)' <=>
        IF rs'[x].idep_ready[k]
        THEN \A s \in Stations, i \in 1 .. 2 : Supplies(p, x, k, s, i)' => rs'[s].completed
        ELSE \E s \in Stations, i \in 1 .. 2 : Supplies(p, x, k, s, i)' /\ HasLink(rs', s, i, x, k)
  BY <1>1 DEF Settled, HasLink
<1>7. CASE rs[x].idep_ready[k]
  <2>1. \A s \in Stations, i \in 1 .. 2 : Supplies(p, x, k, s, i) => rs[s].completed
    BY <1>7 DEF Settled
  <2> QED
    BY <1>3, <1>5, <1>6, <1>7, <2>1
<1>8. CASE ~ rs[x].idep_ready[k]
  <2>1. PICK s \in Stations, i \in 1 .. 2 : Supplies(p, x, k, s, i) /\ HasLink(rs, s, i, x, k)
    BY <1>8 DEF Settled
  <2>2. HasLink(rs', s, i, x, k)
    BY <1>4, <2>1 DEF KeepsLinks
  <2> QED
    BY <1>3, <1>6, <1>8, <2>1, <2>2
<1> QED
  BY <1>7, <1>8

\* The creator of a register is the last that writes it, unless that one has its result.
LEMMA CreatorSupplies ==
  ASSUME Deep, CvTracks, NEW r \in Regs \ {DTMP}, NEW S, S = StraightWriters(r) \cup AstrayWriters(r),
         NEW c, c = CreatorOf(r)
  PROVE  /\ c \in CvEntry
         /\ c = CVLINK_NULL => \A q : LastOf(S, q) => rs[Writer(q)].completed
         /\ c # CVLINK_NULL => /\ \E q : LastOf(S, q) /\ c.rs = Writer(q)
                               /\ rs[c.rs].onames[c.odep] = r
<1>1. RingsTyped /\ WrongPath /\ CvTypes /\ CvLive
  BY GoodTypes DEF Deep
<1>2. \A q : LastOf(S, q) <=> LastOf(TrackedWriters(r), q)
  BY <1>1, LastOfPath
<1>3. c \in CvEntry
  <2>1. r \in Regs \cup {NA}
    OBVIOUS
  <2> QED
    BY <1>1, <2>1, CreatorTyped
<1>4. r # NA
  BY DEF Regs, NA
<1>5. c = IF r \in use_spec_cv THEN spec_create_vector[r] ELSE create_vector[r]
  BY <1>4 DEF CreatorOf, CREATE_VECTOR
<1>6. Tracks(c, TrackedWriters(r))
  BY <1>5 DEF CvTracks, TrackedWriters
<1>7. c # CVLINK_NULL => rs[c.rs].onames[c.odep] = r
  BY <1>1, <1>5 DEF CvLive, Creates
<1>8. ASSUME c = CVLINK_NULL, NEW q, LastOf(S, q) PROVE rs[Writer(q)].completed
  <2>1. LastOf(TrackedWriters(r), q) /\ q \in TrackedWriters(r)
    BY <1>2, <1>8 DEF LastOf
  <2> QED
    BY <1>6, <1>8, <2>1 DEF Tracks
<1>9. ASSUME c # CVLINK_NULL PROVE \E q : LastOf(S, q) /\ c.rs = Writer(q)
  <2>1. PICK q \in TrackedWriters(r) : LastOf(TrackedWriters(r), q) /\ c.rs = Writer(q)
    BY <1>6, <1>9 DEF Tracks
  <2> QED
    BY <1>2, <2>1
<1> QED
  BY <1>3, <1>7, <1>8, <1>9

\* A new operand waits for the last that writes its register.
LEMMA EntrantSettled ==
  ASSUME Deep, CvTracks, NEW mem, NEW P, Placed(mem, P), Depends(mem),
         NEW x \in Entering(mem), NEW k \in 1 .. 3
  PROVE  Settled(P, x, k)'
<1>1. RingsTyped /\ Accesses /\ CvTypes
  BY GoodTypes DEF Deep
<1>2. PICK r \in Regs \cup {NA} : r = OperandName(x, k)' /\ WaitsOn(rs', x, k, SourceOf(r))
  BY DEF Depends
<1>3. PICK w : w = IF mem THEN LsqTail ELSE RuuTail
  OBVIOUS
<1>4. PICK t : t = RuuTail
  OBVIOUS
<1>5. Stations' = Stations /\ RuuAt(P)' = t /\ P \in Nat
  BY <1>4 DEF Placed, Carried
<1>6. PICK S : S = StraightWriters(r) \cup AstrayWriters(r)
  OBVIOUS
<1>7. /\ WritersBelow(P, r)' = S
      /\ \A q \in S : /\ Writer(q)' = Writer(q) /\ Writer(q) \in InFlight
                      /\ rs'[Writer(q)].completed = rs[Writer(q)].completed
                      /\ rs'[Writer(q)].onames = rs[Writer(q)].onames
  <2>1. /\ StraightWriters(r) \subseteq 0 .. P - 1 /\ AstrayWriters(r) \subseteq 0 .. P - 1
        /\ WritersBelow(P, r)' = StraightWriters(r) \cup AstrayWriters(r)
        /\ \A q \in 0 .. P - 1 : Writer(q)' = Writer(q) /\ Writer(q) \in InFlight
    BY <1>1, <1>3, PlacedWriters
  <2>2. \A s \in InFlight : rs'[s].completed = rs[s].completed /\ rs'[s].onames = rs[s].onames
    BY DEF Placed, SameState, SameText
  <2> QED
    BY <1>6, <2>1, <2>2
<1>8. \A s, i : Supplies(P, x, k, s, i)' <=>
        \/ r = DTMP /\ s = t /\ i = 1
        \/ r \notin {NA, DTMP} /\ rs'[s].onames[i] = r /\ \E q \in S : LastOf(S, q) /\ s = Writer(q)'
  <2>1. PICK B : B = WritersBelow(P, r)'
    OBVIOUS
  <2>2. \A s, i : Supplies(P, x, k, s, i)' <=>
          \/ r = DTMP /\ s = RuuAt(P)' /\ i = 1
          \/ r \notin {NA, DTMP} /\ rs'[s].onames[i] = r /\ \E q \in B : LastOf(B, q) /\ s = Writer(q)'
    BY <1>2, <2>1 DEF Supplies, DTMP, NA
  <2> QED
    BY <1>5, <1>7, <2>1, <2>2
<1>9. Settled(P, x, k)' <=>
        IF rs'[x].idep_ready[k]
        THEN \A s \in Stations, i \in 1 .. 2 : Supplies(P, x, k, s, i)' => rs'[s].completed
        ELSE \E s \in Stations, i \in 1 .. 2 : Supplies(P, x, k, s, i)' /\ HasLink(rs', s, i, x, k)
  BY <1>5 DEF Settled, HasLink
<1>10. CASE r = NA
  <2>1. SourceOf(r) = CVLINK_NULL
    <3>1. DTMP \in Nat \ {0}
      BY SizesAssumption DEF DTMP
    <3> QED
      BY <1>10, <3>1 DEF SourceOf, CreatorOf, NA
  <2>2. rs'[x].idep_ready[k]
    BY <1>2, <2>1 DEF WaitsOn
  <2>3. r # DTMP
    <3>1. DTMP \in Nat \ {0}
      BY SizesAssumption DEF DTMP
    <3> QED
      BY <1>10, <3>1 DEF NA
  <2> QED
    BY <1>8, <1>9, <1>10, <2>2, <2>3
<1>11. CASE r = DTMP
  <2>1. PICK c : c = [rs |-> t, odep |-> 1]
    OBVIOUS
  <2>2. c # CVLINK_NULL /\ c.rs = t /\ c.odep = 1
    BY <2>1 DEF CVLINK_NULL
  <2>3. SourceOf(r) = c
    BY <1>4, <1>11, <2>1 DEF SourceOf
  <2>4. ~ rs'[x].idep_ready[k] /\ HasLink(rs', t, 1, x, k)
    BY <1>2, <2>2, <2>3 DEF WaitsOn
  <2>5. t \in Stations /\ 1 \in 1 .. 2
    <3>1. t \in Stations
      BY <1>1, <1>4 DEF RingsTyped, RuuTail, Stations
    <3> QED
      BY <3>1
  <2> QED
    BY <1>8, <1>9, <1>11, <2>4, <2>5
<1>12. CASE r \in Regs \ {DTMP}
  <2>1. PICK c : c = CreatorOf(r)
    OBVIOUS
  <2>2. SourceOf(r) = c
    BY <1>12, <2>1 DEF SourceOf
  <2>3. /\ c \in CvEntry
        /\ c = CVLINK_NULL => \A q : LastOf(S, q) => rs[Writer(q)].completed
        /\ c # CVLINK_NULL => /\ \E q : LastOf(S, q) /\ c.rs = Writer(q)
                              /\ rs[c.rs].onames[c.odep] = r
    BY <1>6, <1>12, <2>1, CreatorSupplies
  <2>4. r \notin {NA, DTMP}
    BY <1>12 DEF Regs, NA
  <2>5. CASE c = CVLINK_NULL
    <3>1. rs'[x].idep_ready[k]
      BY <1>2, <2>2, <2>5 DEF WaitsOn
    <3>2. \A s, i : Supplies(P, x, k, s, i)' => rs'[s].completed
      BY <1>7, <1>8, <2>3, <2>4, <2>5
    <3> QED
      BY <1>9, <3>1, <3>2
  <2>6. CASE c # CVLINK_NULL
    <3>1. ~ rs'[x].idep_ready[k] /\ HasLink(rs', c.rs, c.odep, x, k)
      BY <1>2, <2>2, <2>6 DEF WaitsOn
    <3>2. PICK q : LastOf(S, q) /\ c.rs = Writer(q)
      BY <2>3, <2>6
    <3>3. q \in S
      BY <3>2 DEF LastOf
    <3>4. rs'[c.rs].onames[c.odep] = r /\ c.rs = Writer(q)'
      BY <1>7, <2>3, <2>6, <3>2, <3>3
    <3>5. c.rs \in Stations /\ c.odep \in 1 .. 2
      BY <2>3, <2>6 DEF CvEntry
    <3>6. Supplies(P, x, k, c.rs, c.odep)'
      <4>1. PICK s, i : s = c.rs /\ i = c.odep
        OBVIOUS
      <4>2. Supplies(P, x, k, s, i)'
        BY <1>8, <2>4, <3>2, <3>3, <3>4, <4>1
      <4> QED
        BY <4>1, <4>2
    <3> QED
      BY <1>9, <3>1, <3>5, <3>6
  <2> QED
    BY <2>5, <2>6
<1> QED
  BY <1>2, <1>10, <1>11, <1>12

\* ruu_dispatch keeps the waiting operands right.
LEMMA DispatchWaiting == ASSUME Deep, Waiting, DispatchOp \/ DispatchMem PROVE Waiting'
<1>1. PICK mem \in BOOLEAN : Dispatches(mem) /\ Depends(mem)
  BY DispatchDepends
<1>2. PICK P : P = RUU_num
  OBVIOUS
<1>3. Placed(mem, P)
  BY <1>1, <1>2, DispatchAppends
<1>4. RingsTyped /\ Accesses /\ AgensName /\ CvTracks /\ OperandsSettled
  BY GoodTypes DEF Deep, Waiting
<1>5. CvTracks'
  BY <1>1, <1>3, <1>4, DispatchTracks
<1>6. /\ P \in Nat /\ Carried(0, P) /\ RUU_num' = P + 1 /\ RuuAt(P)' = RuuTail /\ OpsAt(P)' = Entering(mem)
      /\ rs'[RuuTail].ea_comp = mem
  BY <1>3 DEF Placed
<1>7. /\ \A q : q \in Window' <=> q \in 0 .. P - 1 \/ q = P
      /\ \A q \in 0 .. P - 1 : q \in Window /\ q + 0 = q
  BY <1>2, <1>6 DEF Window
<1>8. AgensName'
  <2>1. SUFFICES ASSUME NEW q \in Window'
                 PROVE  rs'[RuuAt(q)'].ea_comp => rs'[RuuAt(q)'].onames[1] = DTMP /\ rs'[RuuAt(q)'].onames[2] = NA
    BY DEF AgensName, DTMP, NA
  <2>2. CASE q \in 0 .. P - 1
    <3>1. q + 0 = q /\ q \in Window
      BY <1>7, <2>2
    <3>2. RuuAt(q)' = RuuAt(q + 0) /\ SameText(rs'[RuuAt(q + 0)], rs[RuuAt(q + 0)])
      BY <1>6, <2>2 DEF Carried
    <3> QED
      BY <1>4, <3>1, <3>2 DEF AgensName, SameText
  <2>3. CASE q = P
    <3>1. mem => rs'[RuuTail].onames[1] = DTMP /\ rs'[RuuTail].onames[2] = NA
      BY <1>1 DEF Depends
    <3> QED
      BY <1>6, <2>3, <3>1
  <2> QED
    BY <1>7, <2>1, <2>2, <2>3
<1>9. ASSUME NEW p \in 0 .. P - 1, NEW x \in OpsAt(p), NEW k \in 1 .. 3
      PROVE  Settled(p, x, k)'
  <2>1. p \in Window
    BY <1>7
  <2>2. x \in InFlight /\ x \in Stations
    <3>1. WriterFacts(p)
      BY <1>4, <2>1, WriterIs
    <3> QED
      BY <3>1 DEF WriterFacts
  <2>3. Settled(p, x, k)
    BY <1>4, <2>1 DEF OperandsSettled
  <2>4. rs'[x].tag = rs[x].tag /\ rs'[x].idep_ready[k] = rs[x].idep_ready[k]
    BY <1>3, <2>2 DEF Placed, TagsKept, IdepKept
  <2>5. \A s \in InFlight : rs[s].completed => rs'[s].completed
    BY <1>3 DEF Placed, SameState
  <2>6. KeepsLinks(rs, rs')
    BY <1>1 DEF Depends
  <2> QED
    BY <1>4, <1>6, <2>3, <2>4, <2>5, <2>6, SettledStays
<1>10. OperandsSettled'
  <2>1. SUFFICES ASSUME NEW p \in Window', NEW x \in OpsAt(p)', NEW k \in 1 .. 3
                 PROVE  Settled(p, x, k)'
    BY DEF OperandsSettled
  <2>2. CASE p \in 0 .. P - 1
    <3>1. p + 0 = p
      BY <1>7, <2>2
    <3>2. OpsAt(p)' = OpsAt(p + 0)
      BY <1>6, <2>2 DEF Carried
    <3>3. x \in OpsAt(p)
      BY <2>1, <3>1, <3>2
    <3> QED
      BY <1>9, <2>2, <3>3
  <2>3. CASE p = P
    <3>1. x \in Entering(mem)
      BY <1>6, <2>1, <2>3
    <3>2. Settled(P, x, k)'
      BY <1>1, <1>3, <1>4, <3>1, EntrantSettled
    <3> QED
      BY <2>3, <3>2
  <2> QED
    BY <1>7, <2>1, <2>2, <2>3
<1> QED
  BY <1>5, <1>8, <1>10 DEF Waiting

\* At first no instruction is there, and no creator.
LEMMA InitWaiting == Init => Waiting
<1> SUFFICES ASSUME Init PROVE Waiting
  OBVIOUS
<1>1. Window = {}
  BY DEF Init, Window
<1>2. \A r : StraightWriters(r) = {} /\ AstrayWriters(r) = {}
  BY <1>1 DEF StraightWriters, AstrayWriters
<1>3. \A r \in Regs : create_vector[r] = CVLINK_NULL /\ r \notin use_spec_cv
  BY DEF Init
<1>4. CvTracks
  BY <1>2, <1>3 DEF CvTracks, Tracks
<1> QED
  BY <1>1, <1>4 DEF Waiting, AgensName, OperandsSettled

\* Every step keeps the waiting operands right.
LEMMA NextWaiting == ASSUME Deep, Waiting, [Next]_vars PROVE Waiting'
<1>0. Good
  BY DEF Deep
<1>1. CASE Commit
  BY <1>1, CommitWaiting
<1>2. CASE Wake \/ Refresh
  BY <1>0, <1>2, WakeWaiting, RefreshWaiting
<1>3. ASSUME NEW s \in Stations, Writeback(s) \/ Recover(s) PROVE Waiting'
  BY <1>0, <1>3, WritebackWaiting, RecoverWaiting
<1>4. CASE IssueStore \/ IssueFree \/ IssueLoad \/ IssueOp
  <2>1. Types
    BY <1>0 DEF Good
  <2>2. IssueStep(TRUE) \/ IssueStep(FALSE)
    BY <1>4, <2>1, IssueStoreIs, IssueFreeIs, IssueLoadIs, IssueOpIs
  <2>3. TRUE \in BOOLEAN /\ FALSE \in BOOLEAN
    OBVIOUS
  <2> QED
    BY <1>0, <2>2, <2>3, IssueStepWaiting
<1>5. CASE DispatchOp \/ DispatchMem
  BY <1>5, DispatchWaiting
<1>6. CASE \/ CommitEnd \/ StaleEvent \/ WakeEnd \/ WritebackEnd \/ Requeue \/ StaleNode \/ IssueEnd
           \/ DispatchNop \/ DispatchEnd \/ Fetch \/ FetchMiss \/ FetchEnd \/ NextCycle
           \/ UNCHANGED vars
  BY <1>0, <1>6, QuietWaiting
<1>7. Next => Cycle \/ UNCHANGED vars
  BY DEF Next, Stopped
<1> QED
  BY <1>1, <1>2, <1>3, <1>4, <1>5, <1>6, <1>7 DEF Cycle

\* The invariant of OutOfOrderInvariant, part by part as it is named there.
THEOREM InvariantAlways == Spec => []IInv
<1>1. /\ Deep /\ PanicsForRoom /\ Waiting /\ [Next]_vars => Deep' /\ PanicsForRoom' /\ Waiting'
  BY NextDeep, NextRoom, NextWaiting
<1>2. Init => Deep /\ PanicsForRoom /\ Waiting
  BY InitDeep, InitRoom, InitWaiting
<1>3. ASSUME Deep, PanicsForRoom, Waiting
      PROVE  IInv
  <2>1. /\ Good /\ CvLive /\ ChainsEnd /\ TypeOK /\ CvTypes /\ RingsTyped /\ Rings /\ Kinds
        /\ Accesses /\ WrongPath /\ FetchedStraight /\ Lists /\ Broadcasts
    BY <1>3, GoodTypes DEF Deep
  <2>2. LsqFollowsRuu /\ LsqIsRanked /\ WrongPathIsTail
    BY <2>1, AccessesAre, WrongPathIs
  <2>3. Flagged /\ Counted /\ Tagged /\ Chained /\ MemoryOrder
    BY <2>1, ListsAre
  <2>4. AgensName /\ CvTracks /\ OperandsSettled
    BY <1>3 DEF Waiting
  <2> QED
    BY <1>3, <2>1, <2>2, <2>3, <2>4 DEF IInv
<1>4. Deep /\ PanicsForRoom /\ Waiting => IInv
  BY <1>3
<1> QED
  BY <1>1, <1>2, <1>4, PTL DEF Spec

-----------------------------------------------------------------------------
\* What the operands wait for, in the words of the specification.

\* The producers of the property are the suppliers of the invariant.
LEMMA ProducersAre ==
  ASSUME RingsTyped, Accesses, AgensName, NEW p \in Window, NEW x, NEW k, NEW s, NEW i \in 1 .. 2
  PROVE  <<s, i>> \in Producers(p, x, k) <=> Supplies(p, x, k, s, i)
<1> DEFINE r == OperandName(x, k)
           Outputs(q) == {o \in OpsAt(q) \X (1 .. 2) : rs[o[1]].onames[o[2]] = r}
           older == {q \in 0 .. p - 1 : Outputs(q) # {}}
<1>1. p \in Nat /\ p < RUU_num /\ RUU_num \in Nat /\ NA # DTMP
  <2>1. DTMP \in Nat \ {0}
    BY SizesAssumption DEF DTMP
  <2> QED
    BY <2>1 DEF Window, RingsTyped, NA
<1>2. Producers(p, x, k) = IF r = NA THEN {}
                           ELSE IF r = DTMP THEN {<<RuuAt(p), 1>>}
                           ELSE IF older = {} THEN {} ELSE Outputs(Max(older))
  BY DEF Producers
<1>3. Supplies(p, x, k, s, i) <=>
        \/ r = DTMP /\ s = RuuAt(p) /\ i = 1
        \/ r \notin {NA, DTMP} /\ rs[s].onames[i] = r
           /\ \E q \in WritersBelow(p, r) : LastOf(WritersBelow(p, r), q) /\ s = Writer(q)
  BY DEF Supplies
<1>4. CASE r = NA
  BY <1>1, <1>2, <1>3, <1>4
<1>5. CASE r = DTMP
  BY <1>1, <1>2, <1>3, <1>5
<1>6. CASE r \notin {NA, DTMP}
  <2>1. ASSUME NEW q \in 0 .. p - 1, NEW t, NEW j
        PROVE  <<t, j>> \in Outputs(q) <=> t = Writer(q) /\ j \in 1 .. 2 /\ rs[t].onames[j] = r
    <3>1. q \in Window
      BY <1>1 DEF Window
    <3>2. WriterFacts(q)
      BY <3>1, WriterIs
    <3>3. OpsAt(q) = {RuuAt(q), Writer(q)}
      BY <3>2 DEF WriterFacts
    <3>4. ASSUME t = RuuAt(q), t # Writer(q), j \in 1 .. 2 PROVE rs[t].onames[j] # r
      <4>1. rs[RuuAt(q)].ea_comp
        BY <3>2, <3>4 DEF WriterFacts
      <4>2. rs[t].onames[1] = DTMP /\ rs[t].onames[2] = NA
        BY <3>1, <3>4, <4>1 DEF AgensName
      <4> QED
        BY <1>6, <3>4, <4>2
    <3>5. <<t, j>> \in Outputs(q) <=> t \in OpsAt(q) /\ j \in 1 .. 2 /\ rs[t].onames[j] = r
      OBVIOUS
    <3> HIDE DEF r, Outputs
    <3> QED
      BY <3>3, <3>4, <3>5
  <2>2. ASSUME NEW q \in 0 .. p - 1
        PROVE  Outputs(q) # {} <=> Writes(q, r)
    <3>1. Outputs(q) # {} <=> \E t, j : <<t, j>> \in Outputs(q)
      OBVIOUS
    <3> HIDE DEF r, Outputs
    <3> QED
      BY <2>1, <3>1 DEF Writes
  <2>3. older = WritersBelow(p, r)
    BY <2>2 DEF WritersBelow
  <2>4. older \subseteq 0 .. p - 1
    OBVIOUS
  <2>5. PICK S : S = older
    OBVIOUS
  <2> HIDE DEF r, Outputs, older
  <2>6. CASE S = {}
    BY <1>2, <1>3, <1>6, <2>3, <2>5, <2>6
  <2>7. CASE S # {}
    <3>1. PICK m : m = Max(S)
      OBVIOUS
    <3>2. m \in S /\ \A h \in S : h <= m
      <4>1. S \subseteq 0 .. p - 1
        BY <2>4, <2>5
      <4> QED
        BY ONLY <1>1, <2>7, <3>1, <4>1, MaxIs
    <3>3. LastOf(S, m) /\ m \in 0 .. p - 1
      BY <2>4, <2>5, <3>2 DEF LastOf
    <3>4. \A q : LastOf(S, q) => q = m
      <4>1. S \subseteq Int
        BY <1>1, <2>4, <2>5
      <4> QED
        BY ONLY <3>3, <4>1, LastUnique
    <3>5. Producers(p, x, k) = Outputs(m)
      BY <1>2, <1>6, <2>5, <2>7, <3>1
    <3>6. <<s, i>> \in Outputs(m) <=> s = Writer(m) /\ rs[s].onames[i] = r
      BY <2>1, <3>3
    <3>7. Supplies(p, x, k, s, i) <=> rs[s].onames[i] = r /\ \E q \in S : LastOf(S, q) /\ s = Writer(q)
      BY <1>3, <1>6, <2>3, <2>5
    <3> QED
      BY <3>2, <3>3, <3>4, <3>5, <3>6, <3>7
  <2> QED
    BY <2>6, <2>7
<1> QED
  BY <1>4, <1>5, <1>6

\* A producer is a station and the number of one of its outputs.
LEMMA ProducersPaired ==
  ASSUME NEW p, NEW x, NEW k, NEW o \in Producers(p, x, k)
  PROVE  \E s, i : i \in 1 .. 2 /\ o = <<s, i>>
<1>1. CASE o = <<RuuAt(p), 1>>
  BY <1>1
<1>2. CASE \E q : o \in OpsAt(q) \X (1 .. 2)
  BY <1>2
<1>3. o = <<RuuAt(p), 1>> \/ \E q : o \in OpsAt(q) \X (1 .. 2)
  BY Zenon DEF Producers
<1> QED
  BY <1>1, <1>2, <1>3

\* A link to an operand is on its chain once.
LEMMA OneLinkTo ==
  ASSUME Good, NEW s \in Stations, NEW i \in 1 .. 2, NEW x \in Stations, NEW k, HasLink(rs, s, i, x, k)
  PROVE  Cardinality(LinksTo(x, k, s, i)) = 1
<1>1. rs \in [Stations -> Station] /\ Alone(rs)
  BY GoodTypes, TypesGive DEF LinkInv, Good, Lists
<1>2. PICK h \in DOMAIN rs[s].odep_list[i] :
        rs[s].odep_list[i][h] = [rs |-> x, tag |-> rs[x].tag, opnum |-> k]
  BY DEF HasLink
<1>3. ASSUME NEW j \in LinksTo(x, k, s, i) PROVE j = h
  <2>1. /\ j \in DOMAIN rs[s].odep_list[i]
        /\ rs[s].odep_list[i][j] = [rs |-> x, tag |-> rs[x].tag, opnum |-> k]
    BY <1>3 DEF LinksTo
  <2>2. j \in Nat /\ h \in Nat
    BY <1>1, <1>2, <2>1, LinkTyped
  <2>3. /\ LinkAt(rs, s, i, j).rs = x /\ LinkAt(rs, s, i, j).tag = rs[x].tag /\ LinkAt(rs, s, i, j).opnum = k
        /\ LinkAt(rs, s, i, h).rs = x /\ LinkAt(rs, s, i, h).tag = rs[x].tag /\ LinkAt(rs, s, i, h).opnum = k
    BY <1>2, <2>1 DEF LinkAt
  <2>4. Waits(rs, s, i, j) /\ Waits(rs, s, i, h)
    BY <1>2, <2>1, <2>3 DEF Waits
  <2> QED
    BY <1>1, <2>2, <2>3, <2>4 DEF Alone
<1>4. h \in LinksTo(x, k, s, i)
  BY <1>2 DEF LinksTo
<1>5. LinksTo(x, k, s, i) = {h}
  BY <1>3, <1>4
<1> QED
  BY <1>5, FS_Singleton

\* The invariant implies that operands wait for the youngest older writer.
LEMMA WaitsIs == Deep /\ Waiting => WaitsForYoungest
<1> SUFFICES ASSUME Deep, Waiting PROVE WaitsForYoungest
  OBVIOUS
<1>1. /\ Good /\ RingsTyped /\ Accesses /\ ChainsEnd /\ AgensName /\ OperandsSettled
  BY GoodTypes DEF Deep, Waiting
<1>2. SUFFICES ASSUME NEW p \in Window, NEW x \in OpsAt(p), NEW k \in 1 .. 3
               PROVE  IF rs[x].idep_ready[k]
                      THEN \A o \in Producers(p, x, k) : rs[o[1]].completed
                      ELSE \E o \in Producers(p, x, k) :
                             /\ rs[o[1]].completed => o[1] = wb
                             /\ Cardinality(LinksTo(x, k, o[1], o[2])) = 1
  BY DEF WaitsForYoungest
<1>3. Settled(p, x, k) /\ x \in Stations
  <2>1. WriterFacts(p)
    BY <1>1, WriterIs
  <2> QED
    BY <1>1, <2>1 DEF OperandsSettled, WriterFacts
<1>4. \A s, i : Supplies(p, x, k, s, i) => s \in Stations
  BY <1>1, SuppliersAre
<1>5. CASE rs[x].idep_ready[k]
  <2>1. SUFFICES ASSUME NEW o \in Producers(p, x, k) PROVE rs[o[1]].completed
    BY <1>5
  <2>2. PICK s, i : i \in 1 .. 2 /\ o = <<s, i>>
    BY <2>1, ProducersPaired
  <2>3. Supplies(p, x, k, s, i)
    <3>1. RingsTyped /\ Accesses /\ AgensName
      BY <1>1
    <3>2. p \in Window /\ i \in 1 .. 2
      BY <2>2
    <3>3. <<s, i>> \in Producers(p, x, k)
      BY <2>1, <2>2
    <3> HIDE DEF Producers, Supplies
    <3> QED
      BY ONLY <3>1, <3>2, <3>3, ProducersAre
  <2>4. rs[s].completed
    BY <1>3, <1>4, <1>5, <2>2, <2>3 DEF Settled
  <2> QED
    BY <2>2, <2>4
<1>6. CASE ~ rs[x].idep_ready[k]
  <2>1. PICK s \in Stations, i \in 1 .. 2 : Supplies(p, x, k, s, i) /\ HasLink(rs, s, i, x, k)
    BY <1>3, <1>6 DEF Settled
  <2>2. <<s, i>> \in Producers(p, x, k)
    BY <1>1, <2>1, ProducersAre
  <2>3. rs[s].completed => s = wb
    <3>1. rs[s].odep_list[i] # <<>>
      BY <2>1 DEF HasLink
    <3> QED
      BY <1>1, <3>1 DEF ChainsEnd
  <2>4. Cardinality(LinksTo(x, k, s, i)) = 1
    BY <1>1, <1>3, <2>1, OneLinkTo
  <2>5. PICK o : o = <<s, i>>
    OBVIOUS
  <2>6. o \in Producers(p, x, k) /\ o[1] = s /\ o[2] = i
    BY <2>2, <2>5
  <2> QED
    BY <1>6, <2>3, <2>4, <2>6
<1> QED
  BY <1>5, <1>6

\* An operand is missing exactly as long as the youngest older writer of its register, on its path, has
\* not delivered it, and it will be delivered once: the create vectors, their copy for the wrong
\* path and the output chains make it so, over dispatches, broadcasts, retirements and squashes.
THEOREM OperandsAlwaysWait == Spec => []WaitsForYoungest
<1>1. Deep /\ Waiting /\ [Next]_vars => Deep' /\ Waiting'
  BY NextDeep, NextWaiting
<1>2. Init => Deep /\ Waiting
  BY InitDeep, InitWaiting
<1> QED
  BY <1>1, <1>2, WaitsIs, PTL DEF Spec

-----------------------------------------------------------------------------
\* The window of the program: the entries of the RUU in front of the wrong path.
PathFacts ==
  /\ PathLength \in Nat /\ PathLength <= RUU_num
  /\ \A p \in Window : p < PathLength <=> ~ rs[RuuAt(p)].spec_mode
  /\ ~ spec_mode => PathLength = RUU_num

\* The correct path is all of the RUU, or ends with the mispredicted branch.
LEMMA PathIs == RingsTyped /\ WrongPath => PathFacts
<1> SUFFICES ASSUME RingsTyped, WrongPath PROVE PathFacts
  OBVIOUS
<1> DEFINE S == {p \in Window : ~ rs[RuuAt(p)].spec_mode}
<1>1. RUU_num \in Nat
  <2>1. config \in Configs /\ RUU_num \in 0 .. RUU_size
    BY DEF RingsTyped
  <2> QED
    BY <2>1, SizeType
<1>2. PathLength = Cardinality(S)
  BY DEF PathLength
<1>3. CASE spec_mode
  <2>1. PICK b \in Nat : b \in Branches
    BY <1>3 DEF WrongPath
  <2>2. b < RUU_num /\ \A p \in Window : rs[RuuAt(p)].spec_mode <=> p > b
    BY <1>1, <2>1 DEF WrongPath, Branches, Window
  <2>3. S = 0 .. b
    BY <1>1, <2>1, <2>2 DEF Window
  <2>4. Cardinality(S) = b + 1
    <3> HIDE DEF S
    <3>1. 0 \in Int /\ b \in Int /\ ~ 0 > b
      BY <2>1
    <3> QED
      BY <2>3, <3>1, FS_Interval
  <2>5. ASSUME NEW p \in Window PROVE p < b + 1 <=> ~ rs[RuuAt(p)].spec_mode
    <3>1. p < b + 1 <=> ~ p > b
      BY <1>1, <2>1 DEF Window
    <3> QED
      BY <2>2, <3>1
  <2> HIDE DEF S
  <2> QED
    BY <1>1, <1>2, <1>3, <2>1, <2>2, <2>4, <2>5 DEF PathFacts
<1>4. CASE ~ spec_mode
  <2>1. \A p \in Window : ~ rs[RuuAt(p)].spec_mode
    BY <1>4 DEF WrongPath
  <2>2. S = 0 .. RUU_num - 1
    BY <2>1 DEF Window
  <2>3. Cardinality(S) = RUU_num
    <3>1. 0 \in Int /\ RUU_num - 1 \in Int
      BY <1>1
    <3> HIDE DEF S
    <3> QED
      BY <1>1, <2>2, <3>1, FS_Interval
  <2> HIDE DEF S
  <2> QED
    BY <1>1, <1>2, <2>1, <2>3 DEF PathFacts, Window
<1> QED
  BY <1>3, <1>4

WindowFacts ==
  /\ PathWindow \in Seq(Nat) /\ Len(PathWindow) = PathLength
  /\ \A i \in 1 .. PathLength : PathWindow[i] = rs[RuuAt(i - 1)].PC

\* The addresses of the correct path, oldest first.
LEMMA WindowIs == TypeOK /\ PathFacts => WindowFacts
<1> SUFFICES ASSUME TypeOK, PathFacts PROVE WindowFacts
  OBVIOUS
<1>1. RingsTyped /\ RUU_num \in Nat /\ RUU_num <= RUU_size /\ RUU_size \in Nat \ {0}
  BY RingsAreTyped, SizeType DEF RingsTyped
<1>2. PathLength \in Nat /\ PathLength <= RUU_num
  BY DEF PathFacts
<1>3. ASSUME NEW i \in 1 .. PathLength PROVE rs[RuuAt(i - 1)].PC \in Nat
  <2>1. i - 1 \in 0 .. RUU_size - 1
    BY <1>1, <1>2, <1>3
  <2>2. RuuAt(i - 1) \in Stations
    BY <1>1, <2>1, Slots
  <2> QED
    BY <2>2 DEF TypeOK, Station
<1> DEFINE e(i) == rs[RuuAt(i - 1)].PC
<1>4. PathWindow = [i \in 1 .. PathLength |-> e(i)]
  BY DEF PathWindow
<1>5. \A i \in 1 .. PathLength : e(i) \in Nat
  BY <1>3
<1> HIDE DEF e
<1>6. PathWindow \in Seq(Nat) /\ Len(PathWindow) = PathLength
      /\ \A i \in 1 .. PathLength : PathWindow[i] = e(i)
  BY <1>2, <1>4, <1>5, IsASeq
<1> QED
  BY <1>6 DEF WindowFacts, e

\* Two windows of as many instructions, at the same addresses.
LEMMA WindowSameAs ==
  ASSUME WindowFacts, WindowFacts', PathLength' = PathLength, PathLength \in Nat,
         \A p \in Nat : p < PathLength => rs'[RuuAt(p)'].PC = rs[RuuAt(p)].PC
  PROVE  PathWindow' = PathWindow
<1>1. /\ PathWindow \in Seq(Nat) /\ Len(PathWindow) = PathLength
      /\ \A i \in 1 .. PathLength : PathWindow[i] = rs[RuuAt(i - 1)].PC
      /\ PathWindow' \in Seq(Nat) /\ Len(PathWindow') = PathLength
      /\ \A i \in 1 .. PathLength : PathWindow'[i] = rs'[RuuAt(i - 1)'].PC
  BY DEF WindowFacts
<1>2. ASSUME NEW i \in 1 .. PathLength PROVE PathWindow'[i] = PathWindow[i]
  <2>1. i - 1 \in Nat /\ i - 1 < PathLength
    BY <1>2
  <2>2. rs'[RuuAt(i - 1)'].PC = rs[RuuAt(i - 1)].PC
    BY <2>1
  <2> QED
    BY <1>1, <1>2, <2>2
<1> QED
  BY <1>1, <1>2, SeqEqual

\* Two bounds that tell the places below N apart in the same way are equal.
LEMMA BoundIs ==
  ASSUME NEW N \in Nat, NEW a \in Nat, NEW b \in Nat, a <= N, b <= N,
         \A p \in 0 .. N - 1 : p < a <=> p < b
  PROVE  a = b
<1>1. ~ a < b
  <2>1. SUFFICES ASSUME a < b PROVE FALSE
    OBVIOUS
  <2>2. a \in 0 .. N - 1
    BY <2>1
  <2> QED
    BY <2>1, <2>2
<1>2. ~ b < a
  <2>1. SUFFICES ASSUME b < a PROVE FALSE
    OBVIOUS
  <2>2. b \in 0 .. N - 1
    BY <2>1
  <2> QED
    BY <2>1, <2>2
<1> QED
  BY <1>1, <1>2

\* What the window of the program is, now and after a step.
LEMMA PathNow == Good => PathFacts /\ WindowFacts
BY GoodTypes, PathIs, WindowIs

\* The same after a step.
LEMMA PathThen ==
  ASSUME Good'
  PROVE  PathFacts' /\ WindowFacts'
BY PathNow, PTL

-----------------------------------------------------------------------------
\* The fetch queue holds a path: each instruction is where its predecessor was predicted to go on,
\* and fetch goes on behind the youngest.
FetchFollows ==
  \A i \in DOMAIN fetch_data :
    fetch_data[i].pred_PC = IF i < Len(fetch_data) THEN fetch_data[i + 1].regs_PC ELSE fetch_pred_PC

\* Where the oldest of the queue is predicted to go on, the queue goes on.
LEMMA HeadFollows ==
  ASSUME TypeOK, FetchFollows, fetch_data # <<>>
  PROVE  Head(fetch_data).pred_PC = IF Tail(fetch_data) # <<>> THEN Head(Tail(fetch_data)).regs_PC
                                    ELSE fetch_pred_PC
<1>1. fetch_data \in Seq([regs_PC : Nat, pred_PC : Nat])
  BY DEF TypeOK
<1>2. /\ Tail(fetch_data) \in Seq([regs_PC : Nat, pred_PC : Nat]) /\ Len(fetch_data) \in Nat \ {0}
      /\ Len(Tail(fetch_data)) = Len(fetch_data) - 1
      /\ \A i \in DOMAIN Tail(fetch_data) : i + 1 \in DOMAIN fetch_data /\ Tail(fetch_data)[i] = fetch_data[i + 1]
  BY <1>1, SeqParts
<1>3. 1 \in DOMAIN fetch_data /\ Head(fetch_data) = fetch_data[1]
  BY <1>1, <1>2
<1>4. fetch_data[1].pred_PC = IF 1 < Len(fetch_data) THEN fetch_data[2].regs_PC ELSE fetch_pred_PC
  BY <1>3 DEF FetchFollows
<1>5. CASE Tail(fetch_data) # <<>>
  <2> DEFINE t == Tail(fetch_data)
  <2>0. t \in Seq([regs_PC : Nat, pred_PC : Nat]) /\ t # <<>> /\ Len(t) = Len(fetch_data) - 1
        /\ Len(fetch_data) \in Nat
    BY <1>2, <1>5
  <2>1. 1 < Len(fetch_data) /\ 1 \in DOMAIN Tail(fetch_data) /\ Head(Tail(fetch_data)) = Tail(fetch_data)[1]
    <3> HIDE DEF t
    <3>1. Len(t) \in Nat \ {0} /\ 1 \in DOMAIN t /\ Head(t) = t[1]
      BY <2>0, SeqParts
    <3>2. 1 < Len(fetch_data)
      BY <2>0, <3>1
    <3> QED
      BY <3>1, <3>2 DEF t
  <2>2. Tail(fetch_data)[1] = fetch_data[2]
    BY <1>2, <2>1
  <2> QED
    BY <1>3, <1>4, <1>5, <2>1, <2>2
<1>6. CASE Tail(fetch_data) = <<>>
  <2> DEFINE t == Tail(fetch_data)
  <2>1. t \in Seq([regs_PC : Nat, pred_PC : Nat]) /\ t = <<>> /\ Len(t) = Len(fetch_data) - 1
        /\ Len(fetch_data) \in Nat
    BY <1>2, <1>6
  <2> HIDE DEF t
  <2>2. ~ 1 < Len(fetch_data)
    <3>1. Len(<<>>) = 0
      OBVIOUS
    <3>2. Len(t) = 0
      BY <2>1, <3>1
    <3>3. Len(fetch_data) = 1
      BY <2>1, <3>2
    <3> QED
      BY <3>3
  <2> QED
    BY <1>3, <1>4, <1>6, <2>2
<1> QED
  BY <1>5, <1>6

\* The rest of the queue is a path too.
LEMMA TailFollows ==
  ASSUME TypeOK, FetchFollows, fetch_data # <<>>, fetch_data' = Tail(fetch_data),
         fetch_pred_PC' = fetch_pred_PC
  PROVE  FetchFollows'
<1>1. fetch_data \in Seq([regs_PC : Nat, pred_PC : Nat])
  BY DEF TypeOK
<1>2. /\ fetch_data' \in Seq([regs_PC : Nat, pred_PC : Nat]) /\ Len(fetch_data) \in Nat \ {0}
      /\ Len(fetch_data') = Len(fetch_data) - 1
      /\ \A i \in DOMAIN fetch_data' : i + 1 \in DOMAIN fetch_data /\ fetch_data'[i] = fetch_data[i + 1]
  BY <1>1, SeqParts
<1>3. ASSUME NEW i \in DOMAIN fetch_data'
      PROVE  fetch_data'[i].pred_PC = IF i < Len(fetch_data') THEN fetch_data'[i + 1].regs_PC
                                      ELSE fetch_pred_PC'
  <2>1. /\ i \in Nat /\ i + 1 \in DOMAIN fetch_data /\ fetch_data'[i] = fetch_data[i + 1]
    BY <1>2, <1>3
  <2>2. fetch_data[i + 1].pred_PC = IF i + 1 < Len(fetch_data) THEN fetch_data[(i + 1) + 1].regs_PC
                                    ELSE fetch_pred_PC
    BY <2>1 DEF FetchFollows
  <2>3. i < Len(fetch_data') <=> i + 1 < Len(fetch_data)
    BY <1>2, <2>1
  <2>4. i < Len(fetch_data') => i + 1 \in DOMAIN fetch_data'
    BY <1>2, <2>1
  <2> QED
    BY <1>2, <2>1, <2>2, <2>3, <2>4
<1> QED
  BY <1>3 DEF FetchFollows

\* The queue is a path again when it is emptied, or with the instruction that ruu_fetch adds.
LEMMA FetchedFollows ==
  ASSUME Types, FetchFollows
  PROVE  /\ fetch_data' = <<>> => FetchFollows'
         /\ UNCHANGED <<fetch_data, fetch_pred_PC>> => FetchFollows'
         /\ Fetch => FetchFollows'
<1>1. fetch_data' = <<>> => FetchFollows'
  BY DEF FetchFollows
<1>2. UNCHANGED <<fetch_data, fetch_pred_PC>> => FetchFollows'
  BY DEF FetchFollows
<1>3. ASSUME Fetch PROVE FetchFollows'
  <2> DEFINE L == [regs_PC : Nat, pred_PC : Nat]
  <2>1. fetch_data \in Seq(L) /\ fetch_pred_PC \in Nat
    BY TypesAre DEF TypeOK
  <2>2. PICK next \in Nat : /\ fetch_data' = Append(fetch_data, [regs_PC |-> fetch_pred_PC, pred_PC |-> next])
                            /\ fetch_pred_PC' = next
    BY <1>3, FetchIs
  <2> DEFINE e == [regs_PC |-> fetch_pred_PC, pred_PC |-> next]
  <2>3. e \in L /\ e.regs_PC = fetch_pred_PC /\ e.pred_PC = next /\ fetch_data' = Append(fetch_data, e)
    BY <2>1, <2>2
  <2> HIDE DEF e, L
  <2>4. /\ fetch_data' \in Seq(L) /\ Len(fetch_data) \in Nat /\ Len(fetch_data') = Len(fetch_data) + 1
        /\ DOMAIN fetch_data = 1 .. Len(fetch_data) /\ DOMAIN fetch_data' = 1 .. Len(fetch_data) + 1
        /\ \A i \in 1 .. Len(fetch_data) : fetch_data'[i] = fetch_data[i]
        /\ fetch_data'[Len(fetch_data) + 1] = e
    BY <2>1, <2>3, AppendProperties, LenProperties
  <2>5. ASSUME NEW i \in DOMAIN fetch_data'
        PROVE  fetch_data'[i].pred_PC = IF i < Len(fetch_data') THEN fetch_data'[i + 1].regs_PC
                                        ELSE fetch_pred_PC'
    <3>1. CASE i = Len(fetch_data) + 1
      BY <2>2, <2>3, <2>4, <3>1
    <3>2. CASE i = Len(fetch_data)
      <4>1. i \in DOMAIN fetch_data /\ ~ i < Len(fetch_data) /\ i < Len(fetch_data')
        BY <2>4, <2>5, <3>2
      <4>2. fetch_data[i].pred_PC = fetch_pred_PC
        BY <4>1 DEF FetchFollows
      <4>3. fetch_data'[i] = fetch_data[i] /\ fetch_data'[i + 1] = e
        BY <2>4, <3>2, <4>1
      <4> QED
        BY <2>3, <4>1, <4>2, <4>3
    <3>3. CASE i # Len(fetch_data) + 1 /\ i # Len(fetch_data)
      <4>1. i \in DOMAIN fetch_data /\ i + 1 \in DOMAIN fetch_data /\ i < Len(fetch_data) /\ i < Len(fetch_data')
        BY <2>4, <2>5, <3>3
      <4>2. fetch_data[i].pred_PC = fetch_data[i + 1].regs_PC
        BY <4>1 DEF FetchFollows
      <4>3. fetch_data'[i] = fetch_data[i] /\ fetch_data'[i + 1] = fetch_data[i + 1]
        BY <2>4, <4>1
      <4> QED
        BY <4>1, <4>2, <4>3
    <3> QED
      BY <3>1, <3>2, <3>3
  <2> QED
    BY <2>5 DEF FetchFollows
<1> QED
  BY <1>1, <1>2, <1>3

\* An instruction that executes: on the correct path the program goes on at its regs_NPC, and a
\* wrong path leaves the program where it is.
LEMMA ExecuteMoves ==
  ASSUME Types, FetchFollows, fetch_data # <<>>, NEW npc, Execute(npc)
  PROVE  /\ FetchFollows'
         /\ spec_mode => PathPC' = PathPC
         /\ ~ spec_mode => PathPC = Head(fetch_data).regs_PC /\ PathPC' = npc
<1>1. TypeOK
  BY TypesAre
<1>2. /\ Redirect(npc) => fetch_data' = <<>> /\ fetch_pred_PC' = npc
      /\ ~ Redirect(npc) => fetch_data' = Tail(fetch_data) /\ fetch_pred_PC' = fetch_pred_PC
  BY DEF Execute
<1>3. FetchFollows'
  BY <1>1, <1>2, TailFollows, FetchedFollows
<1>4. ASSUME spec_mode PROVE PathPC' = PathPC
  <2>1. ~ Mispredicted(npc)
    BY <1>4 DEF Mispredicted
  <2>2. spec_mode' /\ recover_PC' = recover_PC
    BY <1>4, <2>1 DEF Execute
  <2> QED
    BY <1>4, <2>2 DEF PathPC
<1>5. ASSUME ~ spec_mode PROVE PathPC = Head(fetch_data).regs_PC /\ PathPC' = npc
  <2>1. PathPC = Head(fetch_data).regs_PC
    BY <1>5 DEF PathPC
  <2>2. CASE Mispredicted(npc)
    <3>1. spec_mode' /\ recover_PC' = npc
      BY <2>2 DEF Execute
    <3> QED
      BY <2>1, <3>1 DEF PathPC
  <2>3. CASE ~ Mispredicted(npc)
    <3>1. ~ spec_mode'
      BY <1>5, <2>3 DEF Execute
    <3>2. CASE Redirect(npc)
      BY <1>2, <2>1, <3>1, <3>2 DEF PathPC
    <3>3. CASE ~ Redirect(npc)
      <4>1. Head(fetch_data).pred_PC = npc
        BY <1>5, <2>3, <3>3 DEF Mispredicted
      <4>2. npc = IF fetch_data' # <<>> THEN Head(fetch_data').regs_PC ELSE fetch_pred_PC'
        BY <1>1, <1>2, <3>3, <4>1, HeadFollows
      <4> QED
        BY <2>1, <3>1, <4>2 DEF PathPC
    <3> QED
      BY <3>2, <3>3
  <2> QED
    BY <2>2, <2>3
<1> QED
  BY <1>3, <1>4, <1>5

-----------------------------------------------------------------------------
\* The steps of the pipeline are steps of the program, or leave it alone.

\* Where the program goes on depends on the mode and on the fetch queue only.
LEMMA PathPcKept == UNCHANGED <<specVars, fetch_data, fetch_pred_PC>> => PathPC' = PathPC
BY DEF specVars, PathPC

\* A step that changes neither text nor window nor fetch queue leaves the program alone.
LEMMA QuietPath ==
  ASSUME Good, Good', FetchFollows, RsTyped, TextKept, WindowKept,
         UNCHANGED <<specVars, fetch_data, fetch_pred_PC>>
  PROVE  UNCHANGED Program!vars /\ FetchFollows'
<1>0. Types /\ RingsTyped
  BY GoodTypes
<1>1. PathFacts /\ WindowFacts /\ PathFacts' /\ WindowFacts'
  BY PathNow, PathThen
<1>2. /\ Window' = Window /\ RUU_num' = RUU_num /\ code' = code
      /\ \A p : RuuAt(p)' = RuuAt(p)
  BY WindowSame
<1>3. RUU_num \in Nat /\ RUU_num <= RUU_size /\ RUU_size \in Nat
  BY <1>0, SizeType DEF RingsTyped
<1>4. \A p \in 0 .. RUU_num - 1 :
        /\ SameText(rs'[RuuAt(p)'], rs[RuuAt(p)])
  <2>1. \A p \in 0 .. RUU_num - 1 : RuuAt(p) \in Stations
    BY <1>0, <1>3, Slots
  <2> QED
    BY <1>2, <2>1 DEF TextKept
<1>5. PathLength' = PathLength /\ PathLength \in Nat /\ PathLength <= RUU_num
  <2>1. PathLength \in Nat /\ PathLength' \in Nat /\ PathLength <= RUU_num /\ PathLength' <= RUU_num
    BY <1>1, <1>2 DEF PathFacts
  <2>2. ASSUME NEW p \in 0 .. RUU_num - 1 PROVE p < PathLength' <=> p < PathLength
    <3>1. p \in Window /\ p \in Window'
      BY <1>2, <2>2 DEF Window
    <3>2. /\ p < PathLength <=> ~ rs[RuuAt(p)].spec_mode
          /\ p < PathLength' <=> ~ rs'[RuuAt(p)'].spec_mode
      BY <1>1, <3>1 DEF PathFacts
    <3>3. rs'[RuuAt(p)'].spec_mode = rs[RuuAt(p)].spec_mode
      BY <1>4, <2>2 DEF SameText
    <3> QED
      BY <3>2, <3>3
  <2> QED
    BY <1>3, <2>1, <2>2, BoundIs
<1>6. PathWindow' = PathWindow
  <2>1. ASSUME NEW p \in Nat, p < PathLength PROVE rs'[RuuAt(p)'].PC = rs[RuuAt(p)].PC
    <3>1. p \in 0 .. RUU_num - 1
      BY <1>3, <1>5, <2>1
    <3> QED
      BY <1>4, <3>1 DEF SameText
  <2> QED
    BY <1>1, <1>5, <2>1, WindowSameAs
<1>7. FetchFollows'
  BY <1>0, FetchedFollows
<1> QED
  BY <1>2, <1>6, <1>7, PathPcKept DEF Program!vars

\* Retirement in the words of the program.
LEMMA CommitRetires ==
  ASSUME Good, Good', FetchFollows, Commit
  PROVE  Program!Retire /\ FetchFollows'
<1>0. Types /\ TypeOK /\ RingsTyped /\ Accesses /\ WrongPath
  BY GoodTypes
<1>1. PathFacts /\ WindowFacts /\ PathFacts' /\ WindowFacts'
  BY PathNow, PathThen
<1>2. /\ RUU_num \in Nat /\ RUU_num > 0 /\ RUU_num' = RUU_num - 1 /\ code' = code
      /\ \A p \in 0 .. RUU_size - 1 : RuuAt(p)' = RuuAt(p + 1)
      /\ RUU_num <= RUU_size /\ RUU_size \in Nat
  BY <1>0, SizeType, CommitNumbers, CommitWindow DEF RingsTyped
<1>3. TextKept /\ \A p \in 0 .. RUU_size - 1 : RuuAt(p) \in Stations
  BY <1>0, CommitEffect, Slots
<1>4. \A p \in 0 .. RUU_num - 2 : SameText(rs'[RuuAt(p)'], rs[RuuAt(p + 1)])
  <2>1. ASSUME NEW p \in 0 .. RUU_num - 2 PROVE SameText(rs'[RuuAt(p)'], rs[RuuAt(p + 1)])
    <3>1. p \in 0 .. RUU_size - 1 /\ p + 1 \in 0 .. RUU_size - 1
      BY <1>2, <2>1
    <3> QED
      BY <1>2, <1>3, <3>1 DEF TextKept
  <2> QED
    BY <2>1
<1>5. 0 < PathLength
  <2>1. 0 \in Window /\ RuuAt(0) = RuuHead /\ rs[RuuHead].completed
    BY <1>0, <1>2, Slots DEF Window, Commit, CanCommit
  <2>2. ~ rs[RuuAt(0)].spec_mode
    <3>1. CASE spec_mode
      <4>1. PICK b \in Nat : b \in Branches
        BY <1>0, <3>1 DEF WrongPath
      <4>2. ~ 0 > b
        BY <4>1
      <4> QED
        BY <1>0, <2>1, <4>1, <4>2 DEF WrongPath
    <3>2. CASE ~ spec_mode
      BY <1>0, <2>1, <3>2 DEF WrongPath
    <3> QED
      BY <3>1, <3>2
  <2> QED
    BY <1>1, <2>1, <2>2 DEF PathFacts
<1>6. PathLength' = PathLength - 1 /\ PathLength \in Nat /\ PathLength <= RUU_num
  <2>1. PathLength \in Nat /\ PathLength' \in Nat /\ PathLength <= RUU_num /\ PathLength' <= RUU_num'
    BY <1>1 DEF PathFacts
  <2>2. ASSUME NEW p \in 0 .. RUU_num' - 1 PROVE p < PathLength' <=> p < PathLength - 1
    <3>1. p + 1 \in Window /\ p \in Window' /\ p \in 0 .. RUU_num - 2
      BY <1>2, <2>2 DEF Window
    <3>2. /\ p + 1 < PathLength <=> ~ rs[RuuAt(p + 1)].spec_mode
          /\ p < PathLength' <=> ~ rs'[RuuAt(p)'].spec_mode
      BY <1>1, <3>1 DEF PathFacts
    <3>3. rs'[RuuAt(p)'].spec_mode = rs[RuuAt(p + 1)].spec_mode
      BY <1>4, <3>1 DEF SameText
    <3>4. p + 1 < PathLength <=> p < PathLength - 1
      BY <2>1, <3>1
    <3> QED
      BY <3>2, <3>3, <3>4
  <2>3. PathLength - 1 \in Nat /\ PathLength - 1 <= RUU_num' /\ RUU_num' \in Nat
    BY <1>2, <1>5, <2>1
  <2>4. PathLength' = PathLength - 1
    BY <2>1, <2>2, <2>3, BoundIs
  <2> QED
    BY <2>1, <2>4
<1>7. PathWindow # <<>> /\ PathWindow' = Tail(PathWindow)
  <2>1. /\ PathWindow \in Seq(Nat) /\ Len(PathWindow) = PathLength
        /\ \A i \in 1 .. PathLength : PathWindow[i] = rs[RuuAt(i - 1)].PC
        /\ PathWindow' \in Seq(Nat) /\ Len(PathWindow') = PathLength'
        /\ \A i \in 1 .. PathLength' : PathWindow'[i] = rs'[RuuAt(i - 1)'].PC
    BY <1>1 DEF WindowFacts
  <2>2. PathWindow # <<>>
    BY <1>5, <2>1
  <2>3. /\ Tail(PathWindow) \in Seq(Nat) /\ Len(Tail(PathWindow)) = PathLength - 1
        /\ \A i \in 1 .. PathLength - 1 : Tail(PathWindow)[i] = PathWindow[i + 1]
    BY <2>1, <2>2, HeadTailProperties
  <2>4. ASSUME NEW i \in 1 .. PathLength - 1 PROVE PathWindow'[i] = Tail(PathWindow)[i]
    <3>1. i - 1 \in 0 .. RUU_num - 2 /\ (i - 1) + 1 = i /\ i + 1 \in 1 .. PathLength /\ (i + 1) - 1 = i
      BY <1>2, <1>6, <2>4
    <3>2. PathWindow'[i] = rs'[RuuAt(i - 1)'].PC /\ PathWindow[i + 1] = rs[RuuAt(i)].PC
      BY <1>6, <2>1, <2>4, <3>1
    <3>3. rs'[RuuAt(i - 1)'].PC = rs[RuuAt(i)].PC
      BY <1>4, <3>1 DEF SameText
    <3> QED
      BY <2>3, <2>4, <3>2, <3>3
  <2>5. PathWindow' = Tail(PathWindow)
    BY <1>6, <2>1, <2>3, <2>4, SeqEqual
  <2> QED
    BY <2>2, <2>5
<1>8. UNCHANGED <<specVars, fetch_data, fetch_pred_PC>>
  BY DEF Commit, fetchVars
<1> QED
  BY <1>0, <1>2, <1>7, <1>8, PathPcKept, FetchedFollows DEF Program!Retire

\* Recovery takes the wrong path out of the machine, and fetch to where the program goes on.
LEMMA RecoverPath ==
  ASSUME Good, Good', FetchFollows, NEW b \in Stations, Recover(b)
  PROVE  UNCHANGED Program!vars /\ FetchFollows'
<1>0. Types /\ TypeOK /\ RingsTyped /\ Kinds /\ WrongPath /\ Counted /\ Accesses
  BY GoodTypes
<1>1. PathFacts /\ WindowFacts /\ PathFacts' /\ WindowFacts'
  BY PathNow, PathThen
<1>2. /\ Pos(b) \in Window /\ Pos(b) \in Nat /\ Pos(b) < RUU_num /\ spec_mode
      /\ \A p \in Window : rs[RuuAt(p)].spec_mode <=> p > Pos(b)
  BY <1>0, RecoverIs
<1>3. RUU_num' = Pos(b) + 1 /\ code' = code /\ RUU_num \in Nat
  BY <1>0, RecoverNumbers
<1>4. \A p : RuuAt(p)' = RuuAt(p)
  BY <1>0, RecoverWindow
<1>5. ~ spec_mode' /\ fetch_data' = <<>> /\ fetch_pred_PC' = recover_PC
  BY DEF Recover
<1>6. PathLength' = Pos(b) + 1
  BY <1>1, <1>3, <1>5 DEF PathFacts
<1>7. PathLength = Pos(b) + 1 /\ PathLength \in Nat /\ PathLength <= RUU_num
  <2>1. PathLength \in Nat /\ PathLength <= RUU_num
    BY <1>1 DEF PathFacts
  <2>2. ASSUME NEW p \in 0 .. RUU_num - 1 PROVE p < PathLength <=> p < Pos(b) + 1
    <3>1. p \in Window
      BY <2>2 DEF Window
    <3>2. p < PathLength <=> ~ p > Pos(b)
      BY <1>1, <1>2, <3>1 DEF PathFacts
    <3>3. ~ p > Pos(b) <=> p < Pos(b) + 1
      BY <1>2, <2>2
    <3> QED
      BY <3>2, <3>3
  <2>3. Pos(b) + 1 \in Nat /\ Pos(b) + 1 <= RUU_num
    BY <1>2, <1>3
  <2>4. PathLength = Pos(b) + 1
    BY <1>3, <2>1, <2>2, <2>3, BoundIs
  <2> QED
    BY <2>1, <2>4
<1>8. PathWindow' = PathWindow
  <2>1. TextKept /\ RUU_num <= RUU_size /\ RUU_size \in Nat
    BY <1>0, RecoverEffect, SizeType DEF RingsTyped
  <2>2. ASSUME NEW p \in Nat, p < PathLength PROVE rs'[RuuAt(p)'].PC = rs[RuuAt(p)].PC
    <3>1. p \in 0 .. RUU_size - 1
      BY <1>3, <1>7, <2>1, <2>2
    <3>2. RuuAt(p) \in Stations
      BY <1>0, <3>1, Slots
    <3> QED
      BY <1>4, <2>1, <3>2 DEF TextKept, SameText
  <2> QED
    BY <1>1, <1>6, <1>7, <2>2, WindowSameAs
<1>9. PathPC' = PathPC
  BY <1>2, <1>5 DEF PathPC
<1> QED
  BY <1>0, <1>3, <1>5, <1>8, <1>9, FetchedFollows DEF Program!vars

\* An instruction that is dispatched executes in the program, when it is of the correct path.
LEMMA DispatchesPath ==
  ASSUME Good, Good', FetchFollows, NEW mem, Dispatches(mem), CanDispatch,
         NEW npc \in NextPCs(code, Head(fetch_data).regs_PC), Execute(npc),
         InstAt(Head(fetch_data).regs_PC).op # "nop"
  PROVE  (Program!Execute \/ UNCHANGED Program!vars) /\ FetchFollows'
<1>0. Types /\ TypeOK /\ RingsTyped /\ Rings
  BY GoodTypes
<1>1. PathFacts /\ WindowFacts /\ PathFacts' /\ WindowFacts'
  BY PathNow, PathThen
<1>2. Extended(mem) /\ Entered(mem) /\ fetch_data # <<>>
  BY DEF Dispatches
<1>3. /\ \A p : RuuAt(p)' = RuuAt(p)
      /\ RUU_num \in Nat /\ RUU_num' = RUU_num + 1 /\ RuuAt(RUU_num) = RuuTail
      /\ RuuTail \in Entering(mem)
  BY <1>0, <1>2, EnteredWindow
<1>4. \A p \in Nat : p < RUU_num => SameText(rs'[RuuAt(p)], rs[RuuAt(p)])
  BY <1>0, <1>2, EnteredOld
<1>5. rs'[RuuTail].spec_mode = spec_mode /\ rs'[RuuTail].PC = Head(fetch_data).regs_PC
  BY <1>2, <1>3 DEF Entered, EnteredText, Fresh
<1>6. code' = code /\ RUU_num' <= RUU_size /\ RUU_size \in Nat
  <2>1. RUU_num < RUU_size /\ RUU_size \in Nat /\ code' = code
    BY <1>0, <1>2, SizeType DEF Extended, RingsTyped
  <2> QED
    BY <1>3, <2>1
<1>7. /\ FetchFollows' /\ (spec_mode => PathPC' = PathPC)
      /\ ~ spec_mode => PathPC = Head(fetch_data).regs_PC /\ PathPC' = npc
  BY <1>0, <1>2, ExecuteMoves
<1>8. /\ PathLength \in Nat /\ PathLength <= RUU_num /\ PathLength' \in Nat /\ PathLength' <= RUU_num + 1
      /\ \A p \in 0 .. RUU_num - 1 : p < PathLength <=> ~ rs[RuuAt(p)].spec_mode
      /\ \A p \in 0 .. RUU_num : p < PathLength' <=> ~ rs'[RuuAt(p)].spec_mode
      /\ ~ spec_mode => PathLength = RUU_num
  BY <1>1, <1>3 DEF PathFacts, Window
<1>9. ASSUME NEW p \in 0 .. RUU_num - 1 PROVE p < PathLength' <=> p < PathLength
  <2>1. p \in Nat /\ p < RUU_num /\ p \in 0 .. RUU_num
    BY <1>3, <1>9
  <2>2. rs'[RuuAt(p)].spec_mode = rs[RuuAt(p)].spec_mode
    BY <1>4, <2>1 DEF SameText
  <2> QED
    BY <1>8, <2>1, <2>2
<1>10. RUU_num < PathLength' <=> ~ spec_mode
  <2>1. RUU_num \in 0 .. RUU_num
    BY <1>3
  <2> QED
    BY <1>3, <1>5, <1>8, <2>1
<1>11. ASSUME NEW p \in Nat, p < RUU_num PROVE rs'[RuuAt(p)'].PC = rs[RuuAt(p)].PC
  BY <1>3, <1>4, <1>11 DEF SameText
<1>12. CASE spec_mode
  <2>1. PathLength' <= RUU_num
    BY <1>3, <1>8, <1>10, <1>12
  <2>2. PathLength' = PathLength
    BY <1>3, <1>8, <1>9, <2>1, BoundIs
  <2>3. PathWindow' = PathWindow
    BY <1>1, <1>3, <1>8, <1>11, <2>2, WindowSameAs
  <2> QED
    BY <1>6, <1>7, <1>12, <2>3 DEF Program!vars
<1>13. CASE ~ spec_mode
  <2> DEFINE pc == Head(fetch_data).regs_PC
  <2>1. PathLength = RUU_num /\ PathLength' = RUU_num + 1
    BY <1>3, <1>8, <1>10, <1>13
  <2>2. /\ PathWindow \in Seq(Nat) /\ Len(PathWindow) = RUU_num
        /\ \A i \in 1 .. RUU_num : PathWindow[i] = rs[RuuAt(i - 1)].PC
        /\ PathWindow' \in Seq(Nat) /\ Len(PathWindow') = RUU_num + 1
        /\ \A i \in 1 .. RUU_num + 1 : PathWindow'[i] = rs'[RuuAt(i - 1)].PC
    BY <1>1, <1>3, <2>1 DEF WindowFacts
  <2>3. pc \in Nat
    BY <1>0, <1>2, FetchedTyped
  <2> HIDE DEF pc
  <2>4. /\ Append(PathWindow, pc) \in Seq(Nat) /\ Len(Append(PathWindow, pc)) = RUU_num + 1
        /\ \A i \in 1 .. RUU_num : Append(PathWindow, pc)[i] = PathWindow[i]
        /\ Append(PathWindow, pc)[RUU_num + 1] = pc
    BY <2>2, <2>3, AppendProperties
  <2>5. ASSUME NEW i \in 1 .. RUU_num + 1 PROVE PathWindow'[i] = Append(PathWindow, pc)[i]
    <3>1. CASE i = RUU_num + 1
      <4>1. i - 1 = RUU_num
        BY <1>3, <3>1
      <4>2. PathWindow'[i] = rs'[RuuTail].PC
        BY <1>3, <2>2, <2>5, <4>1
      <4> QED
        BY <1>5, <2>4, <3>1, <4>2 DEF pc
    <3>2. CASE i # RUU_num + 1
      <4>1. i \in 1 .. RUU_num /\ i - 1 \in Nat /\ i - 1 < RUU_num
        BY <1>3, <2>5, <3>2
      <4>2. rs'[RuuAt(i - 1)].PC = rs[RuuAt(i - 1)].PC
        BY <1>4, <4>1 DEF SameText
      <4> QED
        BY <2>2, <2>4, <2>5, <4>1, <4>2
    <3> QED
      BY <3>1, <3>2
  <2>6. PathWindow' = Append(PathWindow, pc)
    BY <2>2, <2>4, <2>5, SeqEqual
  <2>7. PathPC = pc /\ PathPC' = npc
    BY <1>7, <1>13 DEF pc
  <2>8. /\ OpcodeOf(code, PathPC) # "nop"
        /\ OpcodeOf(code, PathPC) = "syscall" => PathWindow = <<>>
    <3>1. OpcodeOf(code, PathPC) = InstAt(pc).op
      BY <2>7 DEF OpcodeOf, InstAt
    <3>2. InstAt(pc).op = "syscall" => RUU_num = 0
      BY DEF CanDispatch, pc
    <3>3. RUU_num = 0 => PathWindow = <<>>
      BY <2>2, EmptySeq
    <3> QED
      BY <3>1, <3>2, <3>3 DEF pc
  <2>9. Len(PathWindow') <= RUU_size
    BY <1>3, <1>6, <2>2
  <2>10. PathPC' \in NextPCs(code, PathPC)
    BY <2>7 DEF pc
  <2> QED
    BY <1>6, <1>7, <2>6, <2>7, <2>8, <2>9, <2>10 DEF Program!Execute
<1> QED
  BY <1>12, <1>13

\* A nop executes and leaves no trace in the machine.
LEMMA NopPath ==
  ASSUME Good, Good', FetchFollows, DispatchNop
  PROVE  (Program!Execute \/ UNCHANGED Program!vars) /\ FetchFollows'
<1>0. Types /\ TypeOK /\ RingsTyped
  BY GoodTypes
<1>1. PathFacts /\ WindowFacts /\ PathFacts' /\ WindowFacts'
  BY PathNow, PathThen
<1>2. PICK npc : npc \in NextPCs(code, Head(fetch_data).regs_PC) /\ Execute(npc)
  BY DEF DispatchNop
<1>3. fetch_data # <<>> /\ InstAt(Head(fetch_data).regs_PC).op = "nop"
  BY DEF DispatchNop, CanDispatch
<1>4. /\ FetchFollows' /\ (spec_mode => PathPC' = PathPC)
      /\ ~ spec_mode => PathPC = Head(fetch_data).regs_PC /\ PathPC' = npc
  BY <1>0, <1>2, <1>3, ExecuteMoves
<1>5. rs' = rs /\ WindowKept
  BY <1>2 DEF DispatchNop, Execute, WindowKept, windowVars
<1>6. PathWindow' = PathWindow /\ code' = code
  <2>1. Window' = Window /\ code' = code /\ \A p : RuuAt(p)' = RuuAt(p)
    BY <1>5, WindowSame
  <2>2. PathLength' = PathLength
    BY <1>5, <2>1 DEF PathLength
  <2> QED
    BY <1>5, <2>1, <2>2 DEF PathWindow
<1>7. CASE spec_mode
  BY <1>4, <1>6, <1>7 DEF Program!vars
<1>8. CASE ~ spec_mode
  <2>1. OpcodeOf(code, PathPC) = "nop"
    BY <1>3, <1>4, <1>8 DEF OpcodeOf, InstAt
  <2>2. Len(PathWindow') <= RUU_size
    <3>1. Len(PathWindow) = PathLength /\ PathLength \in Nat /\ PathLength <= RUU_num
      BY <1>1 DEF WindowFacts, PathFacts
    <3>2. RUU_num \in Nat /\ RUU_num <= RUU_size /\ RUU_size \in Nat
      BY <1>0, SizeType DEF RingsTyped
    <3> QED
      BY <1>6, <3>1, <3>2
  <2> QED
    BY <1>2, <1>4, <1>6, <1>8, <2>1, <2>2 DEF Program!Execute
<1> QED
  BY <1>4, <1>7, <1>8

\* What a step means to the program, and that the fetch queue stays a path.
Seen == [Program!Next]_(Program!vars) /\ FetchFollows'

\* The steps of dispatch.
LEMMA DispatchSeen ==
  ASSUME Good, Good', FetchFollows, DispatchOp \/ DispatchMem \/ DispatchNop
  PROVE  Seen
<1>0. Types /\ Rings /\ LinkInv(rs, InFlight)
  BY GoodTypes
<1>1. CASE DispatchOp
  <2>1. Dispatches(FALSE) /\ CanDispatch
    BY <1>0, <1>1, DispatchOpDispatches DEF DispatchOp
  <2>2. PICK pc, npc : pc = Head(fetch_data).regs_PC /\ npc \in NextPCs(code, pc) /\ OpStep(pc, npc)
    BY <1>1, OpStepIs
  <2>3. InstAt(Head(fetch_data).regs_PC).op # "nop" /\ Execute(npc)
    BY <2>2 DEF OpStep
  <2> QED
    BY <2>1, <2>2, <2>3, DispatchesPath DEF Seen, Program!Next
<1>2. CASE DispatchMem
  <2>1. Dispatches(TRUE) /\ CanDispatch
    BY <1>0, <1>2, DispatchMemDispatches DEF DispatchMem
  <2>2. PICK pc, npc : \E addr \in Addrs :
          pc = Head(fetch_data).regs_PC /\ npc \in NextPCs(code, pc) /\ MemStep(pc, npc, addr)
    BY <1>2, DispatchMemIs
  <2>3. IsMem(InstAt(Head(fetch_data).regs_PC).op) /\ Execute(npc)
    BY <2>2 DEF MemStep
  <2>4. ~ IsMem("nop")
    BY DEF IsMem, MD_OP_FLAGS, OpTable
  <2>5. InstAt(Head(fetch_data).regs_PC).op # "nop"
    BY <2>3, <2>4
  <2> QED
    BY <2>1, <2>2, <2>3, <2>5, DispatchesPath DEF Seen, Program!Next
<1>3. CASE DispatchNop
  BY <1>3, NopPath DEF Seen, Program!Next
<1> QED
  BY <1>1, <1>2, <1>3

\* The steps that move operands and results about.
LEMMA BackSeen ==
  ASSUME Good, Good', FetchFollows,
         \/ \E s \in Stations : Writeback(s)
         \/ Wake \/ Refresh \/ IssueStore \/ IssueFree \/ IssueLoad \/ IssueOp
  PROVE  Seen
<1>0. Types /\ TypeOK
  BY GoodTypes
<1>1. CASE \E s \in Stations : Writeback(s)
  <2>1. PICK s \in Stations : Writeback(s)
    BY <1>1
  <2>2. RsTyped /\ TextKept
    BY <1>0, <2>1, WritebackEffect
  <2>3. WindowKept /\ UNCHANGED <<specVars, fetch_data, fetch_pred_PC>>
    BY <2>1 DEF Writeback, WindowKept, fetchVars
  <2> QED
    BY <2>2, <2>3, QuietPath DEF Seen
<1>2. CASE Wake
  <2>1. wb \in InFlight /\ rs[wb].completed
    BY <1>2, GoodTypes DEF Broadcasts, Wake
  <2>2. wb \in Stations /\ (RSLINK_VALID(WakeLink) => WakeLink.rs # wb)
    BY <1>0, <1>2, <2>1, GoodTypes, WakeConsumer
  <2>3. RsTyped /\ TextKept
    BY <1>0, <1>2, <2>2, WakeEffect
  <2>4. WindowKept /\ UNCHANGED <<specVars, fetch_data, fetch_pred_PC>>
    BY <1>2 DEF Wake, WindowKept, fetchVars
  <2> QED
    BY <2>3, <2>4, QuietPath DEF Seen
<1>3. CASE Refresh
  <2>1. RsTyped /\ TextKept
    BY <1>0, <1>3, RefreshEffect
  <2>2. WindowKept /\ UNCHANGED <<specVars, fetch_data, fetch_pred_PC>>
    BY <1>3 DEF Refresh, WindowKept, fetchVars
  <2> QED
    BY <2>1, <2>2, QuietPath DEF Seen
<1>4. ASSUME NEW done \in BOOLEAN, IssueStep(done) PROVE Seen
  <2>1. Candidate \in Stations /\ config' = config
    BY <1>0, <1>4, HeadOfNode DEF IssueStep, WindowKept
  <2>2. RsTyped /\ TextKept
    BY <1>0, <1>4, <2>1, IssueEffect DEF IssueStep
  <2>3. WindowKept /\ UNCHANGED <<specVars, fetch_data, fetch_pred_PC>>
    BY <1>4 DEF IssueStep, fetchVars
  <2> QED
    BY <2>2, <2>3, QuietPath DEF Seen
<1>5. CASE IssueStore \/ IssueFree \/ IssueLoad \/ IssueOp
  <2>1. IssueStep(TRUE) \/ IssueStep(FALSE)
    BY <1>5, IssueStoreIs, IssueFreeIs, IssueLoadIs, IssueOpIs
  <2>2. TRUE \in BOOLEAN /\ FALSE \in BOOLEAN
    OBVIOUS
  <2> QED
    BY <1>4, <2>1, <2>2
<1> QED
  BY <1>1, <1>2, <1>3, <1>5

\* The steps that leave the stations alone.
LEMMA QuietSeen ==
  ASSUME Good, Good', FetchFollows,
         \/ CommitEnd \/ StaleEvent \/ WakeEnd \/ WritebackEnd \/ Requeue \/ StaleNode \/ IssueEnd
         \/ DispatchEnd \/ FetchMiss \/ FetchEnd \/ NextCycle \/ UNCHANGED vars
  PROVE  Seen
<1>0. Types /\ TypeOK
  BY GoodTypes
<1>1. rs' = rs /\ WindowKept /\ UNCHANGED <<specVars, fetch_data, fetch_pred_PC>>
  <2>1. CASE CommitEnd \/ StaleEvent \/ WakeEnd \/ WritebackEnd
    BY <2>1 DEF CommitEnd, StaleEvent, WakeEnd, WritebackEnd, WindowKept, fetchVars
  <2>2. CASE Requeue \/ StaleNode \/ IssueEnd \/ DispatchEnd
    BY <2>2 DEF Requeue, StaleNode, IssueEnd, DispatchEnd, issueRest, WindowKept, fetchVars
  <2>3. CASE FetchMiss \/ FetchEnd \/ NextCycle
    BY <2>3 DEF FetchMiss, FetchEnd, NextCycle, fetchRest, WindowKept, fetchVars
  <2>4. CASE UNCHANGED vars
    BY <2>4 DEF vars, WindowKept, fetchVars
  <2> QED
    BY <2>1, <2>2, <2>3, <2>4
<1>2. RsTyped /\ TextKept
  BY <1>0, <1>1, RsKept DEF WindowKept
<1> QED
  BY <1>1, <1>2, QuietPath DEF Seen

\* Fetching: the program goes on where it did, also when it is the first to be fetched.
LEMMA FetchSeen ==
  ASSUME Good, Good', FetchFollows, Fetch
  PROVE  Seen
<1>0. Types /\ TypeOK
  BY GoodTypes
<1>1. rs' = rs /\ WindowKept /\ UNCHANGED specVars
  BY DEF Fetch, fetchRest, WindowKept
<1>2. PathWindow' = PathWindow /\ code' = code
  <2>1. Window' = Window /\ code' = code /\ \A p : RuuAt(p)' = RuuAt(p)
    BY <1>1, WindowSame
  <2>2. PathLength' = PathLength
    BY <1>1, <2>1 DEF PathLength
  <2> QED
    BY <1>1, <2>1, <2>2 DEF PathWindow
<1>3. PathPC' = PathPC
  <2> DEFINE L == [regs_PC : Nat, pred_PC : Nat]
  <2>1. fetch_data \in Seq(L) /\ fetch_pred_PC \in Nat
    BY <1>0 DEF TypeOK
  <2>2. PICK next \in Nat : fetch_data' = Append(fetch_data, [regs_PC |-> fetch_pred_PC, pred_PC |-> next])
    BY <1>0, FetchIs
  <2> DEFINE e == [regs_PC |-> fetch_pred_PC, pred_PC |-> next]
  <2>3. e \in L /\ e.regs_PC = fetch_pred_PC /\ fetch_data' = Append(fetch_data, e)
    BY <2>1, <2>2
  <2> HIDE DEF e, L
  <2>4. /\ fetch_data' # <<>> /\ Head(fetch_data') = fetch_data'[1]
        /\ fetch_data = <<>> => fetch_data'[1] = e
        /\ fetch_data # <<>> => Head(fetch_data') = Head(fetch_data)
    BY <2>1, <2>3, AppendProperties, HeadTailAppend
  <2> QED
    BY <1>1, <2>3, <2>4 DEF PathPC, specVars
<1>4. FetchFollows'
  BY <1>0, FetchedFollows
<1> QED
  BY <1>2, <1>3, <1>4 DEF Seen, Program!vars

\* Every step of the pipeline is a step of the program, or is invisible to it.
LEMMA NextSeen ==
  ASSUME Good, FetchFollows, [Next]_vars
  PROVE  Seen
<1>0. Good'
  BY NextGood
<1>1. CASE Commit
  BY <1>0, <1>1, CommitRetires DEF Seen, Program!Next
<1>2. CASE \E s \in Stations : Recover(s)
  BY <1>0, <1>2, RecoverPath DEF Seen
<1>3. CASE DispatchOp \/ DispatchMem \/ DispatchNop
  BY <1>0, <1>3, DispatchSeen
<1>4. CASE (\E s \in Stations : Writeback(s)) \/ Wake \/ Refresh \/ IssueStore \/ IssueFree
           \/ IssueLoad \/ IssueOp
  BY <1>0, <1>4, BackSeen
<1>5. CASE \/ CommitEnd \/ StaleEvent \/ WakeEnd \/ WritebackEnd \/ Requeue \/ StaleNode \/ IssueEnd
           \/ DispatchEnd \/ FetchMiss \/ FetchEnd \/ NextCycle \/ UNCHANGED vars
  BY <1>0, <1>5, QuietSeen
<1>6. CASE Fetch
  BY <1>0, <1>6, FetchSeen
<1>7. Next => Cycle \/ UNCHANGED vars
  BY DEF Next, Stopped
<1> QED
  BY <1>1, <1>2, <1>3, <1>4, <1>5, <1>6, <1>7 DEF Cycle

\* At first nothing is fetched and the program is at its start.
LEMMA InitSeen == Init => Program!Init /\ FetchFollows
<1> SUFFICES ASSUME Init PROVE Program!Init /\ FetchFollows
  OBVIOUS
<1>1. PathFacts /\ WindowFacts
  BY InitGood, PathNow
<1>2. fetch_data = <<>> /\ fetch_pred_PC = 1 /\ ~ spec_mode /\ RUU_num = 0 /\ code \in Programs
  BY DEF Init
<1>3. PathWindow = <<>>
  <2>1. PathWindow \in Seq(Nat) /\ Len(PathWindow) = 0
    BY <1>1, <1>2 DEF PathFacts, WindowFacts
  <2> QED
    BY <2>1, EmptySeq
<1>4. PathPC = 1
  BY <1>2 DEF PathPC
<1>5. FetchFollows
  BY <1>2 DEF FetchFollows
<1> QED
  BY <1>2, <1>3, <1>4, <1>5 DEF Program!Init

\* The pipeline implements the machine that executes and retires one instruction after the
\* other, where it went on: whatever is predicted, squashed, delayed or reordered,
\* the program sees its own instructions only, in its own order.
THEOREM PipelineImplementsInOrder == Spec => ImplementsInOrder
<1>1. Good /\ FetchFollows /\ [Next]_vars => [Program!Next]_(Program!vars) /\ Good' /\ FetchFollows'
  BY NextSeen, NextGood DEF Seen
<1>2. Init => Program!Init /\ Good /\ FetchFollows
  BY InitSeen, InitGood
<1> QED
  BY <1>1, <1>2, PTL DEF Spec, ImplementsInOrder, Program!Spec
=============================================================================
