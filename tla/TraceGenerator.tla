--------------------------- MODULE TraceGenerator ---------------------------
(***************************************************************************)
(* The instruction trace generator of sim-outorder.c with its branch       *)
(* predictor: instructions are fetched along the predictions, executed in  *)
(* program order when they are dispatched, on copies of registers and      *)
(* memory while the path is known to be wrong, and the predictor learns    *)
(* from branches at the stage that -bpred:spec_update names.  Of the       *)
(* instructions in flight only the branches are kept; their latencies,     *)
(* and with them the order of their write-backs, are arbitrary.            *)
(***************************************************************************)
EXTENDS SimMemory, BPred

CONSTANTS
  Programs,        \* texts, with initial registers
  Configs,         \* [class, update : {"ID", "WB", "CT"}, bugcompat]
  ruu_ifq_size,
  MAX_BRANCHES     \* bound of branches in flight

\* Register 0 begins as 0.
ASSUME GeneratorAssumption ==
  /\ Programs \subseteq [text : Seq(Instructions), regs : [Regs -> 0 .. WORD - 1]]
  /\ \A p \in Programs : p.regs[0] = 0
  /\ Configs \subseteq [class : {"taken", "nottaken", "2bit", "2lev", "comb"},
                        update : {"ID", "WB", "CT"}, bugcompat : BOOLEAN]
  /\ ruu_ifq_size \in Nat \ {0} /\ MAX_BRANCHES \in Nat \ {0}

VARIABLES
  config, code,
  regs, spec_regs, use_spec_R,     \* registers, those of the wrong path, and which of these are valid
  ptab, store_htable,
  spec_mode, recover_PC,
  fetch_data, fetch_pred_PC,       \* the fetch queue, oldest first
  window,                          \* the branches in flight, oldest first
  depth                            \* calls less returns executed on the correct path (history)

machVars == <<regs, spec_regs, use_spec_R, ptab, store_htable, spec_mode, recover_PC>>
vars == <<config, code, machVars, fetch_data, fetch_pred_PC, window, depth, predVars>>

Inst(e) == InstOf(code, e.PC)

\* What a branch does to the top of the stack when it is looked up.
Delta(pc) == LET i == InstOf(code, pc) IN
             IF ~ Stateful(config.class) THEN 0 ELSE IF IsReturn(i) THEN -1 ELSE IF IsCall(i) THEN 1 ELSE 0

Init ==
  /\ config \in Configs
  /\ \E p \in Programs : code = p.text /\ regs = p.regs
  /\ spec_regs = [r \in Regs |-> 0]
  /\ use_spec_R = {}
  /\ ptab = ptab_init /\ store_htable = htable_init
  /\ spec_mode = FALSE /\ recover_PC = 0
  /\ fetch_data = <<>> /\ fetch_pred_PC = 2
  /\ window = <<>>
  /\ depth = 0
  /\ bpred_create

-----------------------------------------------------------------------------
\* ruu_fetch, one instruction: the next one is that after it unless the predictor
\* names a target.
Fetch ==
  LET pc == fetch_pred_PC
      i == InstOf(code, pc)
      look == bpred_lookup(config.class, code, pc, i)
      target == IF IsCtrl(i) THEN look.target ELSE 0
      pred == IF target = 0 THEN Behind(code, pc) ELSE target
  IN  /\ Len(fetch_data) < ruu_ifq_size
      /\ fetch_pred_PC' = pred
      /\ IF IsCtrl(i)
         THEN /\ retstack' = look.retstack /\ tos' = look.tos
              /\ fetch_data' = Append(fetch_data, [PC |-> pc, pred_PC |-> pred,
                                                   upd |-> look.upd, idx |-> look.idx])
         ELSE /\ UNCHANGED <<retstack, tos>>
              /\ fetch_data' = Append(fetch_data, [PC |-> pc, pred_PC |-> pred, upd |-> NoUpdate, idx |-> 0])
      /\ UNCHANGED <<config, code, machVars, window, depth, dirVars>>

\* GPR, after r0 was reset.
GPR == [r \in Regs |-> IF r = 0 THEN 0 ELSE IF r \in use_spec_R THEN spec_regs[r] ELSE regs[r]]

\* A direct branch that is predicted taken, to a target that is not its own.
Misfetched(f, i) == IsDirect(i) /\ f.pred_PC # i.imm /\ f.pred_PC # Behind(code, f.PC)

\* The registers and the memory after the instruction i at pc.
Execute(i, pc) ==
  LET addr == EffAddr(i, GPR)
      loaded == IF spec_mode THEN SpecRead(ptab, store_htable, addr) ELSE MEM_READ(ptab, addr)
      val == Result(i, pc, GPR, loaded)
      after(R) == IF WritesReg(i) THEN [R EXCEPT ![0] = 0, ![Dest(i)] = val] ELSE [R EXCEPT ![0] = 0]
      reads == i.op = "lw" /\ (spec_mode => addr \in ValidAddrs)
  IN  /\ IF spec_mode
         THEN /\ regs' = [regs EXCEPT ![0] = 0]
              /\ spec_regs' = after(spec_regs)
              /\ use_spec_R' = IF WritesReg(i) THEN use_spec_R \cup {Dest(i)} ELSE use_spec_R
         ELSE /\ regs' = after(regs)
              /\ spec_regs' = [spec_regs EXCEPT ![0] = 0]
              /\ UNCHANGED use_spec_R
      /\ ptab' = IF i.op = "sw" /\ ~ spec_mode THEN MEM_WRITE(ptab, addr, GPR[i.rt])
                 ELSE IF reads /\ ~ (spec_mode /\ Copied(store_htable, addr)) THEN mem_translate(ptab, addr)
                 ELSE ptab
      /\ store_htable' = IF ~ spec_mode THEN store_htable
                         ELSE IF i.op = "sw" THEN SpecWrite(store_htable, addr, GPR[i.rt], config.bugcompat)
                         ELSE IF reads THEN Reordered(store_htable, addr)
                         ELSE store_htable

\* bpred_update for the branch e.
Train(e) == bpred_update(config.class, code, e.PC, Inst(e), e.next_PC, e.pred_PC = e.next_PC, e.upd)

\* ruu_dispatch, one instruction.
Dispatch ==
  /\ fetch_data # <<>>
  /\ LET f == Head(fetch_data)
         i == InstOf(code, f.PC)
         e == [PC |-> f.PC, next_PC |-> NextPC(code, i, f.PC, GPR), pred_PC |-> f.pred_PC, upd |-> f.upd,
               idx |-> f.idx, spec_mode |-> spec_mode, completed |-> FALSE,
               recover |-> ~ spec_mode /\ ~ Misfetched(f, i) /\ f.pred_PC # NextPC(code, i, f.PC, GPR)]
     IN  /\ IsCtrl(i) => Len(window) < MAX_BRANCHES
         /\ Execute(i, f.PC)
         /\ IF Misfetched(f, i)
            THEN fetch_data' = <<>> /\ fetch_pred_PC' = e.next_PC
            ELSE fetch_data' = Tail(fetch_data) /\ UNCHANGED fetch_pred_PC
         /\ window' = IF IsCtrl(i) THEN Append(window, e) ELSE window
         /\ spec_mode' = (spec_mode \/ e.recover)
         /\ recover_PC' = IF e.recover THEN e.next_PC ELSE recover_PC
         /\ depth' = IF spec_mode THEN depth ELSE (depth + Delta(f.PC)) % retstack_size
         /\ IF IsCtrl(i) /\ ~ spec_mode /\ config.update = "ID" THEN Train(e) ELSE UNCHANGED dirVars
  /\ UNCHANGED <<config, code, retstack, tos>>

\* A mistake: bpred_recover is not called.
WithoutPredictor(e) ==
  /\ spec_mode' = FALSE /\ use_spec_R' = {} /\ store_htable' = htable_init
  /\ fetch_data' = <<>> /\ fetch_pred_PC' = recover_PC
  /\ UNCHANGED tos

\* tracer_recover and bpred_recover, for the mispredicted branch e.
Recover(e) ==
  /\ spec_mode' = FALSE
  /\ use_spec_R' = {}
  /\ store_htable' = htable_init
  /\ fetch_data' = <<>>
  /\ fetch_pred_PC' = recover_PC
  /\ tos' = e.idx

\* ruu_writeback, one branch.
Writeback ==
  /\ \E k \in DOMAIN window :
       LET e == window[k]
           rest == IF e.recover THEN SubSeq(window, 1, k) ELSE window
       IN  /\ ~ e.completed
           /\ window' = [rest EXCEPT ![k].completed = TRUE]
           /\ IF e.recover THEN Recover(e)
              ELSE UNCHANGED <<spec_mode, use_spec_R, store_htable, fetch_data, fetch_pred_PC, tos>>
           /\ IF config.update = "WB" THEN Train(e) ELSE UNCHANGED dirVars
  /\ UNCHANGED <<config, code, regs, spec_regs, ptab, recover_PC, depth, retstack>>

\* ruu_commit, one branch.
Commit ==
  /\ window # <<>> /\ Head(window).completed
  /\ window' = Tail(window)
  /\ IF config.update = "CT" THEN Train(Head(window)) ELSE UNCHANGED dirVars
  /\ UNCHANGED <<config, code, machVars, fetch_data, fetch_pred_PC, depth, retstack, tos>>

Next == Fetch \/ Dispatch \/ Writeback \/ Commit

Spec == Init /\ [][Next]_vars
-----------------------------------------------------------------------------
Fetched  == [PC : Nat, pred_PC : Nat, upd : Updates, idx : 0 .. retstack_size - 1]
InFlight == [PC : Nat, next_PC : Nat, pred_PC : Nat, upd : Updates, idx : 0 .. retstack_size - 1,
             spec_mode : BOOLEAN, completed : BOOLEAN, recover : BOOLEAN]
TypeOK ==
  /\ config \in Configs /\ code \in Seq(Instructions)
  /\ regs \in [Regs -> Nat] /\ spec_regs \in [Regs -> Nat] /\ use_spec_R \subseteq Regs
  /\ ptab \in PageTables /\ store_htable \in StoreTables
  /\ spec_mode \in BOOLEAN /\ recover_PC \in Nat
  /\ fetch_data \in Seq(Fetched) /\ fetch_pred_PC \in Nat
  /\ window \in Seq(InFlight) /\ depth \in 0 .. retstack_size - 1
  /\ PredTypeOK

\* The calls less the returns among the branches of s at the places K.
Deltas(s, K) == Cardinality({k \in K : Delta(s[k].PC) = 1}) - Cardinality({k \in K : Delta(s[k].PC) = -1})

\* How far the top of the return-address stack is off the depth of the correct path, when
\* what was looked up for a wrong path and in the fetch queue is taken off it.
Drift == (tos - depth - Deltas(window, {k \in DOMAIN window : window[k].spec_mode})
              - Deltas(fetch_data, DOMAIN fetch_data)) % retstack_size

\* A call or return is recovered from: bpred_recover undoes its own push or pop, too.
UndoesItself == \E k \in DOMAIN window :
                  window[k].recover /\ ~ window[k].completed /\ window'[k].completed /\ Delta(window[k].PC) # 0

\* The return-address stack follows the calls and returns of the correct path through any mix
\* of predictions, wrong paths and recoveries, and comes off only in the case above.  A misfetch
\* squashes what was fetched without a bpred_recover, but never a call or return: the wrong
\* target of a direct branch is always the 1 of bpred_lookup.
StackFollowsPath == [][Drift' = Drift \/ UndoesItself]_vars
=============================================================================
