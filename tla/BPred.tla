------------------------------- MODULE BPred --------------------------------
(***************************************************************************)
(* The branch predictor of simplesim-3.0d-assig4/bpred.c: direction        *)
(* counters, branch target buffer and return-address stack.  A pointer to  *)
(* a counter is <<table, index>>; a set of the BTB is the sequence of its  *)
(* entries, most recently used first; statistics are left out.             *)
(***************************************************************************)
EXTENDS PisaSubset, Integers, SequencesExt

CONSTANTS
  bimod_size, l1size, l2size, meta_size,   \* entries of the tables
  shift_width,                             \* length of the histories
  xor,                                     \* are histories and addresses mixed?
  Hash(_, _),                              \* history ^ address, of shift_width bits
  btb_sets, btb_assoc, retstack_size

ASSUME TablesAssumption ==
  /\ bimod_size \in Nat \ {0} /\ l1size \in Nat \ {0} /\ l2size \in Nat \ {0}
  /\ meta_size \in Nat \ {0} /\ shift_width \in 1 .. 30 /\ xor \in BOOLEAN
  /\ \A h, a \in 0 .. 2 ^ shift_width - 1 : Hash(h, a) \in 0 .. 2 ^ shift_width - 1
  /\ btb_sets \in Nat \ {0} /\ btb_assoc \in Nat \ {0} /\ retstack_size \in Nat \ {0}

VARIABLES counters, shiftregs, btb, retstack, tos

dirVars == <<counters, shiftregs, btb>>
predVars == <<dirVars, retstack, tos>>

Pointers == ({"bimod"} \X (0 .. bimod_size - 1)) \cup ({"twolev"} \X (0 .. l2size - 1))
            \cup ({"meta"} \X (0 .. meta_size - 1))
NULL == <<"NULL", 0>>
Stateful(class) == class \in {"2bit", "2lev", "comb"}

\* bpred_create: counters are weakly this or that.
bpred_create ==
  /\ counters = [p \in Pointers |-> IF p[2] % 2 = 0 THEN 1 ELSE 2]
  /\ shiftregs = [i \in 0 .. l1size - 1 |-> 0]
  /\ btb = [s \in 0 .. btb_sets - 1 |-> [w \in 1 .. btb_assoc |-> [addr |-> 0, target |-> 0]]]
  /\ retstack = [i \in 0 .. retstack_size - 1 |-> 0]
  /\ tos = retstack_size - 1

\* The counter for the branch at baddr.
bpred_dir_lookup(table, baddr) ==
  LET history == shiftregs[baddr % l1size]
      width == 2 ^ shift_width
      low == IF xor THEN Hash(history, baddr % width) ELSE history
  IN  CASE table = "bimod"  -> <<"bimod", baddr % bimod_size>>
        [] table = "meta"   -> <<"meta", baddr % meta_size>>
        [] table = "twolev" -> <<"twolev", (low + baddr * width) % l2size>>

\* What a look-up leaves for the update, struct bpred_update_t.
NoUpdate == [ras |-> FALSE, pdir1 |-> NULL, pdir2 |-> NULL, pmeta |-> NULL,
             bimod |-> FALSE, twolev |-> FALSE]
Taken(p) == counters[p] >= 2
DirUpdate(class, baddr) ==
  LET bimod == bpred_dir_lookup("bimod", baddr)
      twolev == bpred_dir_lookup("twolev", baddr)
      meta == bpred_dir_lookup("meta", baddr)
  IN  CASE class = "2bit" -> [NoUpdate EXCEPT !.pdir1 = bimod]
        [] class = "2lev" -> [NoUpdate EXCEPT !.pdir1 = twolev]
        [] class = "comb" -> [ras |-> FALSE, pmeta |-> meta,
                              pdir1 |-> IF Taken(meta) THEN twolev ELSE bimod,
                              pdir2 |-> IF Taken(meta) THEN bimod ELSE twolev,
                              bimod |-> Taken(bimod), twolev |-> Taken(twolev)]

BtbSet(baddr) == btb[baddr % btb_sets]
BtbWay(baddr) == SelectInSeq(BtbSet(baddr), LAMBDA e : e.addr = baddr)

\* The target of the BTB; 1 if it has none.
BtbTarget(baddr) == IF BtbWay(baddr) = 0 THEN 1 ELSE BtbSet(baddr)[BtbWay(baddr)].target

\* bpred_lookup, of a branch i at baddr without a target to go by: the target, the
\* stack and its top after it, the top to recover, and the record for the update.
bpred_lookup(class, text, baddr, i) ==
  LET upd == IF IsUncond(i) THEN NoUpdate ELSE DirUpdate(class, baddr)
      same == [target |-> 0, retstack |-> retstack, tos |-> tos, idx |-> tos, upd |-> NoUpdate]
      pushed == (tos + 1) % retstack_size
      jump == [same EXCEPT !.upd = upd, !.target = IF IsUncond(i) \/ Taken(upd.pdir1)
                                                   THEN BtbTarget(baddr) ELSE 0]
  IN  CASE class = "taken" -> same
        [] class = "nottaken" -> IF IsUncond(i) THEN same ELSE [same EXCEPT !.target = Behind(text, baddr)]
        [] Stateful(class) /\ IsReturn(i) ->
             [same EXCEPT !.target = retstack[tos], !.tos = (tos - 1) % retstack_size,
                          !.upd = [upd EXCEPT !.ras = TRUE]]
        [] Stateful(class) /\ IsCall(i) ->
             [jump EXCEPT !.tos = pushed, !.retstack = [retstack EXCEPT ![pushed] = Behind(text, baddr)]]
        [] OTHER -> jump

\* The counters after an update, saturating.
Trained(p, up) == IF up THEN IF counters[p] < 3 THEN counters[p] + 1 ELSE 3
                  ELSE IF counters[p] > 0 THEN counters[p] - 1 ELSE 0

\* The entry k of a set, which is that of baddr or the one to replace, after a taken branch.
Entered(set, k, baddr, btarget, correct) ==
  IF set[k].addr = baddr /\ correct THEN set[k] ELSE [addr |-> baddr, target |-> btarget]

\* bpred_update, of a branch i at baddr that went to btarget.
bpred_update(class, text, baddr, i, btarget, correct, upd) ==
  LET taken == btarget # Behind(text, baddr)
      set == BtbSet(baddr)
      way == IF BtbWay(baddr) # 0 THEN BtbWay(baddr) ELSE btb_assoc
  IN  IF ~ Stateful(class) \/ (IsIndir(i) /\ upd.ras)
      THEN UNCHANGED dirVars
      ELSE /\ shiftregs' = IF IsUncond(i) \/ class = "2bit" THEN shiftregs
                           ELSE [shiftregs EXCEPT ![baddr % l1size] =
                                   (2 * @ + IF taken THEN 1 ELSE 0) % 2 ^ shift_width]
           /\ counters' = [p \in Pointers |->
                IF p \in {upd.pdir1, upd.pdir2} THEN Trained(p, taken)
                ELSE IF p = upd.pmeta /\ upd.bimod # upd.twolev THEN Trained(p, upd.twolev = taken)
                ELSE counters[p]]
           /\ btb' = IF taken
                     THEN [btb EXCEPT ![baddr % btb_sets] =
                             <<Entered(set, way, baddr, btarget, correct)>> \o RemoveAt(set, way)]
                     ELSE btb
-----------------------------------------------------------------------------
\* What the tables hold.
Updates == [ras : BOOLEAN, bimod : BOOLEAN, twolev : BOOLEAN, pdir1 : Pointers \cup {NULL},
            pdir2 : Pointers \cup {NULL}, pmeta : Pointers \cup {NULL}]
BtbSets == [1 .. btb_assoc -> [addr : Nat, target : Nat]]
PredTypeOK ==
  /\ counters \in [Pointers -> 0 .. 3]
  /\ shiftregs \in [0 .. l1size - 1 -> 0 .. 2 ^ shift_width - 1]
  /\ btb \in [0 .. btb_sets - 1 -> BtbSets]
  /\ retstack \in [0 .. retstack_size - 1 -> Nat] /\ tos \in 0 .. retstack_size - 1
=============================================================================
