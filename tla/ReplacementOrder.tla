-------------------------- MODULE ReplacementOrder --------------------------
(***************************************************************************)
(* What the cache of lab4 promises: "LRU: replace least recently used      *)
(* block (perfect LRU)", "FIFO: replace the oldest block in the set",      *)
(* "Random: replace a random block".  A set is an order of the addresses   *)
(* it holds: <<t, u>> is in it if u is to be replaced before t, or is t    *)
(* (under Random, in any order).                                           *)
(***************************************************************************)
EXTENDS Naturals, FiniteSets

CONSTANT Tags
VARIABLES policy, assoc, order,
          hit   \* the set and the address of a hit that is served, <<>> if none is

Sets == DOMAIN order
Held(s) == {p[1] : p \in order[s]}
Oldest(s) == {t \in Held(s) : \A u \in Held(s) : <<u, t>> \in order[s]}

Without(before, tag) == {p \in before : tag \notin {p[1], p[2]}}
InFront(before, tag) ==
  LET rest == Without(before, tag)
  IN rest \cup {<<tag, p[2]>> : p \in rest} \cup {<<tag, tag>>}

Init ==
  /\ policy \in {"LRU", "FIFO", "Random"}
  /\ \A s \in Sets : order[s] = {}
  /\ hit = <<>>

\* Under LRU what is used becomes the last to be replaced.
Use(s, tag) ==
  /\ hit = <<>> /\ hit' = <<s, tag>>
  /\ order' = IF policy = "LRU" THEN [order EXCEPT ![s] = InFront(@, tag)] ELSE order
Used == hit # <<>> /\ hit' = <<>> /\ UNCHANGED order

Fill(s, tag) ==
  /\ policy # "Random"
  /\ \E kept \in IF Cardinality(Held(s)) < assoc THEN {order[s]}
                 ELSE {Without(order[s], t) : t \in Oldest(s)} :
       order' = [order EXCEPT ![s] = InFront(kept, tag)]
  /\ UNCHANGED hit

\* In the place of a block, or in a free one.
FillAny(s, tag) ==
  /\ policy = "Random"
  /\ Sets' = Sets /\ \A r \in Sets \ {s} : order'[r] = order[r]
  /\ Cardinality(Held(s)') <= assoc
  /\ \E victims \in SUBSET Held(s) :
       /\ \A u, v \in victims : u = v
       /\ Held(s)' = (Held(s) \ victims) \cup {tag}
  /\ UNCHANGED hit

Drop(s, tag) == order' = [order EXCEPT ![s] = Without(@, tag)] /\ UNCHANGED hit
DropAll      == order' = [s \in Sets |-> {}] /\ UNCHANGED hit

Next ==
  /\ \/ \E s \in Sets : \/ \E tag \in Held(s) : Use(s, tag) \/ Drop(s, tag)
                      \/ \E tag \in Tags \ Held(s) : Fill(s, tag) \/ FillAny(s, tag)
     \/ Used \/ DropAll
  /\ UNCHANGED <<policy, assoc>>
Spec == Init /\ [][Next]_<<policy, assoc, order, hit>>
=============================================================================
