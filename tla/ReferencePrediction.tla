------------------------ MODULE ReferencePrediction ------------------------
(***************************************************************************)
(* What the stride and the open-ended prefetcher of                        *)
(* lab4/simplesim-3.0d-assig4/cache.c have in common: the state an entry   *)
(* of their tables is in, and arithmetic on 32-bit addresses.              *)
(***************************************************************************)
EXTENDS Integers

CONSTANTS ADDRS,   \* addresses are 0 .. ADDRS - 1, a power of two
          bsize    \* size of a cache block

States == {"Init", "Transient", "Steady", "No_Predict", "Not_Used"}

\* md_addr_t and the int strides wrap at the same width.
Plus(addr, stride) == (addr + stride) % ADDRS
Stride(from, to)   == (to - from) % ADDRS
Signed(stride)     == IF stride >= ADDRS \div 2 THEN stride - ADDRS ELSE stride
CACHE_BADDR(addr)  == addr - (addr % bsize)

\* A mistake: one jump is enough to give up a steady stride.
SteadyForgets(state, same) ==
  CASE state \in {"Init", "Transient"} /\ same -> "Steady"
    [] state = "Steady" /\ same     -> "Steady"
    [] state = "No_Predict" /\ same -> "Transient"
    [] state = "Init" /\ ~same      -> "Transient"
    [] state \in {"Transient", "Steady", "No_Predict"} /\ ~same -> "No_Predict"
    [] OTHER -> state

\* The next state, and whether the stride is learned anew.
NextState(state, same) ==
  CASE state \in {"Init", "Transient", "Steady"} /\ same -> "Steady"
    [] state = "No_Predict" /\ same -> "Transient"
    [] state = "Init" /\ ~same      -> "Transient"
    [] state = "Steady" /\ ~same    -> "Init"
    [] state \in {"Transient", "No_Predict"} /\ ~same -> "No_Predict"
    [] OTHER -> state

LearnsStride(state, same) == ~same /\ state \in {"Init", "Transient", "No_Predict"}
=============================================================================
