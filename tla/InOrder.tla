------------------------------- MODULE InOrder -------------------------------
(***************************************************************************)
(* What a pipeline promises the program it runs: instructions execute one  *)
(* after the other, each where the one before it went on, and retire in    *)
(* the order they executed in.  A trap finds the machine empty.            *)
(***************************************************************************)
EXTENDS Naturals, Sequences

CONSTANTS
  Size,              \* instructions in the machine
  Programs,
  Successors(_, _),  \* where a text goes on after the instruction at an address
  Opcode(_, _)       \* the operation at an address of a text

VARIABLES
  code,     \* the text
  window,   \* the addresses of the instructions executed and not retired
  npc       \* where the program goes on
vars == <<code, window, npc>>

Init == code \in Programs /\ window = <<>> /\ npc = 1

Execute ==
  /\ Opcode(code, npc) = "syscall" => window = <<>>
  /\ window' = IF Opcode(code, npc) = "nop" THEN window ELSE Append(window, npc)
  /\ Len(window') <= Size
  /\ npc' \in Successors(code, npc)
  /\ UNCHANGED code

Retire == window # <<>> /\ window' = Tail(window) /\ UNCHANGED <<code, npc>>

Next == Execute \/ Retire

Spec == Init /\ [][Next]_vars
=============================================================================
