----------------------------- MODULE EndlessLoop -----------------------------
(***************************************************************************)
(* What the body of a generated benchmark promises once its branches have  *)
(* targets: whatever the outcome of its conditional branches, it executes  *)
(* its instructions 1, 2, ..., size in program order, once each, for ever. *)
(***************************************************************************)
EXTENDS Naturals

VARIABLES
    running,  \* the benchmark has been written and started
    done,     \* the last instruction executed, 0 before the first
    size      \* the instructions of one iteration; never changes

vars == <<running, done, size>>

Init == ~running /\ done = 0

Start ==
    /\ ~running /\ running'
    /\ UNCHANGED <<done, size>>

Execute ==
    /\ running
    /\ done' = (done % size) + 1
    /\ UNCHANGED <<running, size>>

Next == Start \/ Execute

Spec == Init /\ [][Next]_vars /\ WF_vars(Execute)
=============================================================================
