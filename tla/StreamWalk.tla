----------------------------- MODULE StreamWalk -----------------------------
(***************************************************************************)
(* What the memory streams of a loop promise: each iteration makes the     *)
(* accesses that were planned, in their order; from one iteration to the   *)
(* next the accesses of a variable move on together, past what was         *)
(* touched, and return to the start of the variable before they leave it.  *)
(***************************************************************************)
EXTENDS Integers, Sequences

VARIABLES
    plan,     \* the accesses of the first iteration, [var, n]
    window,   \* of each variable: its size, the largest displacement planned
              \* and the stride
    at,       \* accesses made in this iteration
    loop,     \* iterations completed
    address   \* of the last access

vars == <<plan, window, at, loop, address>>

Nowhere == [var |-> 0, n |-> 0]  \* variables are counted from 1

Init == /\ plan = <<>> /\ window = <<>>
        /\ at = 0 /\ loop = 0 /\ address = Nowhere

\* A plan: every access is inside its variable, and accesses to a variable
\* without a stride are all to its start.
WellPlanned(p, w) ==
    /\ w \in [DOMAIN w -> [size : Nat, max : Nat, stride : Nat]]
    /\ p \in Seq([var : DOMAIN w, n : Nat])
    /\ \A k \in DOMAIN p :
          LET v == p[k].var
          IN  /\ p[k].n <= w[v].max /\ w[v].max < w[v].size
              /\ w[v].stride = 0 => w[v].max = 0

Generate == /\ plan = <<>> /\ at = 0
            /\ WellPlanned(plan', window')
            /\ UNCHANGED <<at, loop, address>>

\* The step of a variable, and the iterations until it is back at its start:
\* a variable of which half or more is touched does not move.
Step(v) == window[v].max + window[v].stride
Rounds(v) ==
    IF window[v].max = 0 \/ window[v].max * 2 >= window[v].size
       \/ window[v].size \div Step(v) = 0
    THEN 1 ELSE window[v].size \div Step(v)
Offset(v) == (loop % Rounds(v)) * Step(v)

Access ==
    /\ at < Len(plan)
    /\ at' = at + 1
    /\ LET a == plan[at + 1]
       IN  address' = [var |-> a.var, n |-> a.n + Offset(a.var)]
    /\ UNCHANGED <<plan, window, loop>>

Again == /\ plan # <<>> /\ at = Len(plan)
         /\ at' = 0 /\ loop' = loop + 1
         /\ UNCHANGED <<plan, window, address>>

Next == Generate \/ Access \/ Again

Spec == Init /\ [][Next]_vars

-----------------------------------------------------------------------------
\* No access leaves its variable, in whichever iteration.
InBounds ==
    address # Nowhere =>
        0 <= address.n /\ address.n < window[address.var].size
=============================================================================
