------------------------------ MODULE SeqTune ------------------------------
(***************************************************************************)
(* The policy seqtune of RISC-V (targets/riscv/policies/seqtune.py): the   *)
(* registers are initialized, memory streams are added and registers are   *)
(* allocated to a loop, one pass after the other; then the loop is run on  *)
(* a machine.                                                              *)
(***************************************************************************)
EXTENDS MemoryStreams, RegisterAllocation

CONSTANT MaxLoops  \* bound on the iterations of the loop that are run

VARIABLES
    pc,       \* the instruction to execute next, in the loop and its end
    at,       \* accesses made in this iteration
    loop,     \* iterations completed
    address   \* of the last access

machine == <<pc, at, loop, address>>
vars == <<building, streams, allocation, machine>>

Init ==
    /\ InitBuilding /\ InitStreams /\ InitAllocation
    /\ pc = 1 /\ at = 0 /\ loop = 0 /\ address = Number(0)

\* The policy: without streams the second pass is left out, and without a
\* dependency distance NoHazardsAllocationPass comes before the default pass.
InitializeDone ==
    /\ phase = "initialize" /\ step > Len(case.given)
    /\ Proceed(IF Model # <<>> THEN "declare"
               ELSE IF case.dd < 1 THEN "collect" ELSE "default")
    /\ UNCHANGED <<case, code, block, fini, reserved, known, file>>

Program == LET body == Body IN [k \in DOMAIN body |-> code[body[k]]] \o fini
Branch(i) == i.kind = "blt"

\* One instruction; a load accesses memory. (External: the machine.) Loops
\* without streams are not run.
Execute ==
    /\ phase = "run" /\ plan # <<>> /\ pc <= Len(Program)
    /\ LET i == Program[pc]
       IN  /\ file' = Executed(file, i)
           /\ IF i.kind = "load"
              THEN /\ address' = Plus(file[i.val[2]], i.val[1])
                   /\ at' = at + 1
              ELSE UNCHANGED <<address, at>>
           /\ IF Branch(i)
              THEN \E taken \in Taken(i, file) :
                      pc' = IF taken THEN Len(Body) + i.val[1] ELSE pc + 1
              ELSE pc' = pc + 1
    /\ UNCHANGED <<case, phase, step, code, block, fini, reserved, known, loop>>

\* The endless loop of the wrapper
NextLoop ==
    /\ phase = "run" /\ plan # <<>> /\ pc > Len(Program) /\ loop < MaxLoops
    /\ pc' = 1 /\ at' = 0 /\ loop' = loop + 1
    /\ UNCHANGED <<building, address>>

Next ==
    \/ (InitializeRegister \/ InitializeDone)
          /\ UNCHANGED <<streams, allocation, machine>>
    \/ StreamsNext /\ UNCHANGED <<allocation, machine>>
    \/ (NoHazardsNext \/ DefaultNext) /\ UNCHANGED <<streams, machine>>
    \/ (Execute \/ NextLoop) /\ UNCHANGED <<streams, allocation>>

\* The program does not stop in the middle of balancing the lists.
Spec == Init /\ [][Next]_vars
             /\ WF_vars((Balance \/ BalanceDone) /\ UNCHANGED <<streams, machine>>)

-----------------------------------------------------------------------------
\* Numbers LUI and ADDI make wrong in a long register: the upper part, one
\* more because of a negative lower part, turns negative.
AtHalfWord(n) == TwoTo(Half - 1) - TwoTo(ImmBits - 1) <= n /\ n < TwoTo(Half - 1)

\* What the context says of the registers before the loop is what they hold
\* when it starts, however the value was put there (set_register,
\* set_register_to_address). Register 0 must be reserved: it is recorded with
\* a value it cannot have. Numbers right below half a word are wrong.
RegistersKnown ==
    /\ phase \in {"initialize", "declare"} /\ 0 \notin DOMAIN known
    /\ \A e \in ToSet(case.given) : ~AtHalfWord(e.value)
    => \A r \in DOMAIN known :
          file[r] = IF known[r].var = 0 THEN Number(Wrap(known[r].n))
                    ELSE known[r]

\* A variable is walked through if less than half of it is touched.
Walked(sid) == descriptors[sid].maxValue * 2 < Model[sid].size

\* The cases the streams are right for: one stream for each variable (an ADDI
\* one stream makes its own is in the way of another's access to the same
\* variable); more than one variable only in order (two insertions at the
\* front of the block overwrite one another); no register initialized to a
\* number near a guard (it is taken from there, though the loop changes it);
\* accesses that stay in the variable when they are shifted; no base of a
\* variable that is walked through set anew within the loop (it is not moved
\* on then).
StreamsSound ==
    /\ \A sid \in Sids : Model[sid].streams = 1
    /\ Len(Model) = 1 \/ \A sid \in Sids : Model[sid].shuffle = 0
    /\ \A e \in ToSet(case.given), sid \in Sids :
          e.value > Model[sid].size + TwoTo(ImmBits - 1)
    /\ \A k \in DOMAIN plan : plan[k].n < Model[plan[k].var].size
    /\ \A i \in ToSet(Body) :
          code[i].kind = "lo12" => ~Walked(code[i].val[1].var)

Running == phase = "run" /\ plan # <<>>
Walk == INSTANCE StreamWalk WITH
    plan <- IF Running THEN plan ELSE <<>>,
    window <- IF Running THEN [sid \in Sids |->
                  [size |-> Model[sid].size, stride |-> Model[sid].stride,
                   max |-> descriptors[sid].maxValue]] ELSE <<>>,
    loop <- IF Running THEN loop ELSE 0,
    at <- at, address <- address

\* The loop that is built walks through its variables as the streams promise:
\* after register allocation and through the code at the end of the loop,
\* every load of every iteration accesses the address planned for it, moved
\* on with its variable (GenericMemoryStreamsPass and the passes after it).
WalksAsPlanned == Walk!Init /\ [][StreamsSound => Walk!Next]_(Walk!vars)
=============================================================================
