------------------------- MODULE RegisterAllocation -------------------------
(***************************************************************************)
(* The passes that choose registers for the operands of the loop that have *)
(* none yet (passes/register): NoHazardsAllocationPass, which keeps the    *)
(* registers that are read apart from those that are written, and          *)
(* DefaultRegisterAllocationPass, which makes every instruction depend on  *)
(* the one dd before it and uses the register least recently used.         *)
(*                                                                         *)
(* Registers have one type and are not part of one another.                *)
(***************************************************************************)
EXTENDS CodeBuilding

CONSTANTS
    MinQueue,  \* registers that queues should have at least (5)
    Ranks      \* shuffles of the registers: each puts them in an order

ASSUME RanksAssumption ==
    \A rank \in Ranks : /\ rank \in [Regs -> Nat]
                        /\ \A q, r \in Regs : rank[q] = rank[r] => q = r

VARIABLES
    pools,        \* inputs, inputoutputs and outputs as sets
    queues,       \* and as lists
    shared,       \* history: a register was in two pools at the start
    picks,        \* history: [reg, class, queue] of operands given a register
    lastdefined,  \* Default: registers in the order of their last
    lastused,     \*          definition and use, [reg, at]
    slots         \* history: operand and register chosen for the distance

allocation == <<pools, queues, shared, picks, lastdefined, lastused, slots>>

NoSlot == [operand |-> 0, reg |-> Unset]
InitAllocation ==
    /\ pools = [in |-> {}, io |-> {}, out |-> {}]
    /\ queues = [in |-> <<>>, io |-> <<>>, out |-> <<>>]
    /\ shared = FALSE /\ picks = {}
    /\ lastdefined = <<>> /\ lastused = <<>>
    /\ slots = [i \in {} |-> NoSlot]

RegOperands(i) == {o \in DOMAIN i.val : Operands[i.kind][o].regs # {}}
Class(op) == IF op.in /\ op.out THEN "io" ELSE IF op.in THEN "in" ELSE "out"
Constant(op) == Cardinality(op.regs) = 1

\* An instruction whose operands with a single value have that value.
WithConstants(i) ==
    [i EXCEPT !.val = [o \in DOMAIN @ |->
        IF o \in RegOperands(i) /\ Constant(Operands[i.kind][o])
        THEN First(Operands[i.kind][o].regs) ELSE @[o]]]

-----------------------------------------------------------------------------
(* NoHazardsAllocationPass.                                                *)

\* The registers operands of a class have already, in the loop and its end
Preset(instrs, class) ==
    {r \in Regs : \E i \in instrs : \E o \in RegOperands(i) :
        Class(Operands[i.kind][o]) = class /\ i.val[o] = r}

\* What the loop uses. Reserved registers it does not use are not reserved
\* any more.
Collect ==
    /\ phase = "collect"
    /\ code' = [i \in DOMAIN code |->
                   IF i \in ToSet(Body) THEN WithConstants(code[i]) ELSE code[i]]
    /\ LET instrs == {code'[i] : i \in ToSet(Body)} \cup ToSet(fini)
           used == UNION {UsedBy(i) \cup SetBy(i) : i \in instrs}
           of(class) == Preset(instrs, class) \ reserved
       IN  /\ reserved' = reserved \cap used
           /\ pools' = [in |-> of("in"), io |-> of("io"), out |-> of("out")]
           /\ shared' = \E a, b \in DOMAIN pools' :
                           a # b /\ pools'[a] \cap pools'[b] # {}
    /\ Proceed("minimum")
    /\ UNCHANGED <<case, block, fini, known, file, queues, picks,
                   lastdefined, lastused, slots>>

\* An operand without a register adds to the pool of its class: all registers
\* possible if it is read and written, otherwise the first, in no order, the
\* other pools lack; an output one that its own pool lacks, too.
Pooled(p, op) ==
    LET free == (Regs \cap op.regs) \ reserved
        add(class, regs) == IF regs = {} THEN {p}
                            ELSE {[p EXCEPT ![class] = @ \cup {r}] : r \in regs}
    IN  CASE Class(op) = "io" -> {[p EXCEPT !.io = @ \cup (free \ (p.in \cup p.out))]}
          [] Class(op) = "out" -> add("out", free \ (p.io \cup p.in \cup p.out))
          [] Class(op) = "in" -> add("in", free \ (p.io \cup p.out))

\* What an operand of an instruction makes of some possible pools
Pooling(i, o, P) ==
    IF o \in RegOperands(i) /\ i.val[o] = Unset
    THEN UNION {Pooled(p, Operands[i.kind][o]) : p \in P}
    ELSE P

\* The minimum allocation, for one instruction: no kind has more than three
\* operands.
Minimum ==
    /\ phase = "minimum" /\ step <= Len(Body)
    /\ LET i == code[Body[step]]
       IN  pools' \in Pooling(i, 3, Pooling(i, 2, Pooling(i, 1, {pools})))
    /\ step' = step + 1
    /\ UNCHANGED <<case, phase, code, block, fini, reserved, known, file,
                   queues, shared, picks, lastdefined, lastused, slots>>

MinimumDone ==
    /\ phase = "minimum" /\ step > Len(Body)
    /\ queues' = [class \in DOMAIN pools |-> Sorted(pools[class])]
    /\ Proceed("balance")
    /\ UNCHANGED <<case, code, block, fini, reserved, known, file, pools,
                   shared, picks, lastdefined, lastused, slots>>

Balanced == step > 2
Short == <<"in", "out">>[step]
Lacks == Cardinality(ToSet(queues[Short])) < MinQueue

\* Mutant: always the list that is short.
DonorItself == Short

\* Where registers for a short list come from: the registers read and written,
\* then the other list. The lists are told apart by their contents.
Donor == IF queues.io # <<>> THEN "io"
         ELSE IF queues[Short] = queues.in THEN "out" ELSE "in"

WithoutFirst(seq, r) == RemoveAt(seq, First({k \in DOMAIN seq : seq[k] = r}))
Without(seq, r) == IF Contains(seq, r) THEN WithoutFirst(seq, r) ELSE seq

\* One round of the loop that balances the lists
Balance ==
    /\ phase = "balance" /\ ~Balanced
    /\ IF ~Lacks \/ queues[Donor] = <<>>
       THEN step' = step + 1 /\ UNCHANGED queues
       ELSE LET r == Head(queues[Donor])
                more == [queues EXCEPT ![Short] = Append(@, r)]
            IN  /\ queues' = [more EXCEPT ![Donor] = WithoutFirst(@, r)]
                /\ UNCHANGED step
    /\ UNCHANGED <<case, phase, code, block, fini, reserved, known, file,
                   pools, shared, picks, lastdefined, lastused, slots>>

BalanceDone ==
    /\ phase = "balance" /\ Balanced
    /\ Proceed("rotate")
    /\ UNCHANGED <<case, code, block, fini, reserved, known, file, allocation>>

ToEnd(seq, r) == Append(WithoutFirst(seq, r), r)

\* An operand with a single value: its register goes to the end of its list,
\* or to the registers read and written if it is now both.
ConstantTurn(q, op) ==
    LET r == First(op.regs)
    IN  IF Contains(q.io, r) THEN [q EXCEPT !.io = ToEnd(@, r)]
        ELSE IF Contains(q.in, r)
             THEN IF op.out THEN [q EXCEPT !.in = WithoutFirst(@, r),
                                           !.io = Append(@, r)]
                  ELSE [q EXCEPT !.in = ToEnd(@, r)]
        ELSE IF Contains(q.out, r)
             THEN IF op.in THEN [q EXCEPT !.out = WithoutFirst(@, r),
                                          !.io = Append(@, r)]
                  ELSE [q EXCEPT !.out = ToEnd(@, r)]
        ELSE q

\* Mutant: when its list is empty, the outputs.
ListOfOutputs(q, op) == IF q[Class(op)] = <<>> THEN "out" ELSE Class(op)

\* The list of an operand's class or, when it is empty, the registers read and
\* written
ListOf(q, op) == IF q[Class(op)] = <<>> THEN "io" ELSE Class(op)

\* An operand with a register: it goes to the end of the first list, starting
\* with that of the operand, that has it.
PresetTurn(q, op, r) ==
    LET has == {k \in 1..4 :
                  Contains(q[<<ListOf(q, op), "in", "out", "io">>[k]], r)}
    IN  IF r \in reserved \/ has = {} THEN q
        ELSE [q EXCEPT ![<<ListOf(q, op), "in", "out", "io">>[First(has)]] =
                 ToEnd(@, r)]

\* The register an operand is given goes to the end of the list it is from,
\* and of no other.
Given(q, queue, r) ==
    LET none == [class \in DOMAIN q |-> Without(q[class], r)]
    IN  [none EXCEPT ![queue] = Append(@, r)]

\* An operand without a register: the first possible one of its list, else of
\* those read and written, else the first value there is, which it may set.
FreeTurn(s, o, op) ==
    LET own == ListOf(s.queues, op)
        places(queue, regs) == {k \in DOMAIN s.queues[queue] :
                                   s.queues[queue][k] \in regs}
        first == places(own, op.regs \ reserved)
        queue == IF first = {} THEN "io" ELSE own
        possible == IF first = {} THEN places("io", op.regs) ELSE first
        r == IF possible = {} THEN First(op.regs)
             ELSE s.queues[queue][First(possible)]
        set == [s EXCEPT !.instr.val[o] = r]
    IN  IF possible = {}
        THEN IF op.out THEN [set EXCEPT !.instr.allow = @ \cup {r}] ELSE set
        ELSE [set EXCEPT !.queues = Given(@, queue, r),
                         !.picks = @ \cup {[reg |-> r, class |-> Class(op),
                                           queue |-> queue]}]

\* What an operand of an instruction does
Turn(s, o) ==
    LET op == Operands[s.instr.kind][o]
        r == s.instr.val[o]
    IN  IF o \notin RegOperands(s.instr) THEN s
        ELSE IF Constant(op) THEN [s EXCEPT !.queues = ConstantTurn(@, op)]
        ELSE IF r # Unset THEN [s EXCEPT !.queues = PresetTurn(@, op, r)]
        ELSE FreeTurn(s, o, op)

Rotate ==
    /\ phase = "rotate" /\ step <= Len(Body)
    /\ LET start == [instr |-> code[Body[step]],
                     queues |-> queues, picks |-> picks]
           s == Turn(Turn(Turn(start, 1), 2), 3)
       IN  /\ code' = [code EXCEPT ![Body[step]] = s.instr]
           /\ queues' = s.queues
           /\ picks' = s.picks
    /\ step' = step + 1
    /\ UNCHANGED <<case, phase, block, fini, reserved, known, file, pools,
                   shared, lastdefined, lastused, slots>>

RotateDone ==
    /\ phase = "rotate" /\ step > Len(Body)
    /\ Proceed("default")
    /\ UNCHANGED <<case, code, block, fini, reserved, known, file, allocation>>

-----------------------------------------------------------------------------
(* DefaultRegisterAllocationPass. Instructions are counted from 1.         *)

\* An ordered dictionary: the key goes to the end, or keeps its place.
Entries(dict, regs) == {k \in DOMAIN dict : dict[k].reg \in regs}
Others(dict, r) ==
    IF Entries(dict, {r}) = {} THEN dict ELSE RemoveAt(dict, First(Entries(dict, {r})))
Moved(dict, r, at) == Append(Others(dict, r), [reg |-> r, at |-> at])
Kept(dict, r, at) ==
    IF Entries(dict, {r}) # {}
    THEN [k \in DOMAIN dict |-> IF dict[k].reg = r THEN [reg |-> r, at |-> at]
                                ELSE dict[k]]
    ELSE Append(dict, [reg |-> r, at |-> at])

\* Before the first instruction: the registers that are not reserved, shuffled
Shuffle ==
    /\ phase = "default" /\ step = 1 /\ lastused = <<>>
    /\ Regs \ reserved # {}
    /\ \E rank \in Ranks :
         LET order == SortedBy(Regs \ reserved, LAMBDA r : rank[r])
             with(at) == [k \in DOMAIN order |-> [reg |-> order[k], at |-> at]]
         IN  lastdefined' = with(0) /\ lastused' = with(1)
    /\ UNCHANGED <<building, pools, queues, shared, picks, slots>>

\* The values of an operand a register may be chosen from; the reserved ones
\* only if there are no others and it is only read.
Valid(op) ==
    IF Constant(op) THEN op.regs
    ELSE IF op.regs \ reserved = {} /\ op.in /\ ~op.out THEN op.regs
    ELSE op.regs \ reserved

\* sort_by_usage: the first possible register of the list
ByUsage(valid, dict) ==
    IF Entries(dict, valid) = {} THEN First(valid)
    ELSE dict[First(Entries(dict, valid))].reg

\* Mutant: the instructions are counted from the one before.
ByDistanceLate(valid, distance) ==
    LET there == {k \in Entries(lastdefined, valid) :
                     lastdefined[k].at = step - distance - 1}
    IN  IF there = {} THEN ByUsage(valid, lastused) ELSE lastdefined[First(there)].reg

\* sort_by_distance: the first one defined at the distance
ByDistance(valid, distance) ==
    LET there == {k \in Entries(lastdefined, valid) :
                     lastdefined[k].at = step - distance}
    IN  IF there = {} THEN ByUsage(valid, lastused) ELSE lastdefined[First(there)].reg

\* The registers possible by usage when the first three are shuffled
ByUsageShuffled(valid, dict) ==
    LET head == IF Len(dict) > 3 THEN Entries(dict, valid) \cap 1..3 ELSE {}
    IN  IF head = {} THEN {ByUsage(valid, dict)} ELSE {dict[k].reg : k \in head}

\* The outcomes for one operand without a register
Chosen(s, o) ==
    LET op == Operands[s.instr.kind][o]
        far == op.in /\ case.dd > 0 /\ s.slot = NoSlot /\ step > case.dd
        regs == IF Valid(op) = {} THEN {}
                ELSE IF far THEN {ByDistance(Valid(op), case.dd)}
                ELSE ByUsageShuffled(Valid(op), s.used)
        used(r) == Moved(s.used, r, step)
    IN  {[s EXCEPT
            !.instr.val[o] = r, !.used = used(r),
            !.defined = IF op.out THEN Moved(@, r, step) ELSE @,
            !.chosen = @ \cup {r},
            !.set = IF op.out THEN @ \cup {r} ELSE @,
            !.slot = IF far THEN [operand |-> o, reg |-> r] ELSE @]
          : r \in regs}

\* What an operand of an instruction makes of the outcomes so far
Choosing(i, o, outcomes) ==
    IF o \in RegOperands(i) /\ i.val[o] = Unset
    THEN UNION {Chosen(s, o) : s \in outcomes}
    ELSE outcomes

\* Registers the instruction uses, and the one it sets, by operands that had
\* them. Those used keep their place in the list.
UsedAfter(s) ==
    FoldLeft(LAMBDA d, r : Kept(d, r, step), s.used,
             Sorted(UsedBy(s.instr) \ (s.chosen \cup reserved)))
DefinedAfter(s) ==
    LET more == SetBy(s.instr) \ (s.set \cup reserved)
    IN  IF more = {} THEN s.defined
        ELSE Moved(s.defined, CHOOSE r \in more : TRUE, step)

\* One instruction. No register for an operand, or a reserved one set that the
\* instruction is not allowed to set, ends the program.
Allocate ==
    /\ phase = "default" /\ step <= Len(Body) /\ lastused # <<>>
    /\ UNCHANGED <<case, block, fini, reserved, known, file, pools, queues,
                   shared, picks>>
    /\ LET i == code[Body[step]]
           start == [instr |-> i, used |-> lastused, defined |-> lastdefined,
                     chosen |-> {}, set |-> {}, slot |-> NoSlot]
           outcomes == Choosing(i, 3, Choosing(i, 2, Choosing(i, 1, {start})))
           legal(s) == reserved \cap SetBy(s.instr) \subseteq s.instr.allow
       IN  \/ /\ outcomes = {} \/ \E s \in outcomes : ~legal(s)
              /\ Fails /\ UNCHANGED <<code, lastdefined, lastused, slots>>
           \/ \E s \in {t \in outcomes : legal(t)} :
                /\ code' = [code EXCEPT ![Body[step]] = s.instr]
                /\ lastused' = UsedAfter(s)
                /\ lastdefined' = DefinedAfter(s)
                /\ slots' = [k \in DOMAIN slots \cup {Body[step]} |->
                               IF k = Body[step] THEN s.slot ELSE slots[k]]
                /\ step' = step + 1 /\ UNCHANGED phase

AllocateDone ==
    /\ phase = "default" /\ step > Len(Body)
    /\ Proceed("run")
    /\ UNCHANGED <<case, code, block, fini, reserved, known, file, allocation>>

NoHazardsNext == \/ Collect \/ Minimum \/ MinimumDone
                 \/ Balance \/ BalanceDone \/ Rotate \/ RotateDone
DefaultNext == Shuffle \/ Allocate \/ AllocateDone

-----------------------------------------------------------------------------
\* Registers that some operand cannot but have
Fixed == {r \in Regs : \E kind \in DOMAIN Operands :
                \E o \in DOMAIN Operands[kind] : Operands[kind][o].regs = {r}}

\* A register that NoHazardsAllocationPass gave from the list of those read is
\* given to no operand that writes, and one from the list of those written to
\* none that reads, from whichever list the other operand is served: reads and
\* writes served from these two lists do not depend on what the pass gives to
\* the others, in this iteration or the next. Nothing is said of the list of
\* those read and written, from which it serves every operand the other lists
\* have no register for (so C.AND may read what C.ADDI writes, against the
\* docstring of the class), of operands no list has one for, which are forced
\* to their first value, of operands that had a register before, and of blocks
\* with a register on two lists (which the assertion of the pass, comparing
\* each list with itself, misses).
NoHazards ==
    ~shared => \A p, q \in picks : p.reg = q.reg /\ p.reg \notin Fixed =>
                  /\ p.queue = "in" => q.class = "in"
                  /\ p.queue = "out" => q.class = "out"

\* The registers of the loop a preceding instruction at the distance has set
\* and none since, of those an operand could have.
SetAtDistance(at, op) ==
    {r \in SetBy(code[Body[at - case.dd]]) \cap (op.regs \ reserved) :
        \A j \in (at - case.dd + 1)..(at - 1) : r \notin SetBy(code[Body[j]])}

\* Every instruction with a source to choose depends on the instruction dd
\* before it if that one has set a register that can be chosen and is still
\* there, whoever chose it (DefaultRegisterAllocationPass, dd).
DistanceKept ==
    phase = "default" /\ case.dd > 0 =>
        \A at \in (case.dd + 1)..(step - 1) :
            LET slot == slots[Body[at]]
                op == Operands[code[Body[at]].kind][slot.operand]
            IN  slot # NoSlot /\ SetAtDistance(at, op) # {}
                  => slot.reg \in SetAtDistance(at, op)

\* Balancing the lists ends when no register is on two of them: it does not go
\* round the list it is filling.
BalanceEnds == phase = "balance" /\ ~shared ~> phase = "rotate"
=============================================================================
