---------------------------- MODULE MemoryStreams ----------------------------
(***************************************************************************)
(* GenericMemoryStreamsPass (passes/memory): the memory accesses of a loop *)
(* walk through variables in strides.  Each stream of a variable has base  *)
(* registers of its own; where an access is out of reach of the registers, *)
(* instructions are inserted (or an ADDI of the loop is made) to move its  *)
(* base register on, and at the end of the loop all bases move on to the   *)
(* next part of the variable, or back to its start.                        *)
(*                                                                         *)
(* The loop has loads of one memory operand, as RISC-V has: no index       *)
(* register takes part in the address, it is only reserved and kept zero.  *)
(***************************************************************************)
EXTENDS CodeBuilding

VARIABLES
    descriptors,  \* for each variable: [base, idx: registers of its streams;
                  \* baseVal: displacement in each base; calc: for each
                  \* stream the ADDIs of the loop since it was used, a set;
                  \* last: its last access, or 0; count, maxValue, values;
                  \* sind: the stream to use next]
    accesses,     \* accesses modelled so far; the mix function's position
    pending,      \* the last branch of fini without a target, or 0
    plan          \* history: the address planned for each access

streams == <<descriptors, accesses, pending, plan>>

Model == case.model  \* sequence of [size, ratio, stride, streams, shuffle]
Sids == DOMAIN Model

InitStreams == descriptors = <<>> /\ accesses = 0 /\ pending = 0 /\ plan = <<>>

\* The displacements of a stream variable, shifted by shift_streams for each
\* variable before it.
Values(sid) ==
    LET m == Model[sid]
    IN  IF m.stride = 0 THEN <<0>>
        ELSE [i \in 1..((m.size + m.stride - 1) \div m.stride) |->
                 (i - 1) * m.stride + (sid - 1) * case.shift]

\* distrib.shuffle: the ascending values stay as they are (0), are shuffled all
\* together (-1), or window by window: a window has the values that are less
\* than the number given from its first.
Orders(values, sid) ==
    LET m == Model[sid]
        width == (m.shuffle + m.stride - 1) \div m.stride
        within(p) == \A i \in DOMAIN p :
                        (i - 1) \div width = (p[i] - 1) \div width
    IN  IF m.stride = 0 \/ m.shuffle = 0 THEN {values}
        ELSE {[i \in DOMAIN values |-> values[p[i]]] :
                 p \in {q \in Bijection(DOMAIN values, DOMAIN values) :
                          m.shuffle = -1 \/ within(q)}}

\* The variables with a share of the accesses
Sharing == {sid \in Sids : Model[sid].ratio > 0}

\* regular_seq: the variables of the accesses in turn, for shares of 100
Mix ==
    LET every(sid) == 100 \div Model[sid].ratio - 1
        round(i) == Sorted({s \in Sharing : every(s) = 0 \/ i % every(s) = 0})
    IN  FlattenSeq([i \in 1..100 |-> round(i - 1)])
NextSid == Mix[(accesses % Len(Mix)) + 1]

\* The registers a variable gets: base and index of each stream, in turn the
\* first that is left. None if there are too few.
StreamRegs(n, taken) ==
    LET left == Sorted(AddressRegsLeft(taken))
    IN  [base |-> [s \in 1..n |-> left[2 * s - 1]],
         idx |-> [s \in 1..n |-> left[2 * s]]]
EnoughRegs(sid, taken) ==
    Cardinality(AddressRegsLeft(taken)) >= 2 * Model[sid].streams

\* What is known once the registers of the first s streams of the variable
\* being declared are set, the base to its address and the index to zero.
KnowingStreams(regs, s) ==
    LET bases == {regs.base[j] : j \in 1..s}
        indices == {regs.idx[j] : j \in 1..s}
    IN  [r \in DOMAIN known \cup bases \cup indices |->
            IF r \in bases THEN [var |-> step, n |-> 0]
            ELSE IF r \in indices THEN Number(0) ELSE known[r]]

\* The registers of stream s are set.
SetStream(f, regs, s) ==
    LET before == KnowingStreams(regs, s - 1)
        a == [var |-> step, n |-> 0]
    IN  RunInstrs(f, SetRegisterToAddress(regs.base[s], a, before)
                        \o SetRegister(regs.idx[s], 0, Knowing(before, regs.base[s], a)))

\* The registers of the streams of a variable are set, one after the other.
SetStreams(regs, n) ==
    LET after[s \in 0..n] ==
            IF s = 0 THEN file ELSE SetStream(after[s - 1], regs, s)
    IN  after[n]

\* A variable of the model is declared and its registers are reserved and set.
\* The code sets them in a second round over the variables; nothing it reads
\* differs. A variable with no share gets no registers, and no descriptor.
DeclareStream ==
    /\ phase = "declare" /\ step <= Len(Model)
    /\ UNCHANGED <<case, code, block, fini, accesses, pending, plan>>
    /\ IF step \in Sharing /\ ~EnoughRegs(step, reserved)
       THEN Fails /\ UNCHANGED <<reserved, known, file, descriptors>>
       ELSE LET n == IF step \in Sharing THEN Model[step].streams ELSE 0
                regs == StreamRegs(n, reserved)
            IN  /\ reserved' = reserved \cup ToSet(regs.base)
                                        \cup ToSet(regs.idx)
                /\ known' = KnowingStreams(regs, n)
                /\ file' = SetStreams(regs, n)
                /\ \E values \in Orders(Values(step), step) :
                     descriptors' = Append(descriptors,
                        [base |-> regs.base, idx |-> regs.idx,
                         baseVal |-> [s \in 1..n |-> 0],
                         calc |-> [s \in 1..n |-> {}], last |-> 0,
                         count |-> 0, maxValue |-> 0, values |-> values,
                         sind |-> 1])
                /\ step' = step + 1 /\ UNCHANGED phase

DeclareDone ==
    /\ phase = "declare" /\ step > Len(Model)
    /\ Proceed("streams")
    /\ UNCHANGED <<case, code, block, fini, reserved, known, file, streams>>

\* The pass goes through the instructions the loop had at its start; those it
\* inserts are not among them.
Modelling == phase = "streams" /\ step <= Len(case.body)
Modelled == step' = step + 1 /\ UNCHANGED <<case, phase, fini, reserved, file>>

\* Other instructions pass by; an ADDI may be reused by any stream.
ModelOther ==
    /\ Modelling /\ code[step].kind # "load" /\ Modelled
    /\ descriptors' = IF code[step].kind # "addi" THEN descriptors
                      ELSE [t \in Sids |-> [descriptors[t] EXCEPT !.calc =
                              [s \in DOMAIN @ |-> @[s] \cup {step}]]]
    /\ UNCHANGED <<code, block, known, accesses, pending, plan>>

\* A stream was used: it has no ADDIs any more, and what it reused is taken
\* from all streams.
UsedByStream(sid, reused) ==
    [t \in Sids |-> [descriptors[t] EXCEPT !.calc =
        [s \in DOMAIN @ |-> IF t = sid /\ s = descriptors[t].sind
                            THEN {} ELSE @[s] \ ToSet(reused)]]]

\* The displacement of the next access
ValueOfNext(d) == d.values[(d.count % Len(d.values)) + 1]

\* Once the values have all been used, and the first of them again, they are
\* sorted and shuffled anew.
NewValues(sid, d) ==
    IF d.count % Len(d.values) = 0 /\ d.count > 1
    THEN Orders(Sorted(ToSet(d.values)), sid)
    ELSE {d.values}

\* The instructions that move a base register by the distance, the ADDIs of
\* the loop that are made to do the first of it, and where the rest goes.
\* Setting the register anew is preferred if it takes no more than the rest.
Move(sid, d, a) ==
    LET base == d.base[d.sind]
        free == Sorted(d.calc[d.sind])
        adds == AddToRegister(base, a.n - d.baseVal[d.sind])
        k == IF Len(free) < Len(adds) THEN Len(free) ELSE Len(adds)
        rest == SubSeq(adds, k + 1, Len(adds))
        anew == SetRegisterToAddress(base, a, known)
    IN  IF Len(anew) <= Len(rest)
        THEN [reused |-> <<>>, set |-> <<>>, new |-> anew, after |-> d.last]
        ELSE [reused |-> SubSeq(free, 1, k), set |-> SubSeq(adds, 1, k),
              new |-> rest, after |-> IF k = 0 THEN d.last ELSE free[k]]

NoMove == [reused |-> <<>>, set |-> <<>>, new |-> <<>>, after |-> 0]
Moves(sid, d, a) ==
    IF SetAddress(a, known) = {} THEN {Move(sid, d, a)} ELSE {NoMove}

\* The loop's instructions with those of a move, and the access itself.
CodeWith(move, regs, access, c) ==
    LET allowed(i) == [i EXCEPT !.allow = @ \cup regs]
        given == [i \in DOMAIN code |->
            IF i = access
            THEN [code[i] EXCEPT !.val = <<c[2], c[1], @[3]>>]
            ELSE IF i \notin ToSet(move.reused) THEN code[i]
            ELSE allowed([code[i] EXCEPT !.val =
                     move.set[CHOOSE j \in DOMAIN move.set :
                                move.reused[j] = i].val])]
    IN  given \o [j \in DOMAIN move.new |-> allowed(move.new[j])]

\* A variable after an access at n, which was within reach or far
WithAccess(d, n, far, values) ==
    [d EXCEPT !.baseVal[d.sind] = IF far THEN n ELSE @,
              !.last = step, !.count = @ + 1,
              !.maxValue = IF @ < n THEN n ELSE @,
              !.values = values,
              !.sind = (@ % Len(d.base)) + 1]

\* A load: the next address of the next stream of the next variable, reached
\* from the registers as they are or by a move of the stream's base.
AccessOf(sid, d, a) ==
    LET base == d.base[d.sind]
        far == SetAddress(a, known) = {}
    IN  /\ known' = IF far THEN Knowing(known, base, a) ELSE known
        /\ \E move \in Moves(sid, d, a), values \in NewValues(sid, d) :
             LET ids == [j \in DOMAIN move.new |-> Len(code) + j]
             IN  /\ \E c \in SetAddress(a, known') :
                       code' = CodeWith(move, {base, d.idx[d.sind]}, step, c)
                 /\ block' = IF ids = <<>> THEN block
                             ELSE B!InsertInstr(block, ids, step, move.after)
                 /\ descriptors' = [UsedByStream(sid, move.reused) EXCEPT
                       ![sid] = WithAccess(@, a.n, far, values)]
        /\ plan' = Append(plan, a)

ModelAccess ==
    /\ Modelling /\ code[step].kind = "load" /\ Modelled
    /\ \E sid \in Sharing :
         /\ sid = NextSid
         /\ AccessOf(sid, descriptors[sid],
                     [var |-> sid, n |-> ValueOfNext(descriptors[sid])])
    /\ accesses' = accesses + 1
    /\ UNCHANGED pending

ModelDone ==
    /\ phase = "streams" /\ step > Len(case.body)
    /\ Proceed("finish")
    /\ UNCHANGED <<case, code, block, fini, reserved, known, file, streams>>

\* The branch that waits for a target gets one.
Resolved(f, target) ==
    IF pending = 0 THEN f ELSE [f EXCEPT ![pending].val[1] = target]

NothingKnown == [r \in {} |-> Number(0)]
EachStream(d, op(_)) == FlattenSeq([s \in DOMAIN d.base |-> op(s)])

\* The end of the loop for a variable that is gone through at least half: its
\* registers return to the start.
ResetCode(sid) ==
    LET d == descriptors[sid]
    IN  EachStream(d, LAMBDA s : SetByName(d.base[s], [var |-> sid, n |-> 0])
                                   \o SetRegister(d.idx[s], 0, NothingKnown))

\* How far a variable's bases are moved on at the end of an iteration, and
\* after how many iterations they return.
StepOf(sid) == descriptors[sid].maxValue + Model[sid].stride
GuardOf(sid) == Model[sid].size \div StepOf(sid)

\* Mutant: a base that moved within the iteration is moved on from there.
MoveOnFromHere(sid) ==
    LET d == descriptors[sid]
    IN  EachStream(d, LAMBDA s : AddToRegister(d.base[s], StepOf(sid)))

\* Every base moves on from where the iteration left it.
MoveOnCode(sid) ==
    LET d == descriptors[sid]
    IN  EachStream(d, LAMBDA s :
            AddToRegister(d.base[s], StepOf(sid) - d.baseVal[s]))

\* The index registers are set to zero, the iterations are counted, the bases
\* moved on and, unless the guard is not reached yet, returned to the start.
WalkCode(sid, counter) ==
    LET d == descriptors[sid]
        zero == EachStream(d, LAMBDA s : SetRegister(d.idx[s], 0, NothingKnown))
    IN  zero \o AddToRegister(counter, 1) \o MoveOnCode(sid)
            \o CompareAndBranch(counter, GuardOf(sid), Unset, known)
WalkReturnCode(sid, counter) ==
    LET d == descriptors[sid]
    IN  EachStream(d, LAMBDA s : SetByName(d.base[s], [var |-> sid, n |-> 0])
                                   \o SetRegister(counter, 0, NothingKnown))

\* A variable at the end of the loop. One without registers has no descriptor
\* and is an error (KeyError); one whose accesses are all at its start needs
\* nothing. The branch of an earlier variable goes to the first instruction
\* added, or to where the index of the last stream is set.
FinishStream ==
    /\ phase = "finish" /\ step <= Len(Model)
    /\ UNCHANGED <<case, code, block, known, descriptors, accesses, plan>>
    /\ LET d == descriptors[step]
           left == AddressRegsLeft(reserved)
           n == Len(fini)
       IN  IF step \notin Sharing
           THEN Fails /\ UNCHANGED <<fini, reserved, file, pending>>
           ELSE IF d.maxValue = 0
           THEN /\ step' = step + 1
                /\ UNCHANGED <<phase, fini, reserved, file, pending>>
           ELSE IF d.maxValue * 2 >= Model[step].size
           THEN /\ fini' = Resolved(fini, n + 1) \o ResetCode(step)
                /\ pending' = 0 /\ step' = step + 1
                /\ UNCHANGED <<phase, reserved, file>>
           ELSE IF left = {}
           THEN Fails /\ UNCHANGED <<fini, reserved, file, pending>>
           ELSE LET counter == First(left)
                    walk == WalkCode(step, counter)
                IN  /\ fini' = Resolved(fini, n + Len(d.idx)) \o walk
                                  \o WalkReturnCode(step, counter)
                    /\ pending' = n + Len(walk)
                    /\ reserved' = reserved \cup {counter}
                    /\ file' = RunInstrs(file, SetRegister(counter, 0, known))
                    /\ step' = step + 1 /\ UNCHANGED phase

\* A branch that still waits goes to a no-operation at the end.
FinishDone ==
    /\ phase = "finish" /\ step > Len(Model)
    /\ fini' = IF pending = 0 THEN fini
               ELSE Append(Resolved(fini, Len(fini) + 1), Instr("nop", <<>>))
    /\ pending' = 0
    /\ Proceed(IF case.dd < 1 THEN "collect" ELSE "default")
    /\ UNCHANGED <<case, code, block, reserved, known, file, descriptors,
                   accesses, plan>>

StreamsNext == \/ DeclareStream \/ DeclareDone \/ ModelOther \/ ModelAccess
               \/ ModelDone \/ FinishStream \/ FinishDone
=============================================================================
