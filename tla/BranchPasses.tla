----------------------------- MODULE BranchPasses -----------------------------
(***************************************************************************)
(* The passes that give the branches of a building block their targets     *)
(* (BranchNextPass, BranchBraidNextPass and FixIndirectBranchPass of       *)
(* passes/branch), between the passes that compute the addresses and       *)
(* resolve the labels, and the generated loop executing.                   *)
(*                                                                         *)
(* A pass runs alone over the whole building block, so it is one step; the *)
(* loop over consecutive instructions inside it is a fold. The building    *)
(* block is a record: the instruction objects by number, the blocks (see   *)
(* BasicBlock), fini, and the addresses the context believes are held by   *)
(* reserved registers. Instructions are one address unit long.             *)
(***************************************************************************)
EXTENDS BasicBlock, SequencesExt

CONSTANTS
    Cases,          \* the programs and pass lists of this instance
    FreeRegisters,  \* registers get_register_for_address_arithmetic can give
    RegisterLimit   \* registers the braid loads before it reuses labels (5)

VARIABLES
    case,   \* the program, its passes and its output; never changes
    bb,     \* the building block
    todo,   \* the passes still to run
    code,   \* the assembled loop, empty until it is
    pc,     \* position of the instruction executed next
    done    \* program order number of the last instruction executed

vars == <<case, bb, todo, code, pc, done>>

-----------------------------------------------------------------------------
(* Labels and targets. A label is a name, a number and the suffixes added. *)

Label(name, n) == [name |-> name, n |-> n, suffix |-> <<>>]
NoLabel == Label("none", 0)
Suffixed(label, s) == [label EXCEPT !.suffix = Append(@, s)]

\* What the operands of a branch say. A label and a displacement, with the
\* instruction known to be there (0 if none); a number relative to the branch
\* ("offset"); registers of the program ("given"); a register loaded with a
\* label ("register"), to which an immediate is added that was not set
\* ("unset") or is the program's ("stale"); a register loaded with a label in
\* a copy, which does not know the address any more ("copied").
Target(by, label, disp, to) ==
    [by |-> by, label |-> label, disp |-> disp, to |-> to]
NoTarget == Target("none", NoLabel, 0, 0)
ToLabel(label, to) == Target("label", label, 0, to)

Kinds == {"plain", "cond", "jump", "indirect"}

\* An instruction of a program: with the label 1 or none (0), with a target
\* that is the label 1, registers of its own, or not there yet.
Items == [kind : Kinds, label : {0, 1}, aim : {"none", "label", "given"}]

\* A building block has an instruction; SynthesizerPass objects run one by one.
ASSUME CasesAssumption ==
    /\ FreeRegisters \in Nat /\ RegisterLimit \in Nat \ {0}
    /\ \A c \in Cases :
         /\ c.blocks \in Seq(Seq(Items)) /\ FlattenSeq(c.blocks) # <<>>
         /\ c.fini \in Nat /\ c.chunk \in Nat \ {0}
         /\ c.passes \in Seq({"next", "braid", "fix"})

Branch(ins) == ins.kind # "plain"
Relative(ins) == ins.kind \in {"cond", "jump"}

\* memory_operand.address is not None: set_address was called, or the operand
\* was read from a label. Neither an offset nor a given register counts, nor
\* a register in a copy.
HasAddress(ins) == ins.target.by \in {"label", "register", "unset", "stale"}
HasOperands(ins) == ins.target.by # "none"

Relabel(s, i, label) == [s EXCEPT !.instr[i].label = label]
Retarget(s, i, target) == [s EXCEPT !.instr[i].target = target]

NewInstruction(item, i) ==
    [kind |-> item.kind, origin |-> i, strand |-> 1, address |-> None,
     label |-> IF item.label = 0 THEN NoLabel ELSE Label("user", item.label),
     target |-> IF item.aim = "label" THEN ToLabel(Label("user", 1), 0)
                ELSE Target(item.aim, NoLabel, 0, 0)]

\* The building block as the passes before left it: instruction i of the
\* program is the object i, wherever its block and fini begin. A branch may
\* have a target already: the label 1, or registers ("given").
Program(c) ==
    FlattenSeq(c.blocks)
        \o [k \in 1..c.fini |-> [kind |-> "plain", label |-> 0, aim |-> "none"]]

Built(c) ==
    LET body == Len(FlattenSeq(c.blocks))
        before(b) == Len(FlattenSeq(SubSeq(c.blocks, 1, b - 1)))
    IN  [instr |-> [i \in DOMAIN Program(c) |-> NewInstruction(Program(c)[i], i)],
         blocks |-> [b \in DOMAIN c.blocks |->
                       NewBlock(NewInstrs(before(b), Len(c.blocks[b])))],
         fini |-> NewInstrs(body, c.fini),
         registers |-> <<>>,
         ok |-> TRUE]  \* no pass has raised

Size(c) == Len(Program(c))

Body(s) == FlattenSeq([b \in DOMAIN s.blocks |-> Instrs(s.blocks[b])])
Text(s) == Body(s) \o s.fini

-----------------------------------------------------------------------------
(* UpdateInstructionAddressesPass: an address that is already there stays, *)
(* except in fini.                                                         *)

Placed(t, i, address) ==
    [instr |-> [t.instr EXCEPT ![i].address = address], at |-> address + 1]

UpdatedAddresses(s) ==
    LET text == Text(s)
        keeps(t, k) == k <= Len(Body(s)) /\ t.instr[text[k]].address # None
        visited[k \in 0..Len(text)] ==
            IF k = 0 THEN [instr |-> s.instr, at |-> 0]
            ELSE LET t == visited[k - 1] i == text[k]
                 IN  Placed(t, i, IF keeps(t, k) THEN t.instr[i].address ELSE t.at)
    IN  [s EXCEPT !.instr = visited[Len(text)].instr]

-----------------------------------------------------------------------------
(* set_address of a memory operand, and the passes' answer to its failure. *)

\* The registers the context believes to hold the address, or one with the
\* same label.
Holding(s, address) == {r \in DOMAIN s.registers : s.registers[r] = address}
Near(s, address) ==
    {r \in DOMAIN s.registers : s.registers[r].label = address.label}

\* The code that loads an address drops its displacement.
Through(s, i, by, address) == Retarget(s, i, Target(by, address.label, 0, 0))

\* With a near register the immediate should add the rest. It is not touched:
\* an Address and an InstructionAddress are never found to be unequal.
BesideRegister(s, i, address) ==
    Through(s, i, IF HasOperands(s.instr[i]) THEN "stale" ELSE "unset", address)

\* A relative operand takes the address. An indirect branch needs a register
\* holding it; where there is none one is reserved and loaded in init, which
\* raises without a free register or without symbols (binary output).
SetAddress(s, i, address) ==
    IF Relative(s.instr[i]) THEN Retarget(s, i, address)
    ELSE IF Holding(s, address) # {}
    THEN Through(s, i, "register", address)
    ELSE IF Near(s, address) # {} THEN BesideRegister(s, i, address)
    ELSE IF Len(s.registers) = FreeRegisters \/ case.output = "bin"
    THEN [s EXCEPT !.ok = FALSE]
    ELSE Through([s EXCEPT !.registers = Append(@, address)], i, "register", address)

-----------------------------------------------------------------------------
(* BranchNextPass and the part of BranchBraidNextPass that equals it.      *)

\* What the two passes keep in local variables.
Locals(s) ==
    [bb |-> s, counter |-> 0, allCounter |-> 0, labels |-> <<>>,
     chunks |-> <<>>, current |-> <<>>, firstBraid |-> 0, lastHead |-> 0,
     held |-> Len(s.registers)]  \* registers loaded by passes before this one

\* The label of instruction i, which becomes a new one if it has none.
OwnOrNew(s, i, new) ==
    IF s.instr[i].label = NoLabel THEN Relabel(s, i, new) ELSE s

Holder(s, label) == CHOOSE i \in DOMAIN s.instr : s.instr[i].label = label

\* A branch whose next instruction keeps or gets a label and is the target.
AimAtNext(p, ant, ins, new) ==
    LET s == OwnOrNew(p.bb, ins, new)
    IN  [p EXCEPT !.bb = SetAddress(s, ant, ToLabel(s.instr[ins].label, ins)),
                  !.labels = IF Relative(p.bb.instr[ant])
                                \/ p.bb.instr[ins].label # NoLabel
                             THEN @ ELSE Append(@, new)]

\* A branch that takes the k-th label given to an absolute branch.
AimAtEarlier(p, ant, k) ==
    IF k \notin DOMAIN p.labels THEN [p EXCEPT !.bb.ok = FALSE]
    ELSE [p EXCEPT !.bb = SetAddress(@, ant,
                ToLabel(p.labels[k], Holder(p.bb, p.labels[k])))]

\* The registers this pass has loaded (rregs).
Loaded(p) == Len(p.bb.registers) - p.held

\* An absolute branch finds its own label while "own" holds, else one of the
\* labels handed out before.
Aim(p, ant, ins, braid) ==
    LET own == IF braid THEN Loaded(p) < RegisterLimit ELSE p.labels = <<>>
        k == IF braid THEN (p.counter % RegisterLimit) + 1 ELSE 1
    IN  IF Relative(p.bb.instr[ant])
        THEN AimAtNext(p, ant, ins, Label("rel_branch", p.allCounter))
        ELSE IF own THEN AimAtNext(p, ant, ins, Label("abs_branch", p.counter))
        ELSE AimAtEarlier(p, ant, k)

\* One turn of the loop over consecutive instructions of all blocks.
VisitPair(p, ant, ins, braid) ==
    IF ~Branch(p.bb.instr[ant])
    THEN [p EXCEPT !.current = IF p.firstBraid # 0 THEN Append(@, ant) ELSE @]
    ELSE LET q == IF HasAddress(p.bb.instr[ant]) /\ ~case.force THEN p
                  ELSE Aim(p, ant, ins, braid)
             n == IF Relative(p.bb.instr[ant]) THEN 0 ELSE 1
         IN  [q EXCEPT !.counter = @ + n,
                       !.allCounter = @ + 1 - n,
                       !.chunks = IF p.firstBraid = 0 THEN @
                                  ELSE Append(@, Append(p.current, ant)),
                       !.current = <<>>,
                       !.firstBraid = IF @ = 0 THEN ant ELSE @,
                       !.lastHead = ins]

VisitPairs(s, braid) ==
    LET body == Body(s)
        visited[k \in 0..(Len(body) - 1)] ==
            IF k = 0 THEN Locals(OwnOrNew(s, body[1], Label("first", 0)))
            ELSE VisitPair(visited[k - 1], body[k], body[k + 1], braid)
    IN  visited[Len(body) - 1]

\* Mutant: the jump behind the labelled last branch loses its displacement.
LastAddressNoLength(s, braid) ==
    LET last == s.instr[Last(Body(s))]
    IN  IF s.fini # <<>> /\ Relative(last)
        THEN ToLabel(s.instr[s.fini[1]].label, Body(s)[1])
        ELSE IF ~braid /\ last.label # NoLabel
        THEN Target("label", last.label, 0, 0)
        ELSE ToLabel(s.instr[Body(s)[1]].label, Body(s)[1])

\* Where the last instruction goes: to fini (the label is that of fini, the
\* instruction noted beside it is the first of the loop), behind its own
\* label, or to the first instruction.
LastAddress(s, braid) ==
    LET last == s.instr[Last(Body(s))]
    IN  IF s.fini # <<>> /\ Relative(last)
        THEN ToLabel(s.instr[s.fini[1]].label, Body(s)[1])
        ELSE IF ~braid /\ last.label # NoLabel
        THEN Target("label", last.label, 1, 0)
        ELSE ToLabel(s.instr[Body(s)[1]].label, Body(s)[1])

AimLast(p, braid) ==
    LET i == Last(Body(p.bb))
        last == p.bb.instr[i]
        s == IF p.bb.fini # <<>> /\ Relative(last)
             THEN OwnOrNew(p.bb, p.bb.fini[1], Label("rel_branch", p.allCounter))
             ELSE p.bb
    IN  IF ~Branch(last) \/ (HasOperands(last) /\ ~case.force) THEN p
        ELSE [p EXCEPT !.bb = SetAddress(s, i, LastAddress(s, braid))]

Aimed(s, braid) == AimLast(VisitPairs(s, braid), braid)

-----------------------------------------------------------------------------
(* The rest of BranchBraidNextPass. Each chunk, the instructions behind a  *)
(* branch up to the next one, gets a copy; a taken branch changes strand.  *)

\* copy() copies the values of the operands and then computes the address of
\* the memory operand again, which it does for a relative operand only: the
\* address of an indirect branch is lost, what its operands hold is not.
CopiedBy(by) ==
    CASE by = "register" -> "copied" [] by = "stale" -> "given"
      [] by = "unset" -> "none"      [] OTHER -> by

CopyOf(ins) == [ins EXCEPT !.strand = 2, !.target.by = CopiedBy(@)]

WithCopies(s, flat) ==
    [s EXCEPT !.instr = @ \o [k \in DOMAIN flat |-> CopyOf(s.instr[flat[k]])]]

\* A relative branch goes to instruction "to", by the label it has now.
Braid(s, i, to) ==
    IF Relative(s.instr[i]) THEN Retarget(s, i, ToLabel(s.instr[to].label, to))
    ELSE s

\* Mutants: the copy of a branch goes to the strand of the copies as well; the
\* branch is given the label of the copy beside the old instruction.
BraidPairSameStrand(s, base, new, jumpBase, jumpNew) ==
    LET t == Braid(Relabel(s, new, Suffixed(s.instr[new].label, "_2")), jumpBase, new)
        u == IF base = new THEN t
             ELSE Relabel(t, base, Suffixed(t.instr[base].label, "_1"))
    IN  IF jumpBase = jumpNew THEN t ELSE Braid(u, jumpNew, new)
BraidPairOldInstruction(s, base, new, jumpBase, jumpNew) ==
    LET label == Suffixed(s.instr[new].label, "_2")
        t == Retarget(Relabel(s, new, label), jumpBase, ToLabel(label, base))
        u == IF base = new THEN t
             ELSE Relabel(t, base, Suffixed(t.instr[base].label, "_1"))
    IN  IF jumpBase = jumpNew THEN t ELSE Braid(u, jumpNew, base)

\* "base" follows a relative branch: the branch goes to its copy and the copy
\* of the branch goes to it. Both have new labels then.
BraidPair(s, base, new, jumpBase, jumpNew) ==
    LET t == Braid(Relabel(s, new, Suffixed(s.instr[new].label, "_2")), jumpBase, new)
        u == IF base = new THEN t
             ELSE Relabel(t, base, Suffixed(t.instr[base].label, "_1"))
    IN  IF jumpBase = jumpNew THEN t ELSE Braid(u, jumpNew, base)

\* Any other label is the base's own: that of the copy is made different, also
\* where the two are the same instruction.
RelabelPair(t, basel, newl, k) ==
    LET before == IF k = 1 THEN Len(basel) ELSE k - 1
        label == t.instr[basel[k]].label
    IN  IF label = NoLabel THEN t
        ELSE IF label.name = "rel_branch"
        THEN BraidPair(t, basel[k], newl[k], basel[before], newl[before])
        ELSE Relabel(t, newl[k], Suffixed(label, "_braid"))

Relabelled(s, basel, newl) ==
    LET visited[k \in 0..Len(basel)] ==
            IF k = 0 THEN s ELSE RelabelPair(visited[k - 1], basel, newl, k)
    IN  visited[Len(basel)]

\* Chunks a..b: behind the last of their instructions a jump to the one that
\* follows, then the copies, of which "skip" belong to the chunks before a.
\* Both anchors are given to add_instructions, which takes the last block.
InsertGroup(s, chunks, a, b, head, skip) ==
    LET after == Last(chunks[b])
        before == IF b = Len(chunks) THEN head ELSE chunks[b + 1][1]
        size == Len(FlattenSeq(SubSeq(chunks, a, b)))
        jump == [kind |-> "jump", origin |-> 0, strand |-> 1,
                 address |-> s.instr[after].address + 1, label |-> NoLabel,
                 target |-> ToLabel(s.instr[before].label, before)]
        new == <<Len(s.instr) + 1>> \o [k \in 1..size |-> skip + k]
        n == Len(s.blocks)
    IN  IF s.instr[after].address = None
           \/ ~AnchorsInOrder(s.blocks[n], before, after)
        THEN [s EXCEPT !.ok = FALSE]
        ELSE [s EXCEPT !.instr = Append(@, jump),
                       !.blocks[n] = InsertInstr(@, new, before, after)]

\* The last chunk of the group that chunk a begins.
GroupEnd(chunks, a) ==
    IF a + case.chunk - 1 \in DOMAIN chunks THEN a + case.chunk - 1
    ELSE Len(chunks)

Braided(s) ==
    LET p == Aimed(s, TRUE)
        chunks == p.chunks
        flat == FlattenSeq(chunks)
        copies == [k \in DOMAIN flat |-> Len(s.instr) + k]
        copied(a) == Len(s.instr) + Len(FlattenSeq(SubSeq(chunks, 1, a - 1)))
        inserted[a \in 0..Len(chunks)] ==
            IF a = 0
            THEN Relabelled(WithCopies(p.bb, flat),
                            <<p.firstBraid>> \o flat \o <<p.lastHead>>,
                            <<p.firstBraid>> \o copies \o <<p.lastHead>>)
            ELSE IF (a - 1) % case.chunk # 0 THEN inserted[a - 1]
            ELSE InsertGroup(inserted[a - 1], chunks, a, GroupEnd(chunks, a),
                             p.lastHead, copied(a))
    IN  IF p.firstBraid = 0 THEN p.bb ELSE inserted[Len(chunks)]

-----------------------------------------------------------------------------
(* FixIndirectBranchPass: a branch without an address becomes a jump to    *)
(* the next instruction, given as an offset; its own address is lost.      *)

FixBranch(s, i, j) ==
    IF None \in {s.instr[i].address, s.instr[j].address} THEN [s EXCEPT !.ok = FALSE]
    ELSE [s EXCEPT !.instr[i].kind = "jump",
                   !.instr[i].address = None,
                   !.instr[i].target =
                       Target("offset", NoLabel,
                              s.instr[j].address - s.instr[i].address, 0)]

FixPair(s, ids, k) ==
    LET ant == ids[IF k = 1 THEN 1 ELSE k - 1]
    IN  IF Branch(s.instr[ant]) /\ ~HasAddress(s.instr[ant])
        THEN FixBranch(s, ant, ids[k]) ELSE s

\* The first turn has the first instruction on both sides.
FixBlock(s, ids) ==
    LET visited[k \in 0..Len(ids)] ==
            IF k = 0 THEN s ELSE FixPair(visited[k - 1], ids, k)
    IN  visited[Len(ids)]

\* A last branch without an address is fixed, then made a nop.
Fixed(s) ==
    LET fixed[b \in 0..Len(s.blocks)] ==
            IF b = 0 THEN s ELSE FixBlock(fixed[b - 1], Instrs(s.blocks[b]))
        t == fixed[Len(s.blocks)]
        last == Last(Body(s))
        u == FixBranch(t, last, Body(s)[1])
    IN  IF ~Branch(t.instr[last]) \/ HasAddress(t.instr[last]) THEN t
        ELSE [u EXCEPT !.instr[last].kind = "plain",
                       !.instr[last].target = NoTarget]

-----------------------------------------------------------------------------
(* ResolveSymbolicReferencesPass: the instruction noted beside a label     *)
(* comes first, the label is looked up where there is none.                *)

Labels(s) == {s.instr[i].label : i \in ToSet(Text(s))} \ {NoLabel}
UniqueLabels(s) ==
    \A i, j \in ToSet(Text(s)) :
        s.instr[i].label = s.instr[j].label => i = j \/ s.instr[i].label = NoLabel

Resolved(s) ==
    LET symbolic == {i \in ToSet(Text(s)) : s.instr[i].target.by = "label"}
        known(t) == t.to # 0 \/ t.label \in Labels(s)
        goal(t) == IF t.to # 0 THEN s.instr[t.to].address
                   ELSE s.instr[Holder(s, t.label)].address + t.disp
    IN  IF ~UniqueLabels(s) \/ \E i \in symbolic : ~known(s.instr[i].target)
        THEN [s EXCEPT !.ok = FALSE]
        ELSE [s EXCEPT !.instr =
                [i \in DOMAIN s.instr |->
                    IF i \notin symbolic THEN s.instr[i]
                    ELSE [s.instr[i] EXCEPT !.target =
                            Target("offset", NoLabel,
                                   goal(@) - s.instr[i].address, 0)]]]

-----------------------------------------------------------------------------
(* The output and its execution.                                           *)

Assembles(s) ==
    /\ s.ok /\ UniqueLabels(s)
    /\ \A i \in {j \in ToSet(Text(s)) : Branch(s.instr[j])} :
         LET t == s.instr[i].target
         IN  /\ t.by \notin {"none", "unset"}
             /\ t.by \notin {"offset", "given"} => t.label \in Labels(s)

\* Where the branch at position p of the text can go to.
Goals(s, p) ==
    LET t == s.instr[Text(s)[p]].target
        at(label) == CHOOSE q \in DOMAIN Text(s) : s.instr[Text(s)[q]].label = label
    IN  IF t.by \in {"given", "stale"} THEN DOMAIN Text(s)
        ELSE IF t.by = "offset" THEN {p + t.disp}
        ELSE {at(t.label) + t.disp}

Assembled(s) ==
    [p \in DOMAIN Text(s) |->
        LET i == s.instr[Text(s)[p]]
        IN  [kind |-> i.kind, origin |-> i.origin, strand |-> i.strand,
             goals |-> IF Branch(i) THEN Goals(s, p) ELSE {}]]

\* Mutant: nothing closes the loop.
OpenEnd(p) == p

\* The wrapper ends the loop with a jump to its first instruction.
Looping(p) == IF p > Len(code) THEN 1 ELSE p

\* The addresses are computed before every pass, and before the labels of a
\* binary are resolved.
PassesOf(c) ==
    LET passes == c.passes \o IF c.output = "bin" THEN <<"resolve">> ELSE <<>>
    IN  [k \in 1..(2 * Len(passes)) |->
            IF k % 2 = 1 THEN "address" ELSE passes[k \div 2]]

Init ==
    /\ case \in Cases
    /\ bb = Built(case)
    /\ todo = PassesOf(case)
    /\ code = <<>>
    /\ pc = 1
    /\ done = 0

\* The synthesizer runs the pass that comes next; one that raised ends it.
Pass(name, result) ==
    /\ todo # <<>> /\ bb.ok
    /\ Head(todo) = name
    /\ bb' = result
    /\ todo' = Tail(todo)
    /\ UNCHANGED <<case, code, pc, done>>

UpdateInstructionAddressesPass == Pass("address", UpdatedAddresses(bb))
BranchNextPass == Pass("next", Aimed(bb, FALSE).bb)
BranchBraidNextPass == Pass("braid", Braided(bb))
FixIndirectBranchPass == Pass("fix", Fixed(bb))
ResolveSymbolicReferencesPass == Pass("resolve", Resolved(bb))

WrapThread ==
    /\ todo = <<>> /\ code = <<>>
    /\ Assembles(bb)
    /\ code' = Assembled(bb)
    /\ UNCHANGED <<case, bb, todo, pc, done>>

\* One instruction executes: it falls through or is a branch that is taken.
Execute(next) ==
    /\ code # <<>>
    /\ pc' = Looping(next)
    /\ done' = IF code[pc].origin = 0 THEN done ELSE code[pc].origin
    /\ UNCHANGED <<case, bb, todo, code>>

FallThrough == code # <<>> /\ code[pc].kind \in {"plain", "cond"} /\ Execute(pc + 1)
Taken == code # <<>> /\ \E next \in code[pc].goals : Execute(next)

Next ==
    \/ UpdateInstructionAddressesPass \/ BranchNextPass \/ BranchBraidNextPass
    \/ FixIndirectBranchPass \/ ResolveSymbolicReferencesPass
    \/ WrapThread \/ FallThrough \/ Taken

\* The processor does not stop.
Spec == Init /\ [][Next]_vars /\ WF_vars(FallThrough \/ Taken)
-----------------------------------------------------------------------------
(* Correctness.                                                            *)

\* Types: the execution stays inside the code, and every instruction of the
\* text is an object.
TypeOK ==
    /\ done \in 0..Size(case)
    /\ pc \in 1..(Len(code) + 1) /\ (code # <<>> => pc \in DOMAIN code)
    /\ \A i \in DOMAIN bb.instr :
         /\ bb.instr[i].kind \in Kinds
         /\ bb.instr[i].origin \in 0..Size(case)
         /\ bb.instr[i].target.to \in 0..Len(bb.instr)
    /\ ToSet(Text(bb)) \subseteq DOMAIN bb.instr
    /\ Len(bb.registers) <= FreeRegisters

\* Whatever the outcome of the conditional branches, the loop the passes leave
\* executes every instruction of the program once per iteration and in order,
\* for ever: no pass raises, no label is missing from the output, and no
\* branch skips or repeats code (also where the code was braided and moved).
Loop == INSTANCE EndlessLoop WITH running <- code # <<>>, size <- Size(case)
RunsInOrder == Loop!Spec

\* The label in the operand of a branch and the instruction noted beside it,
\* which the assembler and the resolution of labels follow, are the same
\* place. (A last branch to fini is the exception the code makes.)
TargetsAgree ==
    todo = <<>> =>
        \A i \in ToSet(Text(bb)) :
            LET t == bb.instr[i].target
            IN  t.by = "label" /\ t.to # 0
                    /\ ~(bb.fini # <<>> /\ i = Last(Body(bb)))
                => t.label = bb.instr[t.to].label

\* In braided code a taken branch leaves the strand it is in, wherever the
\* instruction it goes to exists in both.
InBothStrands(p) ==
    \E q \in DOMAIN code : q # p /\ code[q].origin = code[p].origin
SwitchesStrand ==
    /\ code # <<>> /\ "braid" \in ToSet(case.passes)
    /\ code[pc].kind \in {"cond", "jump"} /\ code[pc].origin # 0
    /\ pc' \in code[pc].goals /\ InBothStrands(pc')
    => code[pc'].strand # code[pc].strand
TakenSwitches == [][SwitchesStrand]_vars
=============================================================================
