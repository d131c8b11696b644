--------------------------- MODULE MCBranchPasses ---------------------------
EXTENDS BranchPasses

\* Instructions: of each kind, with a label of their own, an indirect branch
\* through a register of the program, a conditional one to label 1.
Item(kind) == [kind |-> kind, label |-> 0, aim |-> "none"]
P == Item("plain")
C == Item("cond")
J == Item("jump")
I == Item("indirect")
R == [I EXCEPT !.aim = "given"]
T == [C EXCEPT !.aim = "label"]

Bodies(kinds, n) == UNION {[1..m -> kinds] : m \in 1..n}
Labelled(bodies) ==
    UNION {{[b EXCEPT ![k].label = 1] : k \in DOMAIN b} : b \in bodies}
Whole(bodies) == {<<b>> : b \in bodies}
Cut(bodies) ==
    UNION {{<<SubSeq(b, 1, k), SubSeq(b, k + 1, Len(b))>> :
              k \in 1..(Len(b) - 1)} : b \in bodies}

\* Chunks are inserted two at a time.
Case(blocks, fini, passes, output) ==
    [blocks |-> blocks, fini |-> fini, passes |-> passes, output |-> output,
     force |-> TRUE, chunk |-> 2]

\* Where the passes do what they promise; the README says what is left out and
\* what happens there.
Flat(c) == FlattenSeq(c.blocks)
BodySize(c) == Len(Flat(c))
Indirect(c) == {k \in DOMAIN Flat(c) : Flat(c)[k].kind = "indirect"}
BranchAt(c, k) == k \in DOMAIN Flat(c) /\ Branch(Flat(c)[k])
LabelAt(c, k) == Flat(c)[k].label # 0

\* Targets that are kept are the next instruction.
KeptTargets(c) ==
    c.passes = <<"fix">> \/ ~c.force =>
        \A k \in DOMAIN Flat(c) :
            Flat(c)[k].aim = "label" => k < BodySize(c) /\ LabelAt(c, k + 1)

\* At most one absolute branch before the last instruction, which is none if
\* it has a label of its own or fini follows.
NextWorks(c) ==
    IF c.output = "bin"
    THEN Indirect(c) = {} /\ (c.fini = 0 \/ ~BranchAt(c, BodySize(c)))
    ELSE LET n == BodySize(c)
         IN  /\ Cardinality(Indirect(c) \ {n}) <= 1
             /\ n \in Indirect(c) =>
                  c.force /\ c.fini = 0 /\ ~BranchAt(c, n - 1) /\ ~LabelAt(c, n)

\* No block begins with a branch to fix, none but the last ends with one. The
\* last branch, where it stays one, goes to fini in the assembly only.
ToFix(item) == Branch(item) /\ item.aim # "label"
FixWorks(c) ==
    /\ \A b \in DOMAIN c.blocks :
         /\ ~ToFix(Head(c.blocks[b]))
         /\ b # Len(c.blocks) => ~ToFix(Last(c.blocks[b]))
    /\ c.output = "bin" /\ c.fini # 0 => Last(Flat(c)).aim # "label"

\* One block, no branch at its ends, no label behind a branch, and absolute
\* branches before the last branch only, no more than registers.
BraidWorks(c) ==
    LET n == BodySize(c)
        branches == {k \in 1..(n - 1) : BranchAt(c, k)}
    IN  /\ Len(c.blocks) = 1
        /\ Cardinality(Indirect(c)) <= FreeRegisters
        /\ n \notin Indirect(c)
        /\ ~(BranchAt(c, 1) /\ BranchAt(c, n) /\ c.fini = 0)
        /\ \A k \in branches :
             /\ ~LabelAt(c, k + 1)
             /\ k \in Indirect(c) => \E j \in branches : j > k

\* The first pass sees the branches as they are; the second finds targets.
Works(c) ==
    /\ KeptTargets(c)
    /\ CASE Head(c.passes) = "next" -> NextWorks(c)
         [] Head(c.passes) = "fix" -> FixWorks(c)
         [] OTHER -> BraidWorks(c)

Outputs == {"asm", "bin"}
NextBodies ==
    Whole(Bodies({P, C, J, I}, 4) \cup Labelled(Bodies({P, C, T, R}, 3)))
        \cup Cut(Bodies({P, C, I}, 3))
FixBodies ==
    Whole(Bodies({P, C, R}, 4) \cup Labelled(Bodies({P, T, J, R}, 3)))
        \cup Cut(Bodies({P, C, I}, 4))
BraidBodies == Whole(Bodies({P, C, I}, 5) \cup Labelled(Bodies({P, C, J}, 4)))

AllCases ==
    {Case(b, f, <<"next">>, o) : b \in NextBodies, f \in 0..1, o \in Outputs}
    \cup {[Case(b, f, <<"next">>, "asm") EXCEPT !.force = FALSE] :
             b \in Whole(Labelled(Bodies({P, T, C, R}, 3))), f \in 0..1}
    \cup {Case(b, f, p, o) : b \in FixBodies, f \in 0..1, o \in Outputs,
             p \in {<<"fix">>, <<"fix", "next">>, <<"next", "fix">>}}
    \cup {Case(b, f, <<"braid">>, "asm") : b \in BraidBodies, f \in 0..1}

MCCases == {c \in AllCases : Works(c)}
=============================================================================
