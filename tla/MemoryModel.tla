---------------------------- MODULE MemoryModel ----------------------------
(***************************************************************************)
(* The models of an endless loop's memory activity (model/memory.py):      *)
(* given a hierarchy of set-associative caches (target/uarch/cache.py) and *)
(* the percentage of accesses each level should serve, the instruction     *)
(* model finds how often to repeat the code chunks of each level, and the  *)
(* data model hands out one address per memory operand; at the end of the  *)
(* loop the base of a level moves on (the pass GenericMemoryModelPass).    *)
(*                                                                         *)
(* The loop is then run on caches with least-recently-used replacement,    *)
(* the reference the models are checked against.                           *)
(***************************************************************************)
EXTENDS Integers, Sequences, FiniteSets, SequencesExt

CONSTANTS
    Hierarchies,  \* sequences of caches [lines, ways], nearest first
    Ratios,       \* sequences of percentages, one for each level
    LineSize,     \* bytes in a line, the same for all levels
    MaxIterations,\* bound on the repetitions of all chunks together
    MaxAccesses,  \* bound on the memory operands of the loop
    MaxLoops      \* bound on the iterations executed

\* The percentage left (accum) after the first levels, which is none after all
Left(r) == LET left[l \in 0..Len(r)] == IF l = 0 THEN 100 ELSE left[l - 1] - r[l]
           IN  left

ASSUME ConstantsAssumption ==
    /\ LineSize \in Nat \ {0} /\ MaxIterations \in Nat
    /\ MaxAccesses \in Nat /\ MaxLoops \in Nat
    /\ Hierarchies \subseteq Seq([lines : Nat \ {0}, ways : Nat \ {0}])
    /\ \A h \in Hierarchies : \A l \in DOMAIN h : h[l].lines % h[l].ways = 0
    /\ Ratios \subseteq Seq(Nat)
    /\ \A r \in Ratios : Left(r)[Len(r)] = 0

\* Sizes are powers of two (the code masks with their bits), and a cache has no
\* less than the ones nearer: as many, or an even multiple.
ASSUME SizesAssumption ==
    \A h \in Hierarchies : \A k, l \in DOMAIN h :
        k < l => \/ h[l].lines = h[k].lines
                 \/ h[l].lines % (2 * h[k].lines) = 0

VARIABLES
    caches,      \* _cache_hierarchy of both models
    ratios,      \* _percentages of both models
    sets,        \* data model: the lines of each level, in order
    phase,       \* what is being done, in this order: "balance" the chunks,
                 \* "access", "run"; or "error"
    iterations,  \* instruction model: repetitions of the chunks of each level
    trace,       \* data model: the addresses handed out, [level, value]
    count,       \* _state: accesses of each level,
    maxValue,    \*         their largest displacement,
    classes,     \*         and the congruence classes they used
    moves,       \* finalize_model: [increment, guard] for levels whose base
                 \* moves on at the end of each iteration
    loop,        \* iterations executed
    turn,        \* the counter of each guard
    base,        \* how far the base of each level has moved
    next,        \* the access of the iteration to execute next
    content,     \* reference caches: lines of each set, most recent first
    served       \* history: [wanted, by, loop] of the last access executed

plan == <<caches, ratios, sets>>
model == <<trace, count, maxValue, classes, moves>>
machine == <<loop, turn, base, next, content, served>>
vars == <<plan, phase, iterations, model, machine>>

Levels == 1..Len(caches)

\* SetAssociativeCache, in lines: the number of sets; the sets and ways
NumSets(c) == c.lines \div c.ways
SetsWays(c) == 0..(c.lines - 1)

\* SetAssociativeCache.congruence_class of a displacement
CongruenceClass(c, value) == (value \div LineSize) % NumSets(c)

\* Mutant: every level but the first starts from all its lines.
AvoidingNone(c, chosen) == SetsWays(c)

\* The lines of a level that share no set and way of an earlier level with
\* the lines chosen for that level.
Avoiding(c, chosen) ==
    {e \in SetsWays(c) : \A l \in DOMAIN chosen :
                             e % caches[l].lines \notin ToSet(chosen[l])}

\* A set of numbers as a list
Ascending(S) ==
    [n \in 1..Cardinality(S) |->
        CHOOSE e \in S : Cardinality({d \in S : d < e}) = n - 1]

\* The lines of a level: the first ones of those it may use, in proportion to
\* what is left.
Share(l, chosen) ==
    LET free == Ascending(Avoiding(caches[l], chosen))
        left == Left(ratios)[l - 1]
    IN  IF left = 0 THEN <<>>
        ELSE SubSeq(free, 1, (Len(free) * ratios[l]) \div left)

\* EndlessLoopDataMemoryModel.__init__, a level after the other
ChosenLines ==
    LET upto[l \in 0..Len(caches)] ==
            IF l = 0 THEN <<>> ELSE Append(upto[l - 1], Share(l, upto[l - 1]))
    IN  upto[Len(caches)]

Min2(a, b) == IF a < b THEN a ELSE b

\* initialize_model: how many of its lines a level goes round.
Module(l) ==
    IF l = 1 THEN Len(sets[l])
    ELSE Min2(4 * (caches[l - 1].lines - Len(sets[l - 1])), Len(sets[l]))

\* EndlessLoopInstructionMemoryModel.__init__: the chunks of each level
Chunks == [l \in Levels |-> IF ratios[l] = 0 THEN 0
                            ELSE IF l = 1 THEN 1 ELSE caches[l - 1].ways + 1]

\* Its assertion on the ways of two levels
EnoughWays == \A l \in Levels : l > 1 /\ ratios[l] > 0
                                   => caches[l].ways > caches[l - 1].ways

\* get_percentages, as the numerators over the total
Total(its) == FoldLeft(+, 0, [l \in Levels |-> its[l] * Chunks[l]])
Excess(its, l) == 100 * its[l] * Chunks[l] - ratios[l] * Total(its)

Abs(n) == IF n < 0 THEN -n ELSE n

\* max_percentage_diff is within 0.1
Balanced(its) == \A l \in Levels : 10 * Abs(Excess(its, l)) <= Total(its)

Init ==
    /\ caches \in Hierarchies
    /\ ratios \in {r \in Ratios : Len(r) = Len(caches)}
    /\ sets = ChosenLines
    /\ phase = IF EnoughWays THEN "balance" ELSE "access"
    /\ iterations = [l \in Levels |-> 1]
    /\ trace = <<>> /\ moves = [l \in {} |-> {}]
    /\ count = [l \in Levels |-> 0] /\ maxValue = [l \in Levels |-> 0]
    /\ classes = [l \in Levels |-> {}]
    /\ loop = 0 /\ next = 1
    /\ turn = [l \in Levels |-> 0] /\ base = [l \in Levels |-> 0]
    /\ content = [l \in Levels |-> [s \in 0..(NumSets(caches[l]) - 1) |-> <<>>]]
    /\ served = [wanted |-> 0, by |-> 0, loop |-> 0]

\* Mutant: the level with the largest excess is repeated once more.
FurthestAbove(its) ==
    CHOOSE l \in Levels : \A k \in Levels : Excess(its, k) <= Excess(its, l)

\* min_percentage_idx: the first level that lacks most
FurthestBelow(its) ==
    CHOOSE l \in Levels :
        \A k \in Levels : /\ Excess(its, l) <= Excess(its, k)
                          /\ Excess(its, l) = Excess(its, k) => l <= k

\* One round of the loop of the instruction model
Balance ==
    /\ phase = "balance" /\ ~Balanced(iterations)
    /\ FoldLeft(+, 0, iterations) < MaxIterations
    /\ iterations' = [iterations EXCEPT ![FurthestBelow(iterations)] = @ + 1]
    /\ UNCHANGED <<plan, phase, model, machine>>

BalanceDone ==
    /\ phase = "balance" /\ Balanced(iterations)
    /\ phase' = "access"
    /\ UNCHANGED <<plan, iterations, model, machine>>

\* _check_integrity: no congruence class number in two levels' lists
Integrity == \A k, l \in Levels : k # l => classes[k] \cap classes[l] = {}

\* The next address of a level
ValueAt(l) == LineSize * sets[l][(count[l] % Module(l)) + 1]

\* EndlessLoopDataMemoryModel.__call__, for a level the weighted choice can
\* answer. Without lines to go round the modulus is zero; a class in two lists
\* ends the program. The class is listed after the check.
Access(l) ==
    /\ phase = "access" /\ Len(trace) < MaxAccesses
    /\ ratios[l] > 0
    /\ UNCHANGED <<plan, iterations, moves, machine>>
    /\ IF Module(l) = 0 \/ ~Integrity
       THEN phase' = "error" /\ UNCHANGED <<trace, count, maxValue, classes>>
       ELSE LET value == ValueAt(l)
            IN  /\ trace' = Append(trace, [level |-> l, value |-> value])
                /\ count' = [count EXCEPT ![l] = @ + 1]
                /\ maxValue' = [maxValue EXCEPT
                                  ![l] = IF @ < value THEN value ELSE @]
                /\ classes' = [classes EXCEPT ![l] =
                                 @ \cup {CongruenceClass(caches[l], value)}]
                /\ UNCHANGED phase

Bytes(c) == c.lines * LineSize

\* finalize_model compares a level with the first one, or with the last before
\* it that has no accesses: cache_ant stays where it is at a level with some.
Ant(l) == CHOOSE k \in 1..(l - 1) :
              /\ k = 1 \/ ratios[k] = 0
              /\ \A j \in (k + 1)..(l - 1) : ratios[j] > 0

\* The room that level leaves, the step that skips what an iteration touches,
\* the iterations until the level is full
RoomBelow(l) == caches[Ant(l)].lines - Len(sets[Ant(l)])
StepSize(l) == LET below == Bytes(caches[Ant(l)])
               IN  below * ((maxValue[l] + below - 1) \div below)
Guard(l) == Bytes(caches[l]) \div StepSize(l)

Checked(l) == l > 1 /\ ratios[l] > 0

\* Mutant: one round of the accesses is enough.
TooFewOnce(l) == \/ count[l] = 0 /\ ratios[l] > 0
                 \/ Checked(l) /\ \/ maxValue[l] = 0
                                  \/ Guard(l) * count[l] < RoomBelow(l)

\* A level cannot be served: it has no access, its accesses are all at the
\* start (the step is zero, and divides), or they never flush the level below.
TooFew(l) == \/ count[l] = 0 /\ ratios[l] > 0
             \/ Checked(l) /\ \/ maxValue[l] = 0
                              \/ Guard(l) * count[l] < 2 * RoomBelow(l)

\* Mutant: a level moves on by what it touches of the previous level.
MovingByStep ==
    [l \in {k \in Levels : /\ Checked(k) /\ count[k] <= Len(sets[k])
                           /\ count[k] <= 2 * RoomBelow(k)} |->
        [increment |-> maxValue[l], guard |-> Guard(l)]]

\* The levels whose accesses of one iteration do not flush the previous level
Moving ==
    [l \in {k \in Levels : /\ Checked(k) /\ count[k] <= Len(sets[k])
                           /\ count[k] <= 2 * RoomBelow(k)} |->
        [increment |-> Bytes(caches[l]) \div Guard(l), guard |-> Guard(l)]]

Finalize ==
    /\ phase = "access" /\ trace # <<>>
    /\ UNCHANGED <<plan, iterations, trace, count, maxValue, classes, machine>>
    /\ IF \E l \in Levels : TooFew(l)
       THEN phase' = "error" /\ UNCHANGED moves
       ELSE phase' = "run" /\ moves' = Moving

\* The reference: a set of a cache after an access to a line.
Touched(set, line, ways) ==
    LET at == {k \in DOMAIN set : set[k] = line}
        others == IF at = {} THEN set ELSE RemoveAt(set, CHOOSE k \in at : TRUE)
    IN  <<line>> \o SubSeq(others, 1, Min2(ways - 1, Len(others)))

\* Variables are aligned to more than the size of a cache, one for each level.
LineOf(a) == [var |-> a.level, line |-> (base[a.level] + a.value) \div LineSize]
SetOf(c, x) == x.line % NumSets(c)

\* The level that has the line; every level asked for it has it afterwards.
Serving(x) ==
    LET has == {l \in Levels : Contains(content[l][SetOf(caches[l], x)], x)}
    IN  IF has = {} THEN Len(caches) + 1
        ELSE CHOOSE l \in has : \A k \in has : l <= k

Execute ==
    /\ phase = "run" /\ next <= Len(trace)
    /\ LET x == LineOf(trace[next])
       IN  /\ served' = [wanted |-> trace[next].level, by |-> Serving(x),
                         loop |-> loop]
           /\ content' = [l \in Levels |->
                IF l > Serving(x) THEN content[l]
                ELSE [content[l] EXCEPT ![SetOf(caches[l], x)] =
                        Touched(@, x, caches[l].ways)]]
    /\ next' = next + 1
    /\ UNCHANGED <<plan, phase, iterations, model, loop, turn, base>>

\* Mutant: the counter is compared once too often.
AgainInclusive(l) == l \in DOMAIN moves /\ turn[l] + 1 <= moves[l].guard

\* compare_and_branch of a guard: the base keeps its place.
Again(l) == l \in DOMAIN moves /\ turn[l] + 1 < moves[l].guard

\* The instructions GenericMemoryModelPass adds to the end of the loop: every
\* guarded base moves on until its guard, then returns to the start.
EndOfLoop ==
    /\ phase = "run" /\ next > Len(trace) /\ loop < MaxLoops
    /\ loop' = loop + 1 /\ next' = 1
    /\ turn' = [l \in Levels |-> IF Again(l) THEN turn[l] + 1 ELSE 0]
    /\ base' = [l \in Levels |->
                  IF Again(l) THEN base[l] + moves[l].increment ELSE 0]
    /\ UNCHANGED <<plan, phase, iterations, model, content, served>>

Next == \/ Balance \/ BalanceDone
        \/ \E l \in Levels : Access(l)
        \/ Finalize \/ Execute \/ EndOfLoop

Spec == Init /\ [][Next]_vars /\ WF_vars(Balance)

-----------------------------------------------------------------------------
\* The loop of the instruction model adds a repetition where most are missing
\* until every share is within 0.1 of the one asked for (model/memory.py:146);
\* nothing bounds it, and it ends, for the instances here before MaxIterations.
IterationsFound == phase = "balance" ~> Balanced(iterations)

Running == phase = "run" /\ next <= Len(trace)

\* The displacements of a level that end on a multiple of the level below: the
\* step leaves the line at the edge out.
OnEdge(l) == Checked(l) /\ maxValue[l] % Bytes(caches[Ant(l)]) = 0

\* No access of the loop leaves the variable of its level, which has the size
\* of the cache, however often its base has moved on; a level whose largest
\* displacement is on the edge does (finalize_model, GenericMemoryModelPass).
InBounds ==
    Running => LET a == trace[next]
               IN  ~OnEdge(a.level) =>
                     base[a.level] + a.value < Bytes(caches[a.level])

\* The size of a level is a multiple of its step. With three levels it may
\* not be: the guard is rounded down, and the size divided by it is a distance
\* that is no multiple of the level below, nor of a line.
Whole(l) == Bytes(caches[l]) % StepSize(l) = 0
AllWhole == \A l \in Levels : Checked(l) => Whole(l)

\* Moving on keeps every access of a level in the congruence classes it was
\* given, apart from those of the level it must not disturb.
MovesKeepClasses ==
    \A l \in Levels : base[l] > 0 /\ (Len(caches) = 2 \/ Whole(l))
                         => base[l] % Bytes(caches[Ant(l)]) = 0

\* The lines a level goes through until its base returns to the start.
Bases(l) == IF l \in DOMAIN moves
            THEN {k * moves[l].increment : k \in 0..(moves[l].guard - 1)}
            ELSE {0}
RoundLines(l) ==
    {(b + trace[i].value) \div LineSize :
        b \in Bases(l), i \in {j \in 1..Len(trace) : trace[j].level = l}}

\* With two levels, accesses that finalize_model accepts for the outer one, the
\* larger, go through more lines than the inner level has left for them, as the
\* error "Too few accesses to cache level" promises. With three levels they may
\* not: cache_ant is not the level below then. Nor with two of the same size:
\* the outer one has no other lines than those the inner one leaves.
OuterOverflows ==
    /\ phase = "run" /\ Len(caches) = 2 /\ ratios[2] > 0
    /\ caches[1].lines < caches[2].lines
    => Cardinality(RoundLines(2)) > RoomBelow(2)

\* Run on the reference caches, an access planned for a direct-mapped first
\* level is served by it once the first iterations have filled it: no access
\* of another level is in its way, wherever the bases have moved.
FirstLevelHits ==
    /\ served.wanted = 1 /\ served.loop > 0 /\ caches[1].ways = 1
    /\ Len(caches) = 2 \/ AllWhole
    => served.by = 1
=============================================================================
