---------------------------- MODULE Synthesizer ----------------------------
(***************************************************************************)
(* The synthesizer (class Synthesizer of code/__init__.py) and the         *)
(* benchmark it fills (code/benchmark.py): passes are added per thread,    *)
(* synthesize applies and checks them thread after thread, save writes     *)
(* the result.                                                             *)
(*                                                                         *)
(* A benchmark of several threads (MultiThreadedBenchmark) inherits the    *)
(* methods of Benchmark and finds an attribute in the current thread's     *)
(* benchmark only while the outer object lacks it.  What a method assigns  *)
(* (_init, _fini, _context, _vardisplacement) is therefore one value for   *)
(* all threads from the first assignment on; what it updates in place      *)
(* (_cfg, _global_vars, _warnings) is kept per thread.  The fields of      *)
(* bench are split accordingly.                                            *)
(*                                                                         *)
(* A pass is an object: the variables it declares keep their address from  *)
(* one thread and one synthesis to the next.                               *)
(***************************************************************************)
EXTENDS Integers, Sequences, FiniteSets, SequencesExt

CONSTANTS
    MaxThreads,   \* bound on the number of threads
    Passes,       \* pass objects
    Kind,         \* the class of each pass
    Subject,      \* the register or variable a pass is about; for start and
                  \* end code, the label it defines or NoLabel (the code is
                  \* valid assembly with one label at most)
    NoLabel,
    BasicVars,    \* the variables every thread gets: those its wrapper
                  \* requires, then the scratch variable unless no_scratch
    Vars,         \* all variables; they share their names with the labels
    Size, Align,  \* size and alignment of each variable
    Preset,       \* the address a variable is declared with, or NoAddress
    NoAddress,
    EnvReserved,  \* registers the environment and the wrapper reserve
    DataSegment,  \* start of the data segment in a context of addresses
    MaxPasses,    \* bound on the passes added
    MaxSynths     \* bound on the calls of synthesize

Kinds == {"block", "reserve", "unreserve", "declare", "init", "fini", "fix"}

ASSUME ConstantsAssumption ==
    /\ Kind \in [Passes -> Kinds]
    /\ \A p \in Passes : Kind[p] = "declare" => Subject[p] \in Vars
    /\ MaxThreads \in Nat \ {0} /\ MaxPasses \in Nat /\ MaxSynths \in Nat
    /\ NoLabel \notin Vars /\ DataSegment \in Nat
    /\ Size \in [Vars -> Nat \ {0}] /\ Align \in [Vars -> Nat \ {0}]
    /\ Preset \in [Vars -> Int \cup {NoAddress}] /\ NoAddress \notin Int

ASSUME BasicVarsAssumption ==
    /\ BasicVars \in Seq(Vars)
    /\ \A i, j \in 1..Len(BasicVars) : BasicVars[i] = BasicVars[j] => i = j

VARIABLES
    threads,   \* _threads: 1 is a Benchmark, more a MultiThreadedBenchmark
    symbolic,  \* whether the wrappers' context names variables
    passes,    \* _passes: the passes of each thread
    current,   \* _current_thread of the synthesizer
    addr,      \* the address of each variable object
    used,      \* FixRegistersPass objects that have converted their names
    at,        \* where synthesize is: [step, idx]
    bench,     \* the benchmark
    output,    \* what save wrote for each thread, <<>> before
    placed,    \* history: variables placed by this synthesis and not moved
    fault,     \* history: [thread, idx] of the pass that raised, or NoFault
    built,     \* history: the passes of the last completed synthesis
    synths     \* calls of synthesize

caller == <<threads, symbolic, passes>>
vars == <<caller, current, addr, used, at, bench, output, placed, fault,
          built, synths>>

NoFault == [thread |-> 0, idx |-> 0]
Idle == [step |-> "idle", idx |-> 0]

\* benchmark_factory and the constructors of both classes
NewBenchmark(n) ==
    [thread |-> 1, init |-> <<>>, fini |-> <<>>, reserved |-> {},
     displacement |-> 0, code |-> [t \in 1..n |-> <<>>],
     globals |-> [t \in 1..n |-> <<>>], warnings |-> [t \in 1..n |-> {}]]

Init ==
    /\ threads \in 1..MaxThreads
    /\ symbolic \in BOOLEAN
    /\ passes = [t \in 1..threads |-> <<>>]
    /\ current = 1
    /\ addr = Preset
    /\ used = {} /\ placed = {} /\ synths = 0
    /\ at = Idle
    /\ bench = NewBenchmark(threads)
    /\ output = [t \in 1..threads |-> <<>>]
    /\ fault = NoFault
    /\ built = passes

Raised(t, i) == /\ fault' = [thread |-> t, idx |-> i]
                /\ at' = Idle

\* set_current_thread assigns before it checks, and accepts one thread more
\* than there are: the caller is left with it either way.
SetCurrentThread(t) ==
    /\ at = Idle
    /\ current' = t
    /\ UNCHANGED <<caller, addr, used, at, bench, output, placed, fault,
                   built, synths>>

\* add_pass to the thread given (0 for none: the current one); a thread
\* without a list of passes is an error that changes nothing.
AddPass(p, given) ==
    LET t == IF given = 0 THEN current ELSE given IN
    /\ at = Idle /\ t \in 1..threads
    /\ FoldFunction(LAMBDA s, n : n + Len(s), 0, passes) < MaxPasses
    /\ passes' = [passes EXCEPT ![t] = Append(@, p)]
    /\ UNCHANGED <<threads, symbolic, current, addr, used, at, bench, output,
                   placed, fault, built, synths>>

\* Benchmark.register_var: where a variable goes that has no address yet. The
\* overlap search answers None at once, so the first aligned place is taken.
Aligned(d, v) == LET rest == (d + DataSegment) % Align[v]
                 IN  IF rest = 0 THEN d ELSE d + Align[v] - rest

\* Mutant: the next variable starts where this one does.
RegisterVarNoAdvance(b, a, v) ==
    LET d == Aligned(b.displacement, v)
        known == [b EXCEPT !.globals[b.thread] = Append(@, v)]
    IN  IF symbolic \/ a[v] # NoAddress
        THEN [bench |-> known, addr |-> a]
        ELSE [bench |-> [known EXCEPT !.displacement = d],
              addr |-> [a EXCEPT ![v] = d]]

\* Benchmark.register_var, for a name the thread does not have: an address by
\* name leaves the number unset here, a variable with an address keeps it.
RegisterVar(b, a, v) ==
    LET d == Aligned(b.displacement, v)
        known == [b EXCEPT !.globals[b.thread] = Append(@, v)]
    IN  IF symbolic \/ a[v] # NoAddress
        THEN [bench |-> known, addr |-> a]
        ELSE [bench |-> [known EXCEPT !.displacement = d + Size[v]],
              addr |-> [a EXCEPT ![v] = d]]

\* Mutant: the name is looked up in every thread.
RegisteredAnywhere(b, v) ==
    \E t \in DOMAIN b.globals : Contains(b.globals[t], v)

\* register_var looks the name up in the current thread's variables.
Registered(b, v) == Contains(b.globals[b.thread], v)

\* synthesize creates the benchmark and turns to its first thread.
Synthesize ==
    /\ at = Idle /\ synths < MaxSynths
    /\ synths' = synths + 1
    /\ bench' = NewBenchmark(threads)
    /\ at' = [step |-> "thread", idx |-> 1]
    /\ placed' = {} /\ fault' = NoFault
    /\ output' = [t \in 1..threads |-> <<>>]
    /\ UNCHANGED <<caller, current, addr, used, built>>

\* Mutant: a thread adds its registers to the context the last one left.
FreshContextKept(b, t) == [b EXCEPT !.thread = t]

\* Mutant: the benchmark is not turned to the thread.
FreshContextOnly(b, t) == [b EXCEPT !.reserved = {}]

\* The start of a thread: both objects turn to it, and the context is a new
\* copy of the wrapper's.
FreshContext(b, t) == [b EXCEPT !.thread = t, !.reserved = {}]

StartThread ==
    /\ at.step = "thread"
    /\ current' = at.idx
    /\ bench' = FreshContext(bench, at.idx)
    /\ at' = [step |-> "globals", idx |-> 1]
    /\ UNCHANGED <<caller, addr, used, output, placed, fault, built, synths>>

\* The variables every thread gets are registered one after another,
RegisterBasic ==
    /\ at.step = "globals" /\ at.idx <= Len(BasicVars)
    /\ LET v == BasicVars[at.idx]
           r == RegisterVar(bench, addr, v)
       IN  /\ bench' = r.bench /\ addr' = r.addr
           /\ placed' = IF r.addr = addr THEN placed ELSE placed \cup {v}
    /\ at' = [at EXCEPT !.idx = @ + 1]
    /\ UNCHANGED <<caller, current, used, output, fault, built, synths>>

\* and then the basic registers are reserved.
ReserveBasic ==
    /\ at.step = "globals" /\ at.idx > Len(BasicVars)
    /\ bench' = [bench EXCEPT !.reserved = @ \cup EnvReserved]
    /\ at' = [step |-> "apply", idx |-> 1]
    /\ UNCHANGED <<caller, current, addr, used, output, placed, fault, built,
                   synths>>

Pass == passes[current][at.idx]
Applied == at' = [at EXCEPT !.idx = @ + 1] /\ UNCHANGED fault
Applying(kind) ==
    /\ at.step = "apply" /\ at.idx <= Len(passes[current])
    /\ Kind[Pass] = kind
    /\ UNCHANGED <<caller, current, output, built, synths>>

\* SimpleBuildingBlockPass adds a block to the current thread's graph.
ApplyBlock ==
    /\ Applying("block") /\ Applied
    /\ bench' = [bench EXCEPT !.code[bench.thread] = Append(@, Pass)]
    /\ UNCHANGED <<addr, used, placed>>

\* ReserveRegistersPass; the context refuses a register it has.
ApplyReserve ==
    /\ Applying("reserve")
    /\ UNCHANGED <<addr, used, placed>>
    /\ IF Subject[Pass] \in bench.reserved
       THEN Raised(current, at.idx) /\ UNCHANGED bench
       ELSE Applied /\ bench' = [bench EXCEPT !.reserved =
                                    @ \cup {Subject[Pass]}]

\* UnReserveRegistersPass; the context has no such register to remove.
ApplyUnReserve ==
    /\ Applying("unreserve")
    /\ UNCHANGED <<addr, used, placed>>
    /\ IF Subject[Pass] \notin bench.reserved
       THEN Raised(current, at.idx) /\ UNCHANGED bench
       ELSE Applied /\ bench' = [bench EXCEPT !.reserved =
                                    @ \ {Subject[Pass]}]

\* DeclareVariablesPass: an address the variable has is taken for an absolute
\* one and made relative to the data segment, then the variable is registered.
ApplyDeclare ==
    /\ Applying("declare") /\ UNCHANGED used
    /\ LET v == Subject[Pass]
           shifted == ~symbolic /\ addr[v] # NoAddress
           a == IF shifted THEN [addr EXCEPT ![v] = @ - DataSegment] ELSE addr
           r == RegisterVar(bench, a, v)
       IN  IF Registered(bench, v)
           THEN /\ addr' = a /\ placed' = IF shifted THEN placed \ {v}
                                          ELSE placed
                /\ Raised(current, at.idx) /\ UNCHANGED bench
           ELSE /\ Applied /\ bench' = r.bench /\ addr' = r.addr
                /\ placed' = IF shifted THEN placed \ {v}
                             ELSE IF r.addr = a THEN placed
                             ELSE placed \cup {v}

\* Mutant: the list is started anew.
AddInitReplacing(b, p) == [b EXCEPT !.init = << <<b.thread, p>> >>]

\* Benchmark.add_init and add_fini; an instruction is known by the thread it
\* was made for and the pass that made it.
AddInit(b, p) == [b EXCEPT !.init = Append(@, <<b.thread, p>>)]
AddFini(b, p) == [b EXCEPT !.fini = Append(@, <<b.thread, p>>)]

\* Benchmark.labels: the names of the current thread's variables, and the
\* labels of all start and end instructions, whichever thread made them (the
\* blocks have no labels yet).
Labels(b) ==
    ToSet(b.globals[b.thread])
        \cup {Subject[instr[2]] : instr \in ToSet(b.init) \cup ToSet(b.fini)}

\* interpret_asm refuses a label that is defined already.
DefinedTwice == Subject[Pass] # NoLabel /\ Subject[Pass] \in Labels(bench)

\* AddInitializationAssemblyPass and AddFinalizationAssemblyPass
ApplyInit ==
    /\ Applying("init")
    /\ UNCHANGED <<addr, used, placed>>
    /\ IF DefinedTwice THEN Raised(current, at.idx) /\ UNCHANGED bench
       ELSE Applied /\ bench' = AddInit(bench, Pass)
ApplyFini ==
    /\ Applying("fini")
    /\ UNCHANGED <<addr, used, placed>>
    /\ IF DefinedTwice THEN Raised(current, at.idx) /\ UNCHANGED bench
       ELSE Applied /\ bench' = AddFini(bench, Pass)

\* FixRegistersPass replaces the names it was given by registers, and does
\* not find registers by name when it is called again.
ApplyFix ==
    /\ Applying("fix")
    /\ UNCHANGED <<addr, bench, placed>>
    /\ IF Pass \in used THEN Raised(current, at.idx) /\ UNCHANGED used
       ELSE Applied /\ used' = used \cup {Pass}

\* All checks of the thread, once all its passes are applied: the block pass
\* wants to have made the only block, no other pass has a check. The last
\* thread ends the synthesis.
CheckPasses ==
    /\ at.step = "apply" /\ at.idx > Len(passes[current])
    /\ LET ok(i) == Kind[passes[current][i]] = "block"
                    /\ Len(bench.code[current]) = 1
       IN  bench' = [bench EXCEPT !.warnings[current] =
                        {i \in 1..Len(passes[current]) : ~ok(i)}]
    /\ at' = IF current < threads
             THEN [step |-> "thread", idx |-> current + 1] ELSE Idle
    /\ built' = IF current < threads THEN built ELSE passes
    /\ UNCHANGED <<caller, current, addr, used, output, placed, fault, synths>>

Complete == at = Idle /\ synths > 0 /\ fault = NoFault

\* save of a complete benchmark: every thread with its variables, the start
\* and end instructions the benchmark answers with while it is on that thread,
\* and its code. A thread without instructions is an error, in which case
\* nothing is written and both objects stay on that thread.
Save ==
    /\ Complete
    /\ LET empty == {t \in 1..threads : bench.code[t] = <<>>}
       IN  IF empty = {}
           THEN /\ output' = [t \in 1..threads |->
                     << bench.init, bench.code[t], bench.fini >>]
                /\ current' = 1
                /\ bench' = [bench EXCEPT !.thread = threads]
           ELSE /\ UNCHANGED output
                /\ \E t \in empty : /\ \A x \in empty : t <= x
                                    /\ current' = t
                                    /\ bench' = [bench EXCEPT !.thread = t]
    /\ UNCHANGED <<caller, addr, used, at, placed, fault, built,
                   synths>>

Next ==
    \/ \E t \in 0..(MaxThreads + 1) : SetCurrentThread(t)
    \/ \E p \in Passes, given \in 0..MaxThreads : AddPass(p, given)
    \/ Synthesize \/ StartThread \/ RegisterBasic \/ ReserveBasic
    \/ ApplyBlock \/ ApplyReserve \/ ApplyUnReserve \/ ApplyDeclare
    \/ ApplyInit \/ ApplyFini \/ ApplyFix
    \/ CheckPasses \/ Save

Spec == Init /\ [][Next]_vars

-----------------------------------------------------------------------------
\* All variables have values of their kind; the synthesizer and the benchmark
\* are on a thread that exists while a thread is being built.
TypeOK ==
    /\ threads \in 1..MaxThreads /\ symbolic \in BOOLEAN
    /\ \A t \in 1..threads : passes[t] \in Seq(Passes)
    /\ current \in 0..(MaxThreads + 1)
    /\ addr \in [Vars -> Int \cup {NoAddress}]
    /\ used \subseteq Passes /\ placed \subseteq Vars
    /\ at.step \in {"globals", "apply"} =>
         current \in 1..threads /\ bench.thread = current
    /\ synths \in 0..MaxSynths

\* The elements of a sequence that are in a set, in their order
Selected(s, T) ==
    LET from[n \in 0..Len(s)] ==
            IF n = 0 THEN <<>>
            ELSE IF s[n] \in T THEN Append(from[n - 1], s[n]) ELSE from[n - 1]
    IN  from[Len(s)]

\* The instructions the passes of a class make for a thread; those of a thread
Made(t, seq, kind) ==
    LET own == Selected(seq, {p \in Passes : Kind[p] = kind})
    IN  [i \in 1..Len(own) |-> <<t, own[i]>>]
OwnInstrs(t, instrs) == Selected(instrs, {t} \X Passes)

\* A list of instructions is exactly what the passes of a class made: thread
\* after thread, each thread's once each and in the order of its passes.
MadeBy(instrs, kind) ==
    /\ instrs \in Seq((1..threads) \X Passes)
    /\ \A i, j \in 1..Len(instrs) : i < j => instrs[i][1] <= instrs[j][1]
    /\ \A t \in 1..threads : OwnInstrs(t, instrs) = Made(t, built[t], kind)

\* The file save writes for a thread starts and ends with the code that the
\* passes of all threads made, exactly and in their order, because a benchmark
\* of several threads has one list of each (Benchmark.add_init, add_fini,
\* Synthesizer._wrap_thread).
PrologueComplete ==
    \A t \in 1..threads : output[t] # <<>> =>
        MadeBy(output[t][1], "init") /\ MadeBy(output[t][3], "fini")

Bytes(v) == addr[v]..(addr[v] + Size[v] - 1)

\* Variables that one synthesis places (register_var finds no address) do not
\* overlap, whichever threads they belong to. Of a variable that keeps the
\* address of its declaration or of an earlier synthesis nothing is said: the
\* search for overlaps answers None at once, so it may overlap any other.
PlacedDisjoint ==
    \A v, w \in placed : v # w => Bytes(v) \cap Bytes(w) = {}

\* The i-th pass of a thread is of this class and about this subject.
Does(t, i, kind, x) == Kind[passes[t][i]] = kind /\ Subject[passes[t][i]] = x

Registers == EnvReserved \cup {Subject[p] : p \in Passes}

\* The reserved registers after the first n passes of a thread on its own:
\* those reserved by the environment or a pass and freed by no later one.
ReservedAfter(t, n) ==
    {r \in Registers :
        \E i \in 0..n :
            /\ IF i = 0 THEN r \in EnvReserved ELSE Does(t, i, "reserve", r)
            /\ \A j \in (i + 1)..n : ~Does(t, j, "unreserve", r)}

\* The passes of a thread work on the registers the environment and they
\* themselves reserved: nothing is left over from another thread or from an
\* earlier synthesis, also from one that failed (synthesize, set_context).
ContextOfThread ==
    at.step = "apply" => bench.reserved = ReservedAfter(current, at.idx - 1)

\* Two threads have one list of start code and one of end code, so that a label
\* is defined twice when a pass of an earlier thread or pass has defined it.
LabelTaken(t, n, label) ==
    \/ label \in ToSet(BasicVars)
    \/ \E i \in 1..(n - 1) : Does(t, i, "declare", label)
    \/ \E u \in 1..t : \E i \in 1..Len(passes[u]) :
         /\ u = t => i < n
         /\ \E kind \in {"init", "fini"} : Does(u, i, kind, label)

\* A synthesis fails because of what its passes ask for: a register that the
\* failing thread's own passes reserve twice or free unreserved, a variable
\* they declare twice or that every thread has, a FixRegistersPass object that
\* was applied before, or a label that is a variable of the thread or was
\* defined by start or end code of this or of an earlier thread.
FaultsExplained ==
    fault # NoFault =>
        LET p == passes[fault.thread][fault.idx]
            before == ReservedAfter(fault.thread, fault.idx - 1)
        IN  \/ Kind[p] = "reserve" /\ Subject[p] \in before
            \/ Kind[p] = "unreserve" /\ Subject[p] \notin before
            \/ /\ Kind[p] = "declare"
               /\ \/ Subject[p] \in ToSet(BasicVars)
                  \/ \E i \in 1..(fault.idx - 1) :
                        Does(fault.thread, i, "declare", Subject[p])
            \/ Kind[p] = "fix" /\ p \in used
            \/ /\ Kind[p] \in {"init", "fini"} /\ Subject[p] # NoLabel
               /\ LabelTaken(fault.thread, fault.idx, Subject[p])
=============================================================================
