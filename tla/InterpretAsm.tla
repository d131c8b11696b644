---------------------------- MODULE InterpretAsm ----------------------------
(***************************************************************************)
(* interpret_asm of utils/asm.py: a list of assembly statements is checked *)
(* and translated, by the caller itself or, above a threshold, by one      *)
(* process per chunk of the list, each with a queue for its result.        *)
(* Translation is a function of the statement, so the definition a         *)
(* statement yields is represented by the statement.                       *)
(***************************************************************************)
EXTENDS Integers, Sequences, FiniteSets

CONSTANTS
    Labels,     \* label names
    None,       \* no label on a statement
    Plain, Bad, \* assembly without symbols: correct, not interpretable
    Threshold,  \* MICROPROBE_RC['parallel_threshold']
    Cpus,       \* MICROPROBE_RC['cpus']
    MaxLen,     \* bound on the statements of a call
    MaxCalls    \* bound on the calls

ASSUME ConstantsAssumption ==
    /\ Cardinality({None, Plain, Bad}) = 3 /\ {None, Plain, Bad} \cap Labels = {}
    /\ Threshold \in Nat /\ Cpus \in Nat \ {0}
    /\ MaxLen \in Nat /\ MaxCalls \in Nat

\* A statement's assembly is Plain, Bad, or a reference to a label.
Statement == [label : Labels \cup {None}, asm : Labels \cup {Plain, Bad}]

Caller == 0                    \* interprets short lists itself
Workers == 1..MaxLen           \* at most one process per statement
Tasks == {Caller} \cup Workers

VARIABLES
    call,     \* what the caller does: "idle", "serial", "fork", "get",
              \* "join", "returned", "raised"
    code,     \* the statements of the call
    labels,   \* the labels the caller passes
    task,     \* task[t]: where the interpretation of a list stands
    done,     \* done[t]: statements of its list interpreted so far
    cache,    \* cache[t]: the assembly in the _ASM_CACHE of that process
    queue,    \* queue[t]: the result a worker has put, if any
    nfork,    \* workers started
    nget,     \* results taken
    result,   \* instructions_and_params of the caller
    cold,     \* the caller's cache was empty when the call began
    calls     \* calls made

vars == <<call, code, labels, task, done, cache, queue, nfork, nget, result,
          cold, calls>>

callVars == <<code, labels, cold, calls>>

\* Chunks of the list: max(len // cpus, 1) statements each.
ChunkSize == IF Len(code) \div Cpus > 1 THEN Len(code) \div Cpus ELSE 1
NChunks == (Len(code) + ChunkSize - 1) \div ChunkSize
Minimum(m, n) == IF m < n THEN m ELSE n

\* Mutant: a chunk ends one statement late.
ChunkOverlapping(w) ==
    SubSeq(code, (w - 1) * ChunkSize + 1,
           Minimum(w * ChunkSize + 1, Len(code)))

Chunk(w) == SubSeq(code, (w - 1) * ChunkSize + 1,
                   Minimum(w * ChunkSize, Len(code)))

\* The list a task interprets.
List(t) == IF t = Caller THEN code ELSE Chunk(t)

LabelsOf(list) == {list[n].label : n \in DOMAIN list} \ {None}

\* Pass 1 over a list: a label occurs twice, or is one the caller passed.
DefinedTwice(list) ==
    \/ LabelsOf(list) \cap labels # {}
    \/ \E m, n \in DOMAIN list :
         m # n /\ list[m].label # None /\ list[m].label = list[n].label

\* Mutants: only the labels the caller passes count; any symbol will do.
AcceptedPassedOnly(t, asm) == asm \in cache[t] \cup {Plain} \cup labels
AcceptedAnySymbol(t, asm) == asm # Bad

\* Pass 2: _interpret_instr_def looks the assembly up before it checks it.
Accepted(t, asm) ==
    \/ asm \in cache[t]
    \/ asm = Plain
    \/ asm \in labels \cup LabelsOf(List(t))

Init ==
    /\ call = "idle" /\ code = <<>> /\ labels = {}
    /\ task = [t \in Tasks |-> "none"] /\ done = [t \in Tasks |-> 0]
    /\ cache = [t \in Tasks |-> {}] /\ queue = [t \in Tasks |-> <<>>]
    /\ nfork = 0 /\ nget = 0 /\ result = <<>> /\ cold = TRUE /\ calls = 0

Call(c, ls) ==
    /\ call \in {"idle", "returned", "raised"} /\ calls < MaxCalls
    /\ calls' = calls + 1 /\ code' = c /\ labels' = ls
    /\ cold' = (cache[Caller] = {})
    /\ nfork' = 0 /\ nget' = 0 /\ result' = <<>>
    /\ done' = [t \in Tasks |-> 0] /\ queue' = [t \in Tasks |-> <<>>]
    /\ IF Len(c) > Threshold
       THEN call' = "fork" /\ task' = [t \in Tasks |-> "none"]
       ELSE /\ call' = "serial"
            /\ task' = [t \in Tasks |->
                          IF t = Caller THEN "scan" ELSE "none"]
    /\ cache' = [t \in Tasks |-> IF t = Caller THEN cache[t] ELSE {}]

\* Mutant: no more processes than CPUs are started.
StartedUpToCpus == Minimum(NChunks, Cpus)

\* One process is started for each chunk.
Started == NChunks

\* Starting a process copies the caller's cache into it.
Fork ==
    /\ call = "fork"
    /\ nfork' = nfork + 1
    /\ task' = [task EXCEPT ![nfork'] = "scan"]
    /\ cache' = [cache EXCEPT ![nfork'] = cache[Caller]]
    /\ call' = IF nfork' = Started THEN "get" ELSE call
    /\ UNCHANGED <<callVars, done, queue, nget, result>>

\* A MicroprobeAsmError ends the call in the caller and the process in a
\* worker, which then never puts anything on its queue.
Raise(t) ==
    /\ task' = [task EXCEPT ![t] = "raised"]
    /\ call' = IF t = Caller THEN "raised" ELSE call

Scan(t) ==
    /\ task[t] = "scan"
    /\ IF DefinedTwice(List(t)) THEN Raise(t)
       ELSE task' = [task EXCEPT ![t] = "interpret"] /\ UNCHANGED call
    /\ UNCHANGED <<callVars, done, cache, queue, nfork, nget, result>>

Interpret(t) ==
    /\ task[t] = "interpret" /\ done[t] < Len(List(t))
    /\ LET asm == List(t)[done[t] + 1].asm
       IN  IF Accepted(t, asm)
           THEN /\ cache' = [cache EXCEPT ![t] = @ \cup {asm}]
                /\ done' = [done EXCEPT ![t] = @ + 1]
                /\ UNCHANGED <<task, call>>
           ELSE Raise(t) /\ UNCHANGED <<cache, done>>
    /\ UNCHANGED <<callVars, queue, nfork, nget, result>>

\* The list is done: the caller returns it, a worker puts it on its queue.
Finish(t) ==
    /\ task[t] = "interpret" /\ done[t] = Len(List(t))
    /\ task' = [task EXCEPT ![t] = "finished"]
    /\ IF t = Caller
       THEN call' = "returned" /\ result' = List(t) /\ UNCHANGED queue
       ELSE queue' = [queue EXCEPT ![t] = <<List(t)>>]
            /\ UNCHANGED <<call, result>>
    /\ UNCHANGED <<callVars, done, cache, nfork, nget>>

Exit(t) ==
    /\ t # Caller /\ task[t] = "finished"
    /\ task' = [task EXCEPT ![t] = "exited"]
    /\ UNCHANGED <<call, callVars, done, cache, queue, nfork, nget, result>>

\* queue.get(), in the order of the chunks; it blocks on an empty queue.
Get ==
    /\ call = "get" /\ queue[nget + 1] # <<>>
    /\ nget' = nget + 1
    /\ result' = result \o queue[nget'][1]
    /\ queue' = [queue EXCEPT ![nget'] = <<>>]
    /\ call' = IF nget' = NChunks THEN "join" ELSE call
    /\ UNCHANGED <<callVars, task, done, cache, nfork>>

\* Mutant: the processes are not waited for.
NotJoined == TRUE

Joined == \A w \in 1..nfork : task[w] \in {"exited", "raised"}

\* join every process, then return
Join ==
    /\ call = "join" /\ Joined
    /\ call' = "returned"
    /\ UNCHANGED <<callVars, task, done, cache, queue, nfork, nget, result>>

Codes == UNION {[1..n -> Statement] : n \in 0..MaxLen}

Work(t) == Scan(t) \/ Interpret(t) \/ Finish(t) \/ Exit(t)

Next ==
    \/ \E c \in Codes, ls \in SUBSET Labels : Call(c, ls)
    \/ Fork \/ Get \/ Join
    \/ \E t \in Tasks : Work(t)

Spec == Init /\ [][Next]_vars

\* The caller and each worker are scheduled independently of each other.
FairSpec ==
    /\ Spec
    /\ WF_vars(Fork) /\ WF_vars(Get) /\ WF_vars(Join)
    /\ \A t \in Tasks : WF_vars(Work(t))

----------------------------------------------------------------------------
\* The references of a list that name a declared label.
Declared(list, ls) ==
    \A n \in DOMAIN list : list[n].asm \in Labels
        => list[n].asm \in ls \cup LabelsOf(list)
NoBad(list) == \A n \in DOMAIN list : list[n].asm # Bad

\* A call that returns has translated every statement once and in order, in
\* whatever order the workers finish (asm.py lines 137-166).
ResultInOrder == call = "returned" => result = code

\* An error is only reported for a list that has one: an uninterpretable
\* statement, an undeclared label, or a label defined twice (lines 183-221).
ErrorsAreReal ==
    call = "raised"
        => ~NoBad(code) \/ ~Declared(code, labels) \/ DefinedTwice(code)

\* Whatever the cache holds, and in how many pieces the list was read, a call
\* that returns saw no uninterpretable statement, and with an empty cache to
\* begin with it saw no undeclared label.
ReturnedIsValid ==
    call = "returned" => NoBad(code) /\ (cold => Declared(code, labels))

\* No worker outlives the call that started it (lines 162-164).
NoWorkerLeft ==
    call \in {"returned", "raised"}
        => \A w \in Workers : task[w] \notin {"scan", "interpret", "finished"}

\* A call ends unless one of its workers reports an error.
EndsUnlessWorkerRaises ==
    call = "fork" ~> \/ call \in {"returned", "raised"}
                     \/ \E w \in Workers : task[w] = "raised"

\* "raise MicroprobeAsmError: if something is wrong during the interpretation"
\* (asm.py lines 101-102): a call ends, with a result or the exception.
CallEnds == call = "fork" ~> call \in {"returned", "raised"}
=============================================================================
