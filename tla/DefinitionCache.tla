--------------------------- MODULE DefinitionCache ---------------------------
(***************************************************************************)
(* Importing a target definition through the file caches (utils/cache.py,  *)
(* utils/imp.py, import_isa_definition of target/isa/__init__.py).         *)
(*                                                                         *)
(* A definition is a chain of layers (register types, registers, operands, *)
(* ...): the data of a layer is built from its own source files and from   *)
(* the data of the layer below, and kept in one cache file per layer.      *)
(* Several processes import, sources are edited, processes crash, reads    *)
(* and writes fail.  The data of layer l is the sequence of the l source   *)
(* versions it was built from; the files of a layer are one source.  The   *)
(* locks are those of the package fasteners; without it nothing is locked  *)
(* and the bytes of two writers may mix.                                   *)
(***************************************************************************)
EXTENDS Integers, Sequences

CONSTANTS
    Procs,       \* processes importing the definition
    NoProc,      \* not a process: the write lock is free
    NLayers,     \* number of layers (6 for an ISA, 2 for a microarchitecture)
    QuietEdits,  \* a source is never edited within the clock tick of a cache
                 \* write, nor between being parsed and being cached
    MaxVersion,  \* bound on the edits of one source
    MaxTime,     \* bound on the clock
    MaxImports,  \* bound on the imports all processes start
    MaxFailures  \* bound on the reads and writes that fail and the crashes

ASSUME ConstantsAssumption ==
    /\ NoProc \notin Procs /\ NLayers \in Nat \ {0} /\ QuietEdits \in BOOLEAN
    /\ MaxVersion \in Nat /\ MaxTime \in Nat /\ MaxImports \in Nat
    /\ MaxFailures \in Nat

Layers == 1..NLayers

VARIABLES
    locking,  \* fasteners is installed: the locks of the cache files work
    clock,    \* the file system's clock, in ticks of its timestamps
    source,   \* source[l]: version and modification time
    file,     \* file[l]: the cache file, its contents and modification time
    lock,     \* lock[l]: the process holding the cache file's write lock
    pc,       \* what each process does next
    layer,    \* the layer each process imports
    force,    \* the layer below was rebuilt; after Check, this one is too
    got,      \* the data a process has obtained, layer by layer
    buf,      \* the data a process is writing to the cache
    nocache,  \* MICROPROBE_RC['no_cache'] of each process
    imports,  \* imports started by all processes
    failures, \* reads and writes that failed, and crashes
    broken,   \* history: cache files a failure left half written
    disturbed, \* history: a process failed, or imports overlapped
    calm      \* history: no source changed since the process's import began

fileVars == <<locking, source, file, lock, broken>>
procVars == <<pc, layer, force, got, buf, nocache, imports>>
vars == <<clock, fileVars, procVars, failures, disturbed, calm>>

NoFile == [state |-> "absent", data |-> <<>>, mtime |-> 0]

\* A file being written, or left so; one with a whole pickle; and one with the
\* bytes of several writers, which no reader can load.
Partial == [state |-> "partial", data |-> <<>>, mtime |-> clock]
Whole(data) == [state |-> "whole", data |-> data, mtime |-> clock]
Mixed == [state |-> "mixed", data |-> <<>>, mtime |-> clock]

Init ==
    /\ locking \in BOOLEAN
    /\ clock = 1
    /\ source = [l \in Layers |-> [version |-> 0, mtime |-> 0]]
    /\ file = [l \in Layers |-> NoFile]
    /\ lock = [l \in Layers |-> NoProc]
    /\ pc = [p \in Procs |-> "idle"]
    /\ layer = [p \in Procs |-> 1]
    /\ force = [p \in Procs |-> FALSE]
    /\ got = [p \in Procs |-> <<>>]
    /\ buf = [p \in Procs |-> <<>>]
    /\ nocache = [p \in Procs |-> FALSE]
    /\ imports = 0 /\ failures = 0
    /\ broken = {} /\ disturbed = FALSE
    /\ calm = [p \in Procs |-> TRUE]

\* A read or write fails, or a process dies.
Failure ==
    /\ failures < MaxFailures /\ failures' = failures + 1
    /\ disturbed' = TRUE

Goto(p, label) == pc' = [pc EXCEPT ![p] = label]

\* Mutant: a cache file one tick older than the source is still accepted.
StaleWithTolerance(l) ==
    \/ file[l].state = "absent"
    \/ source[l].mtime > file[l].mtime + 1

\* update_cache_needed: the cache file is missing or strictly older.
Stale(l) ==
    \/ file[l].state = "absent"
    \/ source[l].mtime > file[l].mtime

\* Mutant: only the existence of the cache file is looked at.
UpdateNeededIfAbsent(p, l) == file[l].state = "absent" \/ nocache[p]

UpdateNeeded(p, l) == Stale(l) \/ nocache[p]

\* import_isa_definition is called.
Start(p) ==
    /\ pc[p] = "idle" /\ imports < MaxImports
    /\ Goto(p, "check")
    /\ got' = [got EXCEPT ![p] = <<>>]
    /\ imports' = imports + 1
    /\ disturbed' = (disturbed \/ \E q \in Procs : pc[q] # "idle")
    /\ calm' = [calm EXCEPT ![p] = TRUE]
    /\ UNCHANGED <<clock, fileVars, layer, force, buf, nocache, failures>>

\* result = update_cache_needed(...) or force
Check(p) ==
    /\ pc[p] = "check"
    /\ force' = [force EXCEPT ![p] = UpdateNeeded(p, layer[p]) \/ @]
    /\ Goto(p, IF force'[p] THEN "build" ELSE "read")
    /\ UNCHANGED <<clock, fileVars, layer, got, buf, nocache, imports,
                   failures, disturbed, calm>>

\* Mutants: one layer too many is imported; the next layer is not told that
\* this one was rebuilt.
ServeOneMore(p, data) ==
    /\ got' = [got EXCEPT ![p] = Append(@, data)]
    /\ buf' = [buf EXCEPT ![p] = <<>>]
    /\ Goto(p, "check")
    /\ layer' = [layer EXCEPT ![p] = @ + 1]
    /\ UNCHANGED force
ServeWithoutForce(p, data) ==
    /\ got' = [got EXCEPT ![p] = Append(@, data)]
    /\ buf' = [buf EXCEPT ![p] = <<>>]
    /\ force' = [force EXCEPT ![p] = FALSE]
    /\ Goto(p, IF layer[p] = NLayers THEN "idle" ELSE "check")
    /\ layer' = [layer EXCEPT ![p] = IF @ = NLayers THEN 1 ELSE @ + 1]

\* The import of a layer returns (data, result): the next layer is imported
\* with force = result, and the last one ends the import.
Serve(p, data) ==
    /\ got' = [got EXCEPT ![p] = Append(@, data)]
    /\ buf' = [buf EXCEPT ![p] = <<>>]
    /\ IF layer[p] = NLayers
       THEN /\ Goto(p, "idle")
            /\ layer' = [layer EXCEPT ![p] = 1]
            /\ force' = [force EXCEPT ![p] = FALSE]
       ELSE /\ Goto(p, "check")
            /\ layer' = [layer EXCEPT ![p] = @ + 1]
            /\ UNCHANGED force

Readers(l) == {q \in Procs : pc[q] = "load" /\ layer[q] = l}
Writers(l) == {q \in Procs : pc[q] = "dump" /\ layer[q] = l}

\* Mutant: the cache file is read without its lock.
ReadUnlocked(l) == TRUE

\* The read lock of a cache file is granted while nobody writes it, the write
\* lock while nobody reads or writes it; the dummy lock always.
ReadLock(l) == locking => lock[l] = NoProc
WriteLock(l) == locking => lock[l] = NoProc /\ Readers(l) = {}

\* read_cache_data takes the read lock and opens the cache file.
Read(p) ==
    /\ pc[p] = "read" /\ ReadLock(layer[p])
    /\ Goto(p, "load")
    /\ UNCHANGED <<clock, fileVars, layer, force, got, buf, nocache, imports,
                   failures, disturbed, calm>>

\* pickle.load. Anything but a whole pickle is a MicroprobeCacheError, and the
\* layer is rebuilt; result stays FALSE.
Load(p) ==
    /\ pc[p] = "load"
    /\ IF file[layer[p]].state = "whole"
       THEN Serve(p, file[layer[p]].data)
       ELSE Goto(p, "build") /\ UNCHANGED <<layer, force, got, buf>>
    /\ UNCHANGED <<clock, fileVars, nocache, imports, failures, disturbed,
                   calm>>

\* The lock or the cache file cannot be opened or read, or the data names a
\* class or module this interpreter lacks: rebuilt as well, whole or not.
ReadFails(p) ==
    /\ pc[p] = "load" \/ (pc[p] = "read" /\ locking)
    /\ Goto(p, "build")
    /\ Failure
    /\ UNCHANGED <<clock, fileVars, layer, force, got, buf, nocache, imports,
                   calm>>

Below(p) == IF layer[p] = 1 THEN <<>> ELSE got[p][layer[p] - 1]

\* base_module.import_definition(cls, yaml files, data of the layer below)
Build(p) ==
    /\ pc[p] = "build"
    /\ buf' = [buf EXCEPT ![p] = Append(Below(p), source[layer[p]].version)]
    /\ Goto(p, "open")
    /\ UNCHANGED <<clock, fileVars, layer, force, got, nocache, imports,
                   failures, disturbed, calm>>

\* write_cache_data: the write lock is taken and open(..., 'wb') truncates.
Open(p) ==
    /\ pc[p] = "open" /\ WriteLock(layer[p])
    /\ lock' = IF locking THEN [lock EXCEPT ![layer[p]] = p] ELSE lock
    /\ file' = [file EXCEPT ![layer[p]] =
                  IF Writers(layer[p]) = {} THEN Partial ELSE Mixed]
    /\ broken' = broken \ {layer[p]}
    /\ Goto(p, "dump")
    /\ UNCHANGED <<locking, clock, source, layer, force, got, buf, nocache,
                   imports, failures, disturbed, calm>>

\* acquire_write_lock(timeout=10) gives up: the cache is not written.
LockTimeout(p) ==
    /\ pc[p] = "open" /\ ~WriteLock(layer[p])
    /\ Serve(p, buf[p])
    /\ UNCHANGED <<clock, fileVars, nocache, imports, failures, disturbed,
                   calm>>

\* The lock file cannot be created or locked: a MicroprobeCacheError, which
\* import_definition ignores.
LockFails(p) ==
    /\ pc[p] = "open" /\ locking
    /\ Serve(p, buf[p])
    /\ Failure
    /\ UNCHANGED <<clock, fileVars, nocache, imports, calm>>

\* open fails: caching is switched off in this process.
OpenFails(p) ==
    /\ pc[p] = "open" /\ WriteLock(layer[p])
    /\ nocache' = [nocache EXCEPT ![p] = TRUE]
    /\ Serve(p, buf[p])
    /\ Failure
    /\ UNCHANGED <<clock, fileVars, imports, calm>>

\* Mutant: the write lock is never released.
KeepLock(p) == UNCHANGED lock

Release(p) == lock' = [lock EXCEPT ![layer[p]] = NoProc]

\* pickle.dump and close succeed; the lock goes with the function's frame. The
\* file is what was dumped unless another writer opened it meanwhile.
Dump(p) ==
    /\ pc[p] = "dump"
    /\ \/ file' = [file EXCEPT ![layer[p]] = Whole(buf[p])]
       \/ /\ file[layer[p]].state # "partial"
          /\ file' = [file EXCEPT ![layer[p]] = Mixed]
    /\ Release(p)
    /\ Serve(p, buf[p])
    /\ UNCHANGED <<locking, clock, source, broken, nocache, imports, failures,
                   disturbed, calm>>

\* The process stops in the middle of its dump: the file stays as far as it was
\* written, here and there over what another writer had completed.
StopsWriting(p) ==
    /\ Release(p)
    /\ broken' = broken \cup {layer[p]}
    /\ \/ UNCHANGED file
       \/ /\ file[layer[p]].state = "whole"
          /\ file' = [file EXCEPT ![layer[p]] = Mixed]

\* pickle.dump fails. An IOError switches caching off in this process, an error
\* of the pickler becomes a MicroprobeCacheError, which is ignored.
DumpFails(p) ==
    /\ pc[p] = "dump"
    /\ StopsWriting(p)
    /\ \E ioError \in BOOLEAN :
         nocache' = [nocache EXCEPT ![p] = @ \/ ioError]
    /\ Serve(p, buf[p])
    /\ Failure
    /\ UNCHANGED <<locking, clock, source, imports, calm>>

\* The process dies; the operating system releases its locks.
Crash(p) ==
    /\ pc[p] # "idle"
    /\ Goto(p, "idle")
    /\ IF pc[p] = "dump" THEN StopsWriting(p)
       ELSE UNCHANGED <<lock, broken, file>>
    /\ layer' = [layer EXCEPT ![p] = 1]
    /\ force' = [force EXCEPT ![p] = FALSE]
    /\ got' = [got EXCEPT ![p] = <<>>]
    /\ buf' = [buf EXCEPT ![p] = <<>>]
    /\ nocache' = [nocache EXCEPT ![p] = FALSE]
    /\ Failure
    /\ UNCHANGED <<locking, clock, source, imports, calm>>

\* A source file is edited.
Edit(l) ==
    /\ source[l].version < MaxVersion
    /\ QuietEdits =>
         /\ file[l].mtime < clock
         /\ \A p \in Procs : layer[p] = l => pc[p] \notin {"open", "dump"}
    /\ source' = [source EXCEPT ![l] =
                    [version |-> @.version + 1, mtime |-> clock]]
    /\ calm' = [p \in Procs |-> FALSE]
    /\ UNCHANGED <<locking, clock, file, lock, broken, procVars, failures,
                   disturbed>>

Tick ==
    /\ clock < MaxTime /\ clock' = clock + 1
    /\ UNCHANGED <<fileVars, procVars, failures, disturbed, calm>>

\* What a running import does next of itself.
Step(p) ==
    \/ Check(p) \/ Read(p) \/ Load(p) \/ ReadFails(p) \/ Build(p)
    \/ Open(p) \/ LockTimeout(p) \/ LockFails(p) \/ OpenFails(p)
    \/ Dump(p) \/ DumpFails(p)

Next ==
    \/ \E p \in Procs : Start(p) \/ Step(p) \/ Crash(p)
    \/ \E l \in Layers : Edit(l)
    \/ Tick

Spec == Init /\ [][Next]_vars

\* A running process is scheduled again and again.
FairSpec == Spec /\ \A p \in Procs : WF_vars(Step(p))

----------------------------------------------------------------------------
TypeOK ==
    /\ locking \in BOOLEAN
    /\ clock \in Nat
    /\ source \in [Layers -> [version : Nat, mtime : Nat]]
    /\ file \in [Layers -> [state : {"absent", "partial", "mixed", "whole"},
                            data : Seq(Nat), mtime : Nat]]
    /\ lock \in [Layers -> Procs \cup {NoProc}]
    /\ pc \in [Procs -> {"idle", "check", "read", "load", "build", "open",
                        "dump"}]
    /\ layer \in [Procs -> Layers]
    /\ force \in [Procs -> BOOLEAN]
    /\ got \in [Procs -> Seq(Seq(Nat))]
    /\ buf \in [Procs -> Seq(Nat)]
    /\ nocache \in [Procs -> BOOLEAN]
    /\ imports \in Nat /\ failures \in Nat
    /\ broken \in SUBSET Layers
    /\ disturbed \in BOOLEAN
    /\ calm \in [Procs -> BOOLEAN]

\* A cache file that update_cache_needed accepts was built from the present
\* version of its layer's own source, whatever other processes, crashes and
\* failed writes did, with or without the locks, if edits are quiet (cache.py
\* lines 78-110).
OwnSourceFresh ==
    QuietEdits =>
        \A l \in Layers :
            file[l].state = "whole" /\ ~Stale(l)
                => file[l].data[l] = source[l].version

\* Under the locks a reader finds its cache file whole, from the moment its
\* lock is granted until it has loaded it, unless a failed write left the file
\* half written: no write in progress is seen, and none starts (read_cache_data
\* and write_cache_data, cache.py lines 123-161 and 188-235).
ReadersSeeWhole ==
    locking =>
        \A p \in Procs : pc[p] = "load" =>
            file[layer[p]].state = "whole" \/ layer[p] \in broken

\* The layers one import returns were built from each other: the registers an
\* instruction refers to are those of the register layer the import has.
LayersAgree ==
    \A p \in Procs : \A l, m \in DOMAIN got[p] :
        l < m => SubSeq(got[p][m], 1, l) = got[p][l]

\* As long as no process fails and imports do not overlap, the argument force
\* keeps the layers of every import consistent (import_definition, imp.py
\* lines 237-265, and its chain of calls in isa/__init__.py lines 191-236).
SequentialLayersAgree == ~disturbed => LayersAgree

\* Under the same conditions an import during which no source is edited
\* returns what the sources say now, at every layer.
SequentialImportCurrent ==
    QuietEdits /\ ~disturbed =>
        \A p \in Procs : calm[p] =>
            \A l \in DOMAIN got[p] :
                got[p][l] = [j \in 1..l |-> source[j].version]

\* An import ends, also when it waits for the locks of others, as these import
\* finitely often and hold a lock only while they write.
ImportEnds == \A p \in Procs : pc[p] # "idle" ~> pc[p] = "idle"
=============================================================================
