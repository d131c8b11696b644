----------------------- MODULE DefinitionCacheProofs -----------------------
(***************************************************************************)
(* DefinitionCache for any number of processes, layers, edits, ticks and   *)
(* imports: the types, what the locks hide from readers, the freshness of  *)
(* the cache files update_cache_needed accepts, and the consistency of     *)
(* imports that nothing disturbs.                                          *)
(***************************************************************************)
EXTENDS DefinitionCache, SequenceTheorems, TLAPS

\* The data of layer l has l entries wherever it is: obtained by a process, on
\* its way to the cache, or in a cache file; and a running import has obtained
\* the layers below the one it works on, the first one when it starts.
Shape ==
    /\ \A p \in Procs : pc[p] = "idle" => layer[p] = 1
    /\ \A p \in Procs : pc[p] # "idle" => Len(got[p]) = layer[p] - 1
    /\ \A p \in Procs : \A m \in 1..Len(got[p]) : Len(got[p][m]) = m
    /\ \A p \in Procs : pc[p] \in {"open", "dump"} => Len(buf[p]) = layer[p]
    /\ \A l \in Layers : file[l].state = "whole" => Len(file[l].data) = l

TypeInv == TypeOK /\ Shape

PCs == {"idle", "check", "read", "load", "build", "open", "dump"}
States == {"absent", "partial", "mixed", "whole"}
FileType == [state : States, data : Seq(Nat), mtime : Nat]

USE DEF PCs, States, FileType

(***************************************************************************)
(* A half written file is being written or was left so by a failure, and a *)
(* file that was accepted for reading exists.  Under the locks the write   *)
(* lock of a layer is held exactly by the process dumping it, no process   *)
(* loads it then, and the bytes of two writers never mix.                  *)
(***************************************************************************)
Locks ==
    /\ \A l \in Layers : file[l].state = "partial"
         => l \in broken \/ \E q \in Procs : pc[q] = "dump" /\ layer[q] = l
    /\ \A p \in Procs : pc[p] \in {"read", "load"}
         => file[layer[p]].state # "absent"
    /\ locking =>
         /\ \A l \in Layers : lock[l] # NoProc
              => pc[lock[l]] = "dump" /\ layer[lock[l]] = l
         /\ \A p \in Procs : pc[p] = "dump"
              => lock[layer[p]] = p /\ file[layer[p]].state = "partial"
         /\ \A p, q \in Procs : pc[p] = "dump" /\ pc[q] = "load"
              => layer[p] # layer[q]
         /\ \A l \in Layers : file[l].state # "mixed"

\* What a process is about to write was built from the present source.
Fresh ==
    QuietEdits =>
        /\ \A p \in Procs : pc[p] \in {"open", "dump"}
             => buf[p][layer[p]] = source[layer[p]].version
        /\ \A l \in Layers : file[l].state = "whole" /\ ~Stale(l)
             => file[l].data[l] = source[l].version

----------------------------------------------------------------------------
\* When a layer is served, the process has its data and nothing else changes
\* for the other processes.
LEMMA ServeShape ==
  ASSUME TypeInv, NEW p \in Procs, NEW data \in Seq(Nat),
         Len(data) = layer[p], pc[p] # "idle", Serve(p, data)
  PROVE  /\ pc' \in [Procs -> PCs]
         /\ layer' \in [Procs -> Layers]
         /\ force' \in [Procs -> BOOLEAN]
         /\ got' \in [Procs -> Seq(Seq(Nat))]
         /\ buf' \in [Procs -> Seq(Nat)]
         /\ \A q \in Procs : pc'[q] = "idle" => layer'[q] = 1
         /\ \A q \in Procs : pc'[q] # "idle" => Len(got'[q]) = layer'[q] - 1
         /\ \A q \in Procs : \A m \in 1..Len(got'[q]) : Len(got'[q][m]) = m
         /\ \A q \in Procs : pc'[q] \in {"open", "dump"} => Len(buf'[q]) = layer'[q]
         /\ pc'[p] \in {"idle", "check"}
         /\ \A q \in Procs \ {p} : pc'[q] = pc[q] /\ layer'[q] = layer[q]
                                  /\ buf'[q] = buf[q]
<1> USE DEF TypeInv
<1>1. /\ NLayers \in Nat /\ layer[p] \in Nat /\ layer[p] <= NLayers
      /\ layer[p] >= 1
  BY ConstantsAssumption DEF TypeOK, Layers
<1>2. /\ got[p] \in Seq(Seq(Nat)) /\ Len(got[p]) = layer[p] - 1
      /\ got' = [got EXCEPT ![p] = Append(got[p], data)]
      /\ buf' = [buf EXCEPT ![p] = <<>>]
  BY DEF TypeOK, Shape, Serve
<1>3. /\ Append(got[p], data) \in Seq(Seq(Nat))
      /\ Len(Append(got[p], data)) = layer[p]
      /\ \A m \in 1..Len(got[p]) : Append(got[p], data)[m] = got[p][m]
      /\ Append(got[p], data)[layer[p]] = data
  BY <1>1, <1>2, AppendProperties
<1>4. /\ got' \in [Procs -> Seq(Seq(Nat))] /\ buf' \in [Procs -> Seq(Nat)]
  BY <1>2, <1>3 DEF TypeOK
<1>5. ASSUME NEW q \in Procs, NEW m \in 1..Len(got'[q])
      PROVE  Len(got'[q][m]) = m
  <2>1. CASE q # p
    BY <1>2, <1>5, <2>1 DEF TypeOK, Shape
  <2>2. CASE q = p
    <3>1. got'[q] = Append(got[p], data)
      BY <1>2, <2>2 DEF TypeOK
    <3>2. m \in 1..layer[p]
      BY <3>1, <1>3, <1>5
    <3>3. CASE m = layer[p]
      BY <3>1, <3>3, <1>3
    <3>4. CASE m # layer[p]
      BY <3>1, <3>2, <3>4, <1>1, <1>2, <1>3 DEF Shape
    <3> QED BY <3>3, <3>4
  <2> QED BY <2>1, <2>2
<1>6. CASE layer[p] = NLayers
  <2>1. /\ pc' = [pc EXCEPT ![p] = "idle"]
        /\ layer' = [layer EXCEPT ![p] = 1]
        /\ force' = [force EXCEPT ![p] = FALSE]
    BY <1>6 DEF Serve, Goto
  <2>2. 1 \in Layers
    BY <1>1, ConstantsAssumption DEF Layers
  <2> QED BY <1>2, <1>3, <1>4, <1>5, <2>1, <2>2 DEF TypeOK, Shape
<1>7. CASE layer[p] # NLayers
  <2>1. /\ pc' = [pc EXCEPT ![p] = "check"]
        /\ layer' = [layer EXCEPT ![p] = layer[p] + 1]
        /\ force' = force
    BY <1>7, <1>1 DEF Serve, Goto, TypeOK
  <2>2. layer[p] + 1 \in Layers /\ layer[p] = layer[p] + 1 - 1
    BY <1>1, <1>7 DEF Layers
  <2>3. layer' \in [Procs -> Layers]
    BY <2>1, <2>2 DEF TypeOK
  <2>4. \A q \in Procs : pc'[q] # "idle" => Len(got'[q]) = layer'[q] - 1
    <3>1. ASSUME NEW q \in Procs, q # p, pc'[q] # "idle"
          PROVE  Len(got'[q]) = layer'[q] - 1
      BY <1>2, <2>1, <3>1 DEF TypeOK, Shape
    <3>2. got'[p] = Append(got[p], data) /\ layer'[p] = layer[p] + 1
      BY <1>2, <2>1 DEF TypeOK
    <3>3. Len(got'[p]) = layer'[p] - 1
      BY <1>1, <1>3, <3>2
    <3> QED BY <3>1, <3>3
  <2> QED BY <1>2, <1>4, <1>5, <2>1, <2>3, <2>4 DEF TypeOK, Shape
<1> QED BY <1>6, <1>7

\* The data Build makes has one entry more than that of the layer below.
LEMMA BuildShape ==
  ASSUME TypeInv, NEW p \in Procs, pc[p] # "idle", NEW v \in Nat
  PROVE  /\ Append(Below(p), v) \in Seq(Nat)
         /\ Len(Append(Below(p), v)) = layer[p]
         /\ Append(Below(p), v)[layer[p]] = v
<1>1. /\ layer[p] \in Nat /\ layer[p] >= 1
      /\ got[p] \in Seq(Seq(Nat)) /\ Len(got[p]) = layer[p] - 1
      /\ \A m \in 1..Len(got[p]) : Len(got[p][m]) = m
  <2>1. layer[p] \in Layers /\ got[p] \in Seq(Seq(Nat))
    BY DEF TypeInv, TypeOK
  <2>2. /\ Len(got[p]) = layer[p] - 1
        /\ \A m \in 1..Len(got[p]) : Len(got[p][m]) = m
    BY DEF TypeInv, Shape
  <2> QED BY <2>1, <2>2, ConstantsAssumption DEF Layers
<1>2. Below(p) \in Seq(Nat) /\ Len(Below(p)) = layer[p] - 1
  <2>1. CASE layer[p] = 1
    BY <1>1, <2>1 DEF Below
  <2>2. CASE layer[p] # 1
    <3>1. layer[p] - 1 \in 1..Len(got[p])
      BY <1>1, <2>2
    <3>2. Below(p) = got[p][layer[p] - 1]
      BY <2>2 DEF Below
    <3>3. got[p][layer[p] - 1] \in Seq(Nat)
      BY <1>1, <3>1, ElementOfSeq
    <3> QED BY <1>1, <3>1, <3>2, <3>3
  <2> QED BY <2>1, <2>2
<1> QED BY <1>1, <1>2, AppendProperties

LEMMA EmptySeqData == <<>> \in Seq(Nat)
  OBVIOUS

\* A step of DefinitionCache keeps the types and the shapes.
LEMMA TypeInvStep == TypeInv /\ [Next]_vars => TypeInv'
<1> SUFFICES ASSUME TypeInv, [Next]_vars PROVE TypeInv'
  OBVIOUS
<1>0. /\ \A l \in Layers : l \in Nat /\ l >= 1
      /\ 1 \in Layers
      /\ \A p \in Procs : layer[p] \in Layers
  BY ConstantsAssumption DEF Layers, TypeInv, TypeOK
<1>1. ASSUME NEW p \in Procs, Start(p) PROVE TypeInv'
  <2>1. TypeOK'
    <3>1. /\ pc' = [pc EXCEPT ![p] = "check"] /\ got' = [got EXCEPT ![p] = <<>>]
          /\ imports' = imports + 1 /\ calm' = [calm EXCEPT ![p] = TRUE]
          /\ UNCHANGED <<locking, clock, source, file, lock, broken, layer,
                         force, buf, nocache, failures>>
      BY <1>1 DEF Start, Goto, fileVars
    <3>2. disturbed' \in BOOLEAN
      BY <1>1 DEF Start, TypeInv, TypeOK
    <3> QED BY <3>1, <3>2 DEF TypeInv, TypeOK
  <2>2. /\ pc' = [pc EXCEPT ![p] = "check"] /\ got' = [got EXCEPT ![p] = <<>>]
        /\ pc[p] = "idle" /\ UNCHANGED <<file, layer, buf>>
    BY <1>1 DEF Start, Goto, fileVars
  <2>3. layer[p] = 1 /\ Len(<<>>) = 0
    BY <2>2 DEF TypeInv, Shape
  <2>4. Shape'
    BY <2>2, <2>3 DEF TypeInv, TypeOK, Shape
  <2> QED BY <2>1, <2>4 DEF TypeInv
<1>2. ASSUME NEW p \in Procs, Check(p) PROVE TypeInv'
  <2>1. TypeOK'
    BY <1>2 DEF Check, Goto, UpdateNeeded, Stale, TypeInv, TypeOK, fileVars
  <2>2. Shape'
    BY <1>2 DEF Check, Goto, TypeInv, TypeOK, Shape, fileVars
  <2> QED BY <2>1, <2>2 DEF TypeInv
<1>3. ASSUME NEW p \in Procs, Load(p) PROVE TypeInv'
  <2>1. CASE file[layer[p]].state = "whole"
    <3>1. /\ file[layer[p]].data \in Seq(Nat)
          /\ Len(file[layer[p]].data) = layer[p]
      BY <1>0, <2>1 DEF TypeInv, TypeOK, Shape
    <3>2. Serve(p, file[layer[p]].data) /\ pc[p] # "idle"
      BY <1>3, <2>1 DEF Load
    <3>3. UNCHANGED <<clock, fileVars, nocache, imports, failures, disturbed,
                      calm>>
      BY <1>3 DEF Load
    <3>4. TypeOK' /\ Shape'
      BY <3>1, <3>2, <3>3, ServeShape DEF TypeInv, TypeOK, Shape, fileVars
    <3> QED BY <3>4 DEF TypeInv
  <2>2. CASE file[layer[p]].state # "whole"
    <3>1. TypeOK'
      BY <1>3, <2>2 DEF Load, Goto, TypeInv, TypeOK, fileVars
    <3>2. Shape'
      BY <1>3, <2>2 DEF Load, Goto, TypeInv, TypeOK, Shape, fileVars
    <3> QED BY <3>1, <3>2 DEF TypeInv
  <2> QED BY <2>1, <2>2
<1>14. ASSUME NEW p \in Procs, Read(p) \/ ReadFails(p) PROVE TypeInv'
  <2>1. /\ pc[p] \in {"read", "load"}
        /\ \E label \in {"load", "build"} : pc' = [pc EXCEPT ![p] = label]
        /\ failures' \in Nat /\ disturbed' \in BOOLEAN
        /\ UNCHANGED <<clock, fileVars, layer, force, got, buf, nocache,
                       imports, calm>>
    <3>1. CASE Read(p)
      BY <3>1 DEF Read, Goto, TypeInv, TypeOK
    <3>2. CASE ReadFails(p)
      BY <3>2 DEF ReadFails, Failure, Goto, TypeInv, TypeOK
    <3> QED BY <1>14, <3>1, <3>2
  <2>2. TypeOK'
    BY <2>1 DEF TypeInv, TypeOK, fileVars
  <2>3. Shape'
    BY <2>1 DEF TypeInv, TypeOK, Shape, fileVars
  <2> QED BY <2>2, <2>3 DEF TypeInv
<1>4. ASSUME NEW p \in Procs, Build(p) PROVE TypeInv'
  <2> DEFINE data == Append(Below(p), source[layer[p]].version)
  <2>1. data \in Seq(Nat) /\ Len(data) = layer[p]
    BY <1>0, <1>4, BuildShape DEF Build, TypeInv, TypeOK
  <2>2. /\ pc[p] = "build" /\ pc' = [pc EXCEPT ![p] = "open"]
        /\ buf' = [buf EXCEPT ![p] = data]
        /\ UNCHANGED <<clock, fileVars, layer, force, got, nocache, imports,
                       failures, disturbed, calm>>
    BY <1>4 DEF Build, Goto
  <2> HIDE DEF data
  <2>3. TypeOK'
    BY <2>1, <2>2 DEF TypeInv, TypeOK, fileVars
  <2>4. Shape'
    BY <2>1, <2>2 DEF TypeInv, TypeOK, Shape, fileVars
  <2> QED BY <2>3, <2>4 DEF TypeInv
<1>5. ASSUME NEW p \in Procs, Open(p) PROVE TypeInv'
  <2>1. /\ pc[p] = "open" /\ pc' = [pc EXCEPT ![p] = "dump"]
        /\ \E f \in {Partial, Mixed} : file' = [file EXCEPT ![layer[p]] = f]
        /\ lock' \in [Layers -> Procs \cup {NoProc}]
        /\ broken' = broken \ {layer[p]}
        /\ UNCHANGED <<locking, clock, source, layer, force, got, buf, nocache,
                       imports, failures, disturbed, calm>>
    BY <1>0, <1>5 DEF Open, Goto, TypeInv, TypeOK
  <2>2. /\ {Partial, Mixed} \subseteq FileType
        /\ Partial.state # "whole" /\ Mixed.state # "whole"
    BY EmptySeqData DEF Partial, Mixed, TypeInv, TypeOK
  <2>3. /\ file' \in [Layers -> FileType]
        /\ \A l \in Layers : file'[l].state = "whole" => Len(file'[l].data) = l
    <3>1. PICK f \in {Partial, Mixed} : file' = [file EXCEPT ![layer[p]] = f]
      BY <2>1
    <3>2. f \in FileType /\ f.state # "whole"
      BY <2>2
    <3> HIDE DEF FileType
    <3>3. file \in [Layers -> FileType]
      BY DEF TypeInv, TypeOK, FileType
    <3>4. /\ file' \in [Layers -> FileType]
          /\ \A l \in Layers : file'[l] = IF l = layer[p] THEN f ELSE file[l]
      BY <3>1, <3>2, <3>3
    <3> QED BY <3>2, <3>4 DEF TypeInv, Shape
  <2>4. TypeOK'
    BY <2>1, <2>3 DEF TypeInv, TypeOK
  <2>5. Shape'
    BY <2>1, <2>3 DEF TypeInv, TypeOK, Shape
  <2> QED BY <2>4, <2>5 DEF TypeInv
<1>6. ASSUME NEW p \in Procs, LockTimeout(p) \/ LockFails(p) \/ OpenFails(p)
      PROVE  TypeInv'
  <2>1. /\ buf[p] \in Seq(Nat) /\ Len(buf[p]) = layer[p] /\ pc[p] # "idle"
        /\ Serve(p, buf[p])
        /\ nocache' \in [Procs -> BOOLEAN]
        /\ failures' \in Nat /\ disturbed' \in BOOLEAN
        /\ UNCHANGED <<clock, fileVars, imports, calm>>
    <3>1. CASE LockTimeout(p)
      BY <3>1 DEF LockTimeout, TypeInv, TypeOK, Shape
    <3>2. CASE LockFails(p)
      BY <3>2 DEF LockFails, Failure, TypeInv, TypeOK, Shape
    <3>3. CASE OpenFails(p)
      BY <3>3 DEF OpenFails, Failure, TypeInv, TypeOK, Shape
    <3> QED BY <1>6, <3>1, <3>2, <3>3
  <2>2. TypeOK' /\ Shape'
    BY <2>1, ServeShape DEF TypeInv, TypeOK, Shape, fileVars
  <2> QED BY <2>2 DEF TypeInv
\* The end of a dump, or its middle, leaves a file of the right shape.
<1>7. ASSUME NEW p \in Procs, Dump(p) \/ StopsWriting(p), pc[p] = "dump"
      PROVE  /\ file' \in [Layers -> FileType]
             /\ \A l \in Layers : file'[l].state = "whole" => Len(file'[l].data) = l
             /\ lock' \in [Layers -> Procs \cup {NoProc}]
             /\ broken' \in SUBSET Layers
  <2>1. buf[p] \in Seq(Nat) /\ Len(buf[p]) = layer[p] /\ layer[p] \in Layers
    BY <1>0, <1>7 DEF TypeInv, TypeOK, Shape
  <2>2. /\ \/ UNCHANGED file
           \/ \E f \in {Whole(buf[p]), Mixed} : file' = [file EXCEPT ![layer[p]] = f]
        /\ lock' = [lock EXCEPT ![layer[p]] = NoProc]
        /\ broken' = broken \/ broken' = broken \cup {layer[p]}
    BY <1>7 DEF Dump, StopsWriting, Release
  <2>3. /\ Whole(buf[p]) \in FileType /\ Mixed \in FileType
        /\ Mixed.state # "whole" /\ Whole(buf[p]).data = buf[p]
    BY <2>1, EmptySeqData DEF Whole, Mixed, TypeInv, TypeOK
  <2>4. /\ file' \in [Layers -> FileType]
        /\ \A l \in Layers : file'[l].state = "whole" => Len(file'[l].data) = l
    <3> HIDE DEF FileType
    <3>1. file \in [Layers -> FileType]
      BY DEF TypeInv, TypeOK, FileType
    <3>2. ASSUME NEW f \in {Whole(buf[p]), Mixed},
                 file' = [file EXCEPT ![layer[p]] = f]
          PROVE  /\ file' \in [Layers -> FileType]
                 /\ \A l \in Layers :
                      file'[l].state = "whole" => Len(file'[l].data) = l
      <4>1. f \in FileType /\ (f.state = "whole" => Len(f.data) = layer[p])
        BY <2>1, <2>3
      <4>2. /\ file' \in [Layers -> FileType]
            /\ \A l \in Layers : file'[l] = IF l = layer[p] THEN f ELSE file[l]
        BY <3>1, <3>2, <4>1
      <4> QED BY <4>1, <4>2 DEF TypeInv, Shape
    <3> QED BY <2>2, <3>1, <3>2 DEF TypeInv, Shape
  <2>5. lock' \in [Layers -> Procs \cup {NoProc}] /\ broken' \in SUBSET Layers
    BY <2>1, <2>2 DEF TypeInv, TypeOK
  <2> QED BY <2>4, <2>5
<1>8. ASSUME NEW p \in Procs, Dump(p) \/ DumpFails(p) PROVE TypeInv'
  <2>1. /\ buf[p] \in Seq(Nat) /\ Len(buf[p]) = layer[p] /\ pc[p] # "idle"
        /\ Serve(p, buf[p])
        /\ nocache' \in [Procs -> BOOLEAN]
        /\ failures' \in Nat /\ disturbed' \in BOOLEAN
        /\ UNCHANGED <<locking, clock, source, imports, calm>>
    <3>1. CASE Dump(p)
      BY <3>1 DEF Dump, TypeInv, TypeOK, Shape
    <3>2. CASE DumpFails(p)
      BY <3>2 DEF DumpFails, Failure, TypeInv, TypeOK, Shape
    <3> QED BY <1>8, <3>1, <3>2
  <2>2. (Dump(p) \/ StopsWriting(p)) /\ pc[p] = "dump"
    BY <1>8 DEF Dump, DumpFails
  <2>3. TypeOK' /\ Shape'
    BY <1>7, <2>1, <2>2, ServeShape DEF TypeInv, TypeOK, Shape
  <2> QED BY <2>3 DEF TypeInv
<1>10. ASSUME NEW p \in Procs, Crash(p) PROVE TypeInv'
  <2>1. /\ file' \in [Layers -> FileType]
        /\ \A l \in Layers : file'[l].state = "whole" => Len(file'[l].data) = l
        /\ lock' \in [Layers -> Procs \cup {NoProc}]
        /\ broken' \in SUBSET Layers
    <3>1. CASE pc[p] = "dump"
      BY <1>7, <1>10, <3>1 DEF Crash
    <3>2. CASE pc[p] # "dump"
      BY <1>10, <3>2 DEF Crash, TypeInv, TypeOK, Shape
    <3> QED BY <3>1, <3>2
  <2>2. TypeOK'
    <3>1. /\ pc' = [pc EXCEPT ![p] = "idle"] /\ layer' = [layer EXCEPT ![p] = 1]
          /\ force' = [force EXCEPT ![p] = FALSE]
          /\ got' = [got EXCEPT ![p] = <<>>] /\ buf' = [buf EXCEPT ![p] = <<>>]
          /\ nocache' = [nocache EXCEPT ![p] = FALSE] /\ disturbed' = TRUE
          /\ failures' = failures + 1
          /\ UNCHANGED <<locking, clock, source, imports, calm>>
      BY <1>10 DEF Crash, Failure, Goto
    <3>2. /\ pc' \in [Procs -> PCs] /\ failures' \in Nat
          /\ layer' \in [Procs -> Layers] /\ force' \in [Procs -> BOOLEAN]
          /\ nocache' \in [Procs -> BOOLEAN]
      BY <1>0, <3>1 DEF TypeInv, TypeOK
    <3>3. got' \in [Procs -> Seq(Seq(Nat))] /\ buf' \in [Procs -> Seq(Nat)]
      BY <3>1 DEF TypeInv, TypeOK
    <3> QED BY <2>1, <3>1, <3>2, <3>3 DEF TypeInv, TypeOK
  <2>3. \A q \in Procs :
          /\ pc'[q] = IF q = p THEN "idle" ELSE pc[q]
          /\ layer'[q] = IF q = p THEN 1 ELSE layer[q]
          /\ got'[q] = IF q = p THEN <<>> ELSE got[q]
          /\ buf'[q] = IF q = p THEN <<>> ELSE buf[q]
    BY <1>10 DEF Crash, Goto, TypeInv, TypeOK
  <2>4. Len(<<>>) = 0
    OBVIOUS
  <2>5. Shape'
    BY <2>1, <2>3, <2>4 DEF TypeInv, Shape
  <2> QED BY <2>2, <2>5 DEF TypeInv
<1>11. ASSUME NEW l \in Layers, Edit(l) PROVE TypeInv'
  <2>1. TypeOK'
    BY <1>11 DEF Edit, procVars, TypeInv, TypeOK
  <2>2. Shape'
    BY <1>11 DEF Edit, procVars, TypeInv, TypeOK, Shape
  <2> QED BY <2>1, <2>2 DEF TypeInv
<1>12. CASE Tick
  BY <1>12 DEF Tick, fileVars, procVars, TypeInv, TypeOK, Shape
<1>13. CASE UNCHANGED vars
  BY <1>13 DEF vars, fileVars, procVars, TypeInv, TypeOK, Shape
<1> QED BY <1>1, <1>2, <1>3, <1>4, <1>5, <1>6, <1>8, <1>10, <1>11, <1>12,
           <1>13, <1>14 DEF Next, Step

\* The initial state has the types and the shapes.
LEMMA InitTypeInv == Init => TypeInv
<1> SUFFICES ASSUME Init PROVE TypeInv
  OBVIOUS
<1>1. 1 \in Layers /\ Len(<<>>) = 0
  BY ConstantsAssumption DEF Layers
<1>2. <<>> \in Seq(Nat) /\ <<>> \in Seq(Seq(Nat))
  OBVIOUS
<1>3. NoFile \in FileType
  BY <1>2 DEF NoFile
<1>4. /\ locking \in BOOLEAN /\ failures \in Nat
      /\ clock \in Nat /\ imports \in Nat /\ broken \in SUBSET Layers
      /\ source \in [Layers -> [version : Nat, mtime : Nat]]
      /\ lock \in [Layers -> Procs \cup {NoProc}]
      /\ disturbed \in BOOLEAN
  BY DEF Init
<1>5. /\ pc \in [Procs -> PCs]
      /\ layer \in [Procs -> Layers]
      /\ force \in [Procs -> BOOLEAN]
      /\ nocache \in [Procs -> BOOLEAN]
      /\ calm \in [Procs -> BOOLEAN]
  BY <1>1 DEF Init
<1>6. /\ file \in [Layers -> FileType]
      /\ got \in [Procs -> Seq(Seq(Nat))]
      /\ buf \in [Procs -> Seq(Nat)]
  BY <1>2, <1>3 DEF Init
<1>7. Shape
  BY <1>1 DEF Init, NoFile, Shape
<1> QED BY <1>4, <1>5, <1>6, <1>7 DEF TypeInv, TypeOK

\* The state keeps its types, whatever the imports, edits and failures.
THEOREM TypeCorrect == Spec => []TypeOK
<1>1. TypeInv => TypeOK
  BY DEF TypeInv
<1> QED BY <1>1, InitTypeInv, TypeInvStep, PTL DEF Spec

----------------------------------------------------------------------------
\* What serving a layer does to the control state of the processes.
LEMMA ServeControl ==
  ASSUME TypeInv, NEW p \in Procs, NEW data, Serve(p, data)
  PROVE  /\ pc'[p] \in {"idle", "check"}
         /\ \A q \in Procs : q # p => /\ pc'[q] = pc[q]
                                      /\ layer'[q] = layer[q]
                                      /\ buf'[q] = buf[q]
<1>1. CASE layer[p] = NLayers
  BY <1>1 DEF Serve, Goto, TypeInv, TypeOK
<1>2. CASE layer[p] # NLayers
  BY <1>2 DEF Serve, Goto, TypeInv, TypeOK
<1> QED BY <1>1, <1>2

\* A step keeps the relation between locks, files and processes.
LEMMA LocksStep == TypeInv /\ Locks /\ [Next]_vars => Locks'
<1> SUFFICES ASSUME TypeInv, Locks, [Next]_vars PROVE Locks'
  OBVIOUS
<1>0. /\ \A p \in Procs : layer[p] \in Layers
      /\ NoProc \notin Procs
      /\ \A l \in Layers : lock[l] \in Procs \cup {NoProc}
  BY ConstantsAssumption DEF TypeInv, TypeOK
\* A step of a process that does not write.
<1>1. ASSUME NEW p \in Procs, UNCHANGED <<locking, file, lock, broken>>,
             \A q \in Procs : q # p => pc'[q] = pc[q] /\ layer'[q] = layer[q],
             pc[p] # "dump", pc'[p] # "dump",
             pc'[p] \in {"read", "load"}
               => layer'[p] = layer[p] /\ file[layer[p]].state # "absent",
             pc'[p] = "load" => ReadLock(layer[p])
      PROVE  Locks'
  <2>1. \A l \in Layers : file'[l].state = "partial"
          => l \in broken' \/ \E q \in Procs : pc'[q] = "dump" /\ layer'[q] = l
    <3> SUFFICES ASSUME NEW l \in Layers, file[l].state = "partial",
                        l \notin broken
                 PROVE  \E q \in Procs : pc'[q] = "dump" /\ layer'[q] = l
      BY <1>1
    <3>1. PICK q \in Procs : pc[q] = "dump" /\ layer[q] = l
      BY DEF Locks
    <3> QED BY <1>1, <3>1
  <2>2. \A q \in Procs : pc'[q] \in {"read", "load"}
          => file'[layer'[q]].state # "absent"
    BY <1>1 DEF Locks
  <2>3. ASSUME locking
        PROVE  /\ \A l \in Layers : lock[l] # NoProc
                    => pc'[lock[l]] = "dump" /\ layer'[lock[l]] = l
               /\ \A q \in Procs : pc'[q] = "dump"
                    => /\ lock[layer'[q]] = q
                       /\ file[layer'[q]].state = "partial"
    BY <1>0, <1>1, <2>3 DEF Locks
  <2>4. ASSUME locking, NEW q \in Procs, NEW r \in Procs,
               pc'[q] = "dump", pc'[r] = "load"
        PROVE  layer'[q] # layer'[r]
    <3>1. pc[q] = "dump" /\ layer'[q] = layer[q] /\ lock[layer[q]] = q
      BY <1>1, <2>4 DEF Locks
    <3>2. CASE r = p
      BY <1>0, <1>1, <2>4, <3>1, <3>2 DEF ReadLock
    <3>3. CASE r # p
      BY <1>1, <2>4, <3>1, <3>3 DEF Locks
    <3> QED BY <3>2, <3>3
  <2>5. locking => \A l \in Layers : file'[l].state # "mixed"
    BY <1>1 DEF Locks
  <2> QED BY <1>1, <2>1, <2>2, <2>3, <2>4, <2>5 DEF Locks
<1>2. ASSUME NEW p \in Procs, Start(p) \/ Build(p) \/ ReadFails(p) PROVE Locks'
  <2>1. /\ UNCHANGED <<locking, file, lock, broken, layer>>
        /\ pc[p] # "dump" /\ pc'[p] \notin {"dump", "read", "load"}
        /\ \A q \in Procs : q # p => pc'[q] = pc[q]
    <3>1. CASE Start(p)
      BY <3>1 DEF Start, Goto, TypeInv, TypeOK, fileVars
    <3>2. CASE Build(p) \/ ReadFails(p)
      BY <3>2 DEF Build, ReadFails, Goto, TypeInv, TypeOK, fileVars
    <3> QED BY <1>2, <3>1, <3>2
  <2> QED BY <1>1, <2>1
<1>3. ASSUME NEW p \in Procs, Check(p) PROVE Locks'
  <2>1. /\ pc[p] = "check" /\ UNCHANGED <<locking, file, lock, broken, layer>>
        /\ pc' = [pc EXCEPT ![p] = IF force'[p] THEN "build" ELSE "read"]
        /\ ~force'[p] => file[layer[p]].state # "absent"
    BY <1>3 DEF Check, Goto, UpdateNeeded, Stale, TypeInv, TypeOK, fileVars
  <2>2. /\ pc'[p] = IF force'[p] THEN "build" ELSE "read"
        /\ \A q \in Procs : q # p => pc'[q] = pc[q]
    BY <2>1 DEF TypeInv, TypeOK
  <2> QED BY <1>1, <2>1, <2>2
<1>4. ASSUME NEW p \in Procs, Read(p) PROVE Locks'
  <2>1. /\ UNCHANGED <<locking, file, lock, broken, layer>>
        /\ pc[p] = "read" /\ pc'[p] = "load" /\ ReadLock(layer[p])
        /\ \A q \in Procs : q # p => pc'[q] = pc[q]
    BY <1>4 DEF Read, Goto, TypeInv, TypeOK, fileVars
  <2>2. file[layer[p]].state # "absent"
    BY <2>1 DEF Locks
  <2> QED BY <1>1, <2>1, <2>2
<1>5. ASSUME NEW p \in Procs, Load(p) PROVE Locks'
  <2>1. /\ pc[p] = "load" /\ UNCHANGED <<locking, file, lock, broken>>
        /\ pc'[p] \in {"idle", "check", "build"}
        /\ \A q \in Procs : q # p => pc'[q] = pc[q] /\ layer'[q] = layer[q]
    <3>1. CASE file[layer[p]].state = "whole"
      BY <1>5, <3>1, ServeControl DEF Load, fileVars
    <3>2. CASE file[layer[p]].state # "whole"
      BY <1>5, <3>2 DEF Load, Goto, TypeInv, TypeOK, fileVars
    <3> QED BY <3>1, <3>2
  <2> QED BY <1>1, <2>1
<1>6. ASSUME NEW p \in Procs, LockTimeout(p) \/ LockFails(p) \/ OpenFails(p)
      PROVE  Locks'
  <2>1. pc[p] = "open" /\ UNCHANGED <<locking, file, lock, broken>>
    BY <1>6 DEF LockTimeout, LockFails, OpenFails, fileVars
  <2>2. Serve(p, buf[p])
    BY <1>6 DEF LockTimeout, LockFails, OpenFails
  <2> QED BY <1>1, <2>1, <2>2, ServeControl
<1>7. ASSUME NEW p \in Procs, Open(p) PROVE Locks'
  <2> DEFINE l == layer[p]
  <2>1. /\ pc[p] = "open" /\ UNCHANGED <<locking, layer>>
        /\ WriteLock(l) /\ broken' = broken \ {l}
        /\ pc' = [pc EXCEPT ![p] = "dump"]
        /\ lock' = IF locking THEN [lock EXCEPT ![l] = p] ELSE lock
        /\ file' = [file EXCEPT ![l] = IF Writers(l) = {} THEN Partial ELSE Mixed]
    BY <1>7 DEF Open, Goto
  <2>2. /\ \A q \in Procs : pc'[q] = IF q = p THEN "dump" ELSE pc[q]
        /\ locking => \A m \in Layers : lock'[m] = IF m = l THEN p ELSE lock[m]
        /\ \A m \in Layers : m # l => file'[m] = file[m]
        /\ file'[l].state = IF Writers(l) = {} THEN "partial" ELSE "mixed"
    BY <1>0, <2>1 DEF TypeInv, TypeOK, Partial, Mixed
  <2> HIDE DEF l
  <2>3. l \in Layers /\ l = layer[p]
    BY <1>0 DEF l
  <2>4. \A m \in Layers : file'[m].state = "partial"
          => m \in broken' \/ \E q \in Procs : pc'[q] = "dump" /\ layer'[q] = m
    <3>1. pc'[p] = "dump" /\ layer'[p] = l
      BY <2>1, <2>2, <2>3
    <3>2. ASSUME NEW m \in Layers, m # l, file'[m].state = "partial",
                 m \notin broken'
          PROVE  \E q \in Procs : pc'[q] = "dump" /\ layer'[q] = m
      <4>1. file[m].state = "partial" /\ m \notin broken
        BY <2>1, <2>2, <3>2
      <4>2. PICK q \in Procs : pc[q] = "dump" /\ layer[q] = m
        BY <4>1 DEF Locks
      <4> QED BY <2>1, <2>2, <4>2
    <3> QED BY <3>1, <3>2
  <2>5. \A q \in Procs : pc'[q] \in {"read", "load"}
          => file'[layer'[q]].state # "absent"
    BY <1>0, <2>1, <2>2, <2>3 DEF Locks
  <2>6. ASSUME locking
        PROVE  /\ \A m \in Layers : lock'[m] # NoProc
                    => pc'[lock'[m]] = "dump" /\ layer'[lock'[m]] = m
               /\ \A q \in Procs : pc'[q] = "dump"
                    => /\ lock'[layer'[q]] = q
                       /\ file'[layer'[q]].state = "partial"
               /\ \A q, r \in Procs : pc'[q] = "dump" /\ pc'[r] = "load"
                    => layer'[q] # layer'[r]
               /\ \A m \in Layers : file'[m].state # "mixed"
    <3>1. lock[l] = NoProc /\ Readers(l) = {}
      BY <2>1, <2>6 DEF WriteLock
    <3>2. \A q \in Procs : pc[q] = "dump" => layer[q] # l
      BY <1>0, <2>3, <2>6, <3>1 DEF Locks
    <3>3. Writers(l) = {}
      BY <3>2 DEF Writers
    <3>4. \A q \in Procs : pc[q] = "load" => layer[q] # l
      BY <3>1 DEF Readers
    <3>5. \A m \in Layers : lock'[m] # NoProc
            => pc'[lock'[m]] = "dump" /\ layer'[lock'[m]] = m
      BY <1>0, <2>1, <2>2, <2>3, <2>6 DEF Locks
    <3>6. ASSUME NEW q \in Procs, pc'[q] = "dump"
          PROVE  lock'[layer'[q]] = q /\ file'[layer'[q]].state = "partial"
      <4>1. CASE q = p
        BY <2>1, <2>2, <2>3, <2>6, <3>3, <4>1
      <4>2. CASE q # p
        <5>1. pc[q] = "dump" /\ layer[q] # l /\ layer[q] \in Layers
          BY <1>0, <2>2, <3>2, <3>6, <4>2
        <5> QED BY <2>1, <2>2, <2>6, <5>1 DEF Locks
      <4> QED BY <4>1, <4>2
    <3>7. ASSUME NEW q \in Procs, NEW r \in Procs,
                 pc'[q] = "dump", pc'[r] = "load"
          PROVE  layer'[q] # layer'[r]
      <4>1. pc[r] = "load" /\ layer[r] # l
        BY <2>2, <3>4, <3>7
      <4>2. CASE q = p
        BY <2>1, <2>3, <4>1, <4>2
      <4>3. CASE q # p
        BY <2>1, <2>2, <2>6, <3>7, <4>1, <4>3 DEF Locks
      <4> QED BY <4>2, <4>3
    <3>8. \A m \in Layers : file'[m].state # "mixed"
      BY <2>2, <2>6, <3>3 DEF Locks
    <3> QED BY <3>5, <3>6, <3>7, <3>8
  <2> QED BY <2>1, <2>4, <2>5, <2>6 DEF Locks
\* The end of a dump, or its middle.
<1>8. ASSUME NEW p \in Procs, pc[p] = "dump", Dump(p) \/ StopsWriting(p),
             UNCHANGED locking, pc'[p] \in {"idle", "check"},
             \A q \in Procs : q # p => pc'[q] = pc[q] /\ layer'[q] = layer[q]
      PROVE  Locks'
  <2> DEFINE l == layer[p]
  <2>1. /\ lock' = [lock EXCEPT ![l] = NoProc] /\ broken \subseteq broken'
        /\ \A m \in Layers : m # l => file'[m] = file[m]
        /\ \/ file'[l].state = "whole"
           \/ file'[l].state = "mixed" /\ file[l].state # "partial"
           \/ file'[l] = file[l] /\ l \in broken'
    <3>1. CASE Dump(p)
      <4>1. /\ lock' = [lock EXCEPT ![l] = NoProc] /\ broken' = broken
            /\ \/ file' = [file EXCEPT ![l] = Whole(buf[p])]
               \/ /\ file[l].state # "partial"
                  /\ file' = [file EXCEPT ![l] = Mixed]
        BY <3>1 DEF Dump, Release
      <4>2. Mixed.state = "mixed" /\ Whole(buf[p]).state = "whole"
        BY DEF Mixed, Whole
      <4>3. l \in Layers
        BY <1>0
      <4> HIDE DEF l
      <4>4. ASSUME NEW f, file' = [file EXCEPT ![l] = f]
            PROVE  file'[l] = f /\ \A m \in Layers : m # l => file'[m] = file[m]
        BY <4>3, <4>4 DEF TypeInv, TypeOK
      <4>5. CASE file' = [file EXCEPT ![l] = Whole(buf[p])]
        BY <4>1, <4>2, <4>4, <4>5
      <4>6. CASE file[l].state # "partial" /\ file' = [file EXCEPT ![l] = Mixed]
        BY <4>1, <4>2, <4>4, <4>6
      <4> QED BY <4>1, <4>5, <4>6
    <3>2. CASE StopsWriting(p)
      <4>1. /\ lock' = [lock EXCEPT ![l] = NoProc]
            /\ broken' = broken \cup {l}
            /\ \/ file' = file
               \/ /\ file[l].state = "whole"
                  /\ file' = [file EXCEPT ![l] = Mixed]
        BY <3>2 DEF StopsWriting, Release
      <4>2. Mixed.state = "mixed"
        BY DEF Mixed
      <4> HIDE DEF l
      <4>3. CASE file' = file
        BY <4>1, <4>3
      <4>4. CASE file[l].state = "whole" /\ file' = [file EXCEPT ![l] = Mixed]
        <5>1. file'[l] = Mixed /\ \A m \in Layers : m # l => file'[m] = file[m]
          BY <1>0, <4>4 DEF l, TypeInv, TypeOK
        <5> QED BY <4>1, <4>2, <4>4, <5>1
      <4> QED BY <4>1, <4>3, <4>4
    <3> QED BY <1>8, <3>1, <3>2
  <2> HIDE DEF l
  <2>2. l \in Layers /\ l = layer[p]
    BY <1>0 DEF l
  <2>3. \A m \in Layers : lock'[m] = IF m = l THEN NoProc ELSE lock[m]
    BY <2>1, <2>2 DEF TypeInv, TypeOK
  <2>5. \A m \in Layers : file'[m].state = "partial"
          => m \in broken' \/ \E q \in Procs : pc'[q] = "dump" /\ layer'[q] = m
    <3>1. ASSUME NEW m \in Layers, m # l, file'[m].state = "partial",
                 m \notin broken'
          PROVE  \E q \in Procs : pc'[q] = "dump" /\ layer'[q] = m
      <4>1. file[m].state = "partial" /\ m \notin broken
        BY <2>1, <3>1
      <4>2. PICK q \in Procs : pc[q] = "dump" /\ layer[q] = m
        BY <4>1 DEF Locks
      <4>3. q # p
        BY <2>2, <3>1, <4>2
      <4> QED BY <1>8, <4>2, <4>3
    <3>2. file'[l].state = "partial" => l \in broken'
      BY <2>1
    <3> QED BY <3>1, <3>2
  <2>6. \A q \in Procs : pc'[q] \in {"read", "load"}
          => file'[layer'[q]].state # "absent"
    <3> SUFFICES ASSUME NEW q \in Procs, pc'[q] \in {"read", "load"}
                 PROVE  file'[layer'[q]].state # "absent"
      OBVIOUS
    <3>1. /\ pc[q] \in {"read", "load"} /\ layer'[q] = layer[q]
          /\ file[layer[q]].state # "absent"
      BY <1>8 DEF Locks
    <3> QED BY <1>0, <2>1, <3>1
  <2>7. ASSUME locking
        PROVE  /\ \A m \in Layers : lock'[m] # NoProc
                    => pc'[lock'[m]] = "dump" /\ layer'[lock'[m]] = m
               /\ \A q \in Procs : pc'[q] = "dump"
                    => /\ lock'[layer'[q]] = q
                       /\ file'[layer'[q]].state = "partial"
               /\ \A q, r \in Procs : pc'[q] = "dump" /\ pc'[r] = "load"
                    => layer'[q] # layer'[r]
               /\ \A m \in Layers : file'[m].state # "mixed"
    <3>1. lock[l] = p /\ file[l].state = "partial"
      BY <1>8, <2>2, <2>7 DEF Locks
    <3>2. \A m \in Layers : lock'[m] # NoProc
            => pc'[lock'[m]] = "dump" /\ layer'[lock'[m]] = m
      <4> SUFFICES ASSUME NEW m \in Layers, lock'[m] # NoProc
                   PROVE  pc'[lock'[m]] = "dump" /\ layer'[lock'[m]] = m
        OBVIOUS
      <4>1. m # l /\ lock'[m] = lock[m]
        BY <2>3
      <4>2. lock[m] \in Procs /\ pc[lock[m]] = "dump" /\ layer[lock[m]] = m
        BY <1>0, <2>7, <4>1 DEF Locks
      <4>3. lock[m] # p
        BY <2>2, <4>1, <4>2
      <4> QED BY <1>8, <4>1, <4>2, <4>3
    <3>3. ASSUME NEW q \in Procs, pc'[q] = "dump"
          PROVE  lock'[layer'[q]] = q /\ file'[layer'[q]].state = "partial"
      <4>1. q # p /\ pc[q] = "dump" /\ layer'[q] = layer[q]
        BY <1>8, <3>3
      <4>2. lock[layer[q]] = q /\ file[layer[q]].state = "partial"
        BY <2>7, <4>1 DEF Locks
      <4>3. layer[q] # l /\ layer[q] \in Layers
        BY <1>0, <3>1, <4>1, <4>2
      <4> QED BY <2>1, <2>3, <4>1, <4>2, <4>3
    <3>5. \A q, r \in Procs : pc'[q] = "dump" /\ pc'[r] = "load"
            => layer'[q] # layer'[r]
      BY <1>8, <2>7 DEF Locks
    <3>4. \A m \in Layers : file'[m].state # "mixed"
      <4>1. \A m \in Layers : file[m].state # "mixed"
        BY <2>7 DEF Locks
      <4>2. file'[l].state # "mixed"
        BY <2>1, <2>2, <3>1
      <4> QED BY <2>1, <4>1, <4>2
    <3> QED BY <3>2, <3>3, <3>4, <3>5
  <2> QED BY <1>8, <2>5, <2>6, <2>7 DEF Locks
<1>9. ASSUME NEW p \in Procs, Dump(p) \/ DumpFails(p) PROVE Locks'
  <2>1. /\ Serve(p, buf[p]) /\ pc[p] = "dump" /\ UNCHANGED locking
        /\ Dump(p) \/ StopsWriting(p)
    BY <1>9 DEF Dump, DumpFails
  <2> QED BY <1>8, <2>1, ServeControl
<1>10. ASSUME NEW p \in Procs, Crash(p) PROVE Locks'
  <2>1. /\ pc'[p] = "idle" /\ UNCHANGED locking
        /\ \A q \in Procs : q # p => pc'[q] = pc[q] /\ layer'[q] = layer[q]
    BY <1>10 DEF Crash, Goto, TypeInv, TypeOK
  <2>2. CASE pc[p] = "dump"
    BY <1>8, <1>10, <2>1, <2>2 DEF Crash
  <2>3. CASE pc[p] # "dump"
    BY <1>1, <1>10, <2>1, <2>3 DEF Crash
  <2> QED BY <2>2, <2>3
<1>11. ASSUME (\E l \in Layers : Edit(l)) \/ Tick \/ UNCHANGED vars
       PROVE  Locks'
  <2>1. UNCHANGED <<locking, file, lock, broken, pc, layer>>
    BY <1>11 DEF Edit, Tick, vars, fileVars, procVars
  <2> QED BY <2>1 DEF Locks
<1> QED BY <1>2, <1>3, <1>4, <1>5, <1>6, <1>7, <1>9, <1>10, <1>11
        DEF Next, Step

LEMMA InitLocks == Init => Locks
<1> SUFFICES ASSUME Init PROVE Locks
  OBVIOUS
<1>1. /\ \A l \in Layers : file[l].state = "absent" /\ lock[l] = NoProc
      /\ \A p \in Procs : pc[p] = "idle"
  BY DEF Init, NoFile
<1> QED BY <1>1 DEF Locks

\* Under the locks no process loads a cache file while another one writes it,
\* so that what it finds is whole unless a failure left the file half written
\* (cache.py 123-161 and 188-235).
THEOREM NoWriteIsRead == Spec => []ReadersSeeWhole
<1>1. TypeInv /\ Locks => ReadersSeeWhole
  <2> SUFFICES ASSUME TypeInv, Locks, locking, NEW p \in Procs,
                      pc[p] = "load", file[layer[p]].state # "whole"
               PROVE  layer[p] \in broken
    BY DEF ReadersSeeWhole
  <2>1. layer[p] \in Layers /\ file[layer[p]].state \in States
    BY DEF TypeInv, TypeOK
  <2>2. file[layer[p]].state = "partial"
    BY <2>1 DEF Locks
  <2>3. \A q \in Procs : pc[q] = "dump" => layer[q] # layer[p]
    BY DEF Locks
  <2> QED BY <2>1, <2>2, <2>3 DEF Locks
<1> QED BY <1>1, InitTypeInv, InitLocks, TypeInvStep, LocksStep, PTL DEF Spec

----------------------------------------------------------------------------
\* A step keeps what is about to be written, and what is accepted, fresh.
LEMMA FreshStep == TypeInv /\ Fresh /\ [Next]_vars => Fresh'
<1> SUFFICES ASSUME TypeInv, Fresh, [Next]_vars, QuietEdits PROVE Fresh'
  BY DEF Fresh
<1>0. /\ \A p \in Procs : layer[p] \in Layers
      /\ \A l \in Layers : l \in Nat /\ l >= 1
      /\ \A l \in Layers : source[l].mtime \in Nat /\ file[l].mtime \in Nat
  BY ConstantsAssumption DEF TypeInv, TypeOK, Layers
<1>1. ASSUME UNCHANGED <<source, file>>,
             \A q \in Procs : pc'[q] \in {"open", "dump"}
               => /\ layer'[q] = layer[q]
                  /\ \/ pc[q] \in {"open", "dump"} /\ buf'[q] = buf[q]
                     \/ buf'[q][layer[q]] = source[layer[q]].version
      PROVE  Fresh'
  <2>1. \A q \in Procs : pc'[q] \in {"open", "dump"}
          => buf'[q][layer'[q]] = source[layer'[q]].version
    BY <1>1 DEF Fresh
  <2> QED BY <1>1, <2>1 DEF Fresh, Stale
<1>2. ASSUME NEW p \in Procs,
             Start(p) \/ Check(p) \/ Read(p) \/ ReadFails(p)
      PROVE  Fresh'
  <2>1. /\ UNCHANGED <<source, file, layer, buf>>
        /\ pc'[p] \notin {"open", "dump"}
        /\ \A q \in Procs : q # p => pc'[q] = pc[q]
    <3>1. CASE Start(p) \/ Check(p)
      BY <3>1 DEF Start, Check, Goto, TypeInv, TypeOK, fileVars
    <3>2. CASE Read(p) \/ ReadFails(p)
      BY <3>2 DEF Read, ReadFails, Goto, TypeInv, TypeOK, fileVars
    <3> QED BY <1>2, <3>1, <3>2
  <2> QED BY <1>1, <2>1
<1>3. ASSUME NEW p \in Procs, Load(p) PROVE Fresh'
  <2>1. CASE file[layer[p]].state = "whole"
    BY <1>1, <1>3, <2>1, ServeControl DEF Load, fileVars
  <2>2. CASE file[layer[p]].state # "whole"
    BY <1>1, <1>3, <2>2 DEF Load, Goto, TypeInv, TypeOK, fileVars
  <2> QED BY <2>1, <2>2
<1>4. ASSUME NEW p \in Procs, Build(p) PROVE Fresh'
  <2> DEFINE v == source[layer[p]].version
  <2>1. v \in Nat
    BY <1>0 DEF TypeInv, TypeOK
  <2>2. Append(Below(p), v)[layer[p]] = v
    BY <1>4, <2>1, BuildShape DEF Build
  <2>3. /\ UNCHANGED <<source, file, layer>>
        /\ buf' = [buf EXCEPT ![p] = Append(Below(p), v)]
        /\ pc' = [pc EXCEPT ![p] = "open"]
    BY <1>4 DEF Build, Goto, fileVars
  <2> QED BY <1>1, <2>2, <2>3 DEF TypeInv, TypeOK
\* One file changes, and unless it is not whole, holds what is written.
<1>5. ASSUME NEW p \in Procs, UNCHANGED source,
             \A m \in Layers : m # layer[p] => file'[m] = file[m],
             \/ file'[layer[p]] = file[layer[p]]
             \/ file'[layer[p]].state # "whole"
             \/ pc[p] = "dump" /\ file'[layer[p]].data = buf[p],
             \A q \in Procs : pc'[q] \in {"open", "dump"}
               => /\ pc[q] \in {"open", "dump"}
                  /\ layer'[q] = layer[q] /\ buf'[q] = buf[q]
      PROVE  Fresh'
  <2>1. \A q \in Procs : pc'[q] \in {"open", "dump"}
          => buf'[q][layer'[q]] = source'[layer'[q]].version
    BY <1>5 DEF Fresh
  <2>2. ASSUME NEW m \in Layers, file'[m].state = "whole", ~Stale(m)'
        PROVE  file'[m].data[m] = source'[m].version
    <3>1. CASE file'[m] = file[m]
      BY <1>5, <2>2, <3>1 DEF Fresh, Stale
    <3>2. CASE file'[m] # file[m]
      BY <1>5, <2>2, <3>2 DEF Fresh
    <3> QED BY <3>1, <3>2
  <2> QED BY <2>1, <2>2 DEF Fresh
<1>6. ASSUME NEW p \in Procs, Open(p) PROVE Fresh'
  <2>1. /\ pc[p] = "open" /\ UNCHANGED <<source, layer, buf>>
        /\ pc' = [pc EXCEPT ![p] = "dump"]
        /\ \E f \in {Partial, Mixed} : file' = [file EXCEPT ![layer[p]] = f]
    BY <1>6 DEF Open, Goto
  <2>2. Partial.state # "whole" /\ Mixed.state # "whole"
    BY DEF Partial, Mixed
  <2>3. /\ file'[layer[p]].state # "whole"
        /\ \A m \in Layers : m # layer[p] => file'[m] = file[m]
    BY <1>0, <2>1, <2>2 DEF TypeInv, TypeOK
  <2>4. \A q \in Procs : pc'[q] \in {"open", "dump"} => pc[q] \in {"open", "dump"}
    BY <2>1 DEF TypeInv, TypeOK
  <2> QED BY <1>5, <2>1, <2>3, <2>4
<1>7. ASSUME NEW p \in Procs, LockTimeout(p) \/ LockFails(p) \/ OpenFails(p)
      PROVE  Fresh'
  <2>1. Serve(p, buf[p]) /\ UNCHANGED <<source, file>>
    BY <1>7 DEF LockTimeout, LockFails, OpenFails, fileVars
  <2> QED BY <1>1, <2>1, ServeControl
<1>10. ASSUME NEW p \in Procs, Dump(p) \/ DumpFails(p) \/ Crash(p)
       PROVE  Fresh'
  <2>1. /\ pc'[p] \notin {"open", "dump"}
        /\ \A q \in Procs : q # p => /\ pc'[q] = pc[q]
                                     /\ layer'[q] = layer[q]
                                     /\ buf'[q] = buf[q]
    <3>1. CASE Dump(p) \/ DumpFails(p)
      <4>1. Serve(p, buf[p])
        BY <3>1 DEF Dump, DumpFails
      <4> QED BY <4>1, ServeControl
    <3>2. CASE Crash(p)
      BY <3>2 DEF Crash, Goto, TypeInv, TypeOK
    <3> QED BY <1>10, <3>1, <3>2
  <2>2. UNCHANGED source
    BY <1>10 DEF Dump, DumpFails, Crash
  <2>3. \/ UNCHANGED file
        \/ file' = [file EXCEPT ![layer[p]] = Mixed]
        \/ pc[p] = "dump" /\ file' = [file EXCEPT ![layer[p]] = Whole(buf[p])]
    BY <1>10 DEF Dump, DumpFails, Crash, StopsWriting
  <2>4. Mixed.state # "whole" /\ Whole(buf[p]).data = buf[p]
    BY DEF Mixed, Whole
  <2>5. /\ \A m \in Layers : m # layer[p] => file'[m] = file[m]
        /\ \/ file'[layer[p]] = file[layer[p]]
           \/ file'[layer[p]].state # "whole"
           \/ pc[p] = "dump" /\ file'[layer[p]].data = buf[p]
    <3>1. ASSUME NEW f, file' = [file EXCEPT ![layer[p]] = f]
          PROVE  /\ file'[layer[p]] = f
                 /\ \A m \in Layers : m # layer[p] => file'[m] = file[m]
      BY <1>0, <3>1 DEF TypeInv, TypeOK
    <3>2. CASE UNCHANGED file
      BY <3>2
    <3>3. CASE file' = [file EXCEPT ![layer[p]] = Mixed]
      BY <2>4, <3>1, <3>3
    <3>4. CASE /\ pc[p] = "dump"
               /\ file' = [file EXCEPT ![layer[p]] = Whole(buf[p])]
      BY <2>4, <3>1, <3>4
    <3> QED BY <2>3, <3>2, <3>3, <3>4
  <2> QED BY <1>5, <2>1, <2>2, <2>5
<1>8. ASSUME NEW l \in Layers, Edit(l) PROVE Fresh'
  <2>1. /\ UNCHANGED <<file, pc, layer, buf>>
        /\ file[l].mtime < clock
        /\ \A p \in Procs : layer[p] = l => pc[p] \notin {"open", "dump"}
        /\ \A m \in Layers : m # l => source'[m] = source[m]
        /\ source'[l].mtime = clock
    BY <1>8 DEF Edit, procVars, TypeInv, TypeOK
  <2>2. Stale(l)'
    BY <1>0, <2>1 DEF Stale, TypeInv, TypeOK
  <2> QED BY <1>0, <2>1, <2>2 DEF Fresh, Stale
<1>9. CASE Tick \/ UNCHANGED vars
  BY <1>1, <1>9 DEF Tick, vars, fileVars, procVars
<1> QED BY <1>2, <1>3, <1>4, <1>6, <1>7, <1>8, <1>9, <1>10 DEF Next, Step

\* A cache file update_cache_needed accepts holds its own source's present
\* version, as long as edits are quiet (cache.py 78-110).
THEOREM AcceptedIsFresh == Spec => []OwnSourceFresh
<1>1. Init => TypeInv /\ Fresh
  BY InitTypeInv DEF Init, NoFile, Fresh
<1>2. Fresh => OwnSourceFresh
  BY DEF Fresh, OwnSourceFresh
<1> QED BY <1>1, <1>2, TypeInvStep, FreshStep, PTL DEF Spec

----------------------------------------------------------------------------
\* The first l entries of two data are the same.
Begins(s, t, l) == \A j \in 1..l : s[j] = t[j]

\* A running import that has rebuilt a layer will rebuild this one as well.
Pending(m) == \E p \in Procs : pc[p] # "idle" /\ force[p] /\ m >= layer[p]

(***************************************************************************)
(* While no process fails and imports do not overlap: there is one import  *)
(* at a time, what it has obtained is what the files hold, a layer that is *)
(* rebuilt makes it rebuild the following ones, and all files, but those   *)
(* about to be rebuilt, were built from each other.                        *)
(***************************************************************************)
OneAtATime ==
    /\ broken = {}
    /\ \A p, q \in Procs : pc[p] # "idle" /\ pc[q] # "idle" => p = q
    /\ \A p \in Procs : pc[p] \in {"idle", "read", "load"} => ~force[p]
    /\ \A p \in Procs : pc[p] \in {"build", "open", "dump"} => force[p]
    /\ \A p \in Procs : pc[p] = "dump" => file[layer[p]].state = "partial"
    /\ \A l \in Layers : file[l].state # "mixed"

Obtained ==
    /\ \A p \in Procs : pc[p] # "idle" => \A l \in 1..(layer[p] - 1) :
         file[l].state = "whole" /\ file[l].data = got[p][l]
    /\ \A p \in Procs : pc[p] \in {"open", "dump"} /\ layer[p] # 1
         => Begins(buf[p], got[p][layer[p] - 1], layer[p] - 1)
    /\ \A p \in Procs : \A l, m \in 1..Len(got[p]) :
         l < m => Begins(got[p][m], got[p][l], l)

FilesAgree ==
    \A l, m \in Layers :
        l < m /\ file[l].state = "whole" /\ file[m].state = "whole" /\ ~Pending(m)
            => Begins(file[m].data, file[l].data, l)

InOrder == ~disturbed => OneAtATime /\ Obtained /\ FilesAgree

\* What an import during which no source changed has obtained, and is about to
\* read, has the present version of its own source.
Current ==
    QuietEdits /\ ~disturbed => \A p \in Procs : calm[p] =>
        /\ \A l \in 1..Len(got[p]) : got[p][l][l] = source[l].version
        /\ pc[p] \in {"read", "load"} => ~Stale(layer[p])

\* What serving a layer does, field by field.
Served(p, data) ==
    /\ \A q \in Procs \ {p} : /\ pc'[q] = pc[q] /\ layer'[q] = layer[q]
                              /\ force'[q] = force[q] /\ got'[q] = got[q]
                              /\ buf'[q] = buf[q]
    /\ Len(got'[p]) = layer[p]
    /\ \A l \in 1..(layer[p] - 1) : got'[p][l] = got[p][l]
    /\ got'[p][layer[p]] = data
    /\ \/ pc'[p] = "idle" /\ layer[p] = NLayers /\ force'[p] = FALSE
       \/ pc'[p] = "check" /\ layer'[p] = layer[p] + 1 /\ force'[p] = force[p]

LEMMA ServeFields ==
  ASSUME TypeInv, NEW p \in Procs, NEW data \in Seq(Nat),
         Len(data) = layer[p], pc[p] # "idle", Serve(p, data)
  PROVE  Served(p, data)
<1> USE DEF TypeInv
<1>1. /\ got[p] \in Seq(Seq(Nat)) /\ Len(got[p]) = layer[p] - 1
      /\ layer[p] \in Nat /\ layer[p] >= 1
  BY ConstantsAssumption DEF TypeOK, Shape, Layers
<1>2. /\ got' = [got EXCEPT ![p] = Append(got[p], data)]
      /\ buf' = [buf EXCEPT ![p] = <<>>]
  BY DEF Serve
<1>3. /\ Len(Append(got[p], data)) = layer[p]
      /\ \A l \in 1..(layer[p] - 1) : Append(got[p], data)[l] = got[p][l]
      /\ Append(got[p], data)[layer[p]] = data
  BY <1>1, AppendProperties
<1>4. /\ \A q \in Procs \ {p} : got'[q] = got[q] /\ buf'[q] = buf[q]
      /\ got'[p] = Append(got[p], data)
  BY <1>2 DEF TypeOK
<1>5. CASE layer[p] = NLayers
  <2>1. /\ pc' = [pc EXCEPT ![p] = "idle"]
        /\ layer' = [layer EXCEPT ![p] = 1]
        /\ force' = [force EXCEPT ![p] = FALSE]
    BY <1>5 DEF Serve, Goto
  <2> QED BY <1>3, <1>4, <1>5, <2>1 DEF TypeOK, Served
<1>6. CASE layer[p] # NLayers
  <2>1. /\ pc' = [pc EXCEPT ![p] = "check"]
        /\ layer' = [layer EXCEPT ![p] = layer[p] + 1]
        /\ force' = force
    BY <1>6, <1>1 DEF Serve, Goto, TypeOK
  <2> QED BY <1>3, <1>4, <2>1 DEF TypeOK, Served
<1> QED BY <1>5, <1>6

\* Serving a layer that agrees with the ones obtained so far, and that its file
\* holds, keeps everything in order.
LEMMA ServeInOrder ==
  ASSUME TypeInv, ~disturbed, OneAtATime, Obtained, FilesAgree,
         NEW p \in Procs, pc[p] # "idle",
         NEW data \in Seq(Nat), Len(data) = layer[p], Serve(p, data),
         \A l \in 1..(layer[p] - 1) : Begins(data, got[p][l], l),
         file'[layer[p]].state = "whole", file'[layer[p]].data = data,
         \A l \in Layers : l # layer[p] => file'[l] = file[l],
         force[p] \/ file' = file, UNCHANGED broken
  PROVE  OneAtATime' /\ Obtained' /\ FilesAgree'
<1>0. /\ layer[p] \in Layers /\ layer[p] \in 1..NLayers /\ NLayers \in Nat
      /\ \A l \in Layers : l \in Nat
      /\ \A q \in Procs : layer[q] \in Nat
  <2>1. \A q \in Procs : layer[q] \in Layers
    BY DEF TypeInv, TypeOK
  <2>2. NLayers \in Nat /\ \A l \in Layers : l \in Nat /\ l \in 1..NLayers
    BY ConstantsAssumption DEF Layers
  <2> QED BY <2>1, <2>2
<1>1. /\ \A q \in Procs \ {p} : /\ pc'[q] = pc[q] /\ layer'[q] = layer[q]
                                /\ force'[q] = force[q] /\ got'[q] = got[q]
                                /\ buf'[q] = buf[q]
      /\ Len(got'[p]) = layer[p]
      /\ \A l \in 1..(layer[p] - 1) : got'[p][l] = got[p][l]
      /\ got'[p][layer[p]] = data
      /\ \/ pc'[p] = "idle" /\ layer[p] = NLayers /\ force'[p] = FALSE
         \/ pc'[p] = "check" /\ layer'[p] = layer[p] + 1 /\ force'[p] = force[p]
  <2>1. Served(p, data)
    BY ServeFields
  <2> QED BY <2>1 DEF Served
<1>2. \A q \in Procs \ {p} : pc[q] = "idle"
  BY DEF OneAtATime
<1>3. OneAtATime'
  <2>1. \A q \in Procs : pc'[q] # "idle" => q = p
    BY <1>1, <1>2
  <2>3. \A l \in Layers : file'[l].state # "mixed"
    BY DEF OneAtATime
  <2>2. \A q \in Procs : /\ pc'[q] \in {"idle", "read", "load"} => ~force'[q]
                         /\ pc'[q] \notin {"build", "open", "dump"}
    <3>1. \A q \in Procs \ {p} : pc'[q] = "idle" /\ ~force'[q]
      BY <1>1, <1>2 DEF OneAtATime
    <3>2. /\ pc'[p] \in {"idle", "read", "load"} => ~force'[p]
          /\ pc'[p] \notin {"build", "open", "dump"}
      BY <1>1
    <3> QED BY <3>1, <3>2
  <2> QED BY <2>1, <2>2, <2>3 DEF OneAtATime
<1>4. \A l \in 1..(layer[p] - 1) : /\ l \in Layers /\ file'[l] = file[l]
                                   /\ file'[l].state = "whole"
                                   /\ file'[l].data = got[p][l]
  <2>1. \A l \in 1..(layer[p] - 1) : l \in Layers /\ l # layer[p]
    BY <1>0 DEF Layers
  <2> QED BY <2>1 DEF Obtained
<1>5. Obtained'
  <2>1. ASSUME NEW q \in Procs, pc'[q] # "idle", NEW l \in 1..(layer'[q] - 1)
        PROVE  file'[l].state = "whole" /\ file'[l].data = got'[q][l]
    <3>1. q = p /\ layer'[p] = layer[p] + 1
      BY <1>1, <1>2, <2>1
    <3>2. CASE l = layer[p]
      BY <1>1, <3>1, <3>2
    <3>3. CASE l # layer[p]
      <4>1. l \in 1..(layer[p] - 1)
        BY <1>0, <2>1, <3>1, <3>3
      <4> QED BY <1>1, <1>4, <3>1, <4>1
    <3> QED BY <3>2, <3>3
  <2>2. \A q \in Procs : pc'[q] \notin {"open", "dump"}
    BY <1>1, <1>2
  <2>3. ASSUME NEW q \in Procs, NEW l \in 1..Len(got'[q]),
               NEW m \in 1..Len(got'[q]), l < m
        PROVE  Begins(got'[q][m], got'[q][l], l)
    <3>1. CASE q # p
      BY <1>1, <2>3, <3>1 DEF Obtained
    <3>2. CASE q = p
      <4>1. l \in 1..(layer[p] - 1) /\ got'[p][l] = got[p][l]
        BY <1>0, <1>1, <2>3, <3>2
      <4>2. CASE m = layer[p]
        BY <1>1, <3>2, <4>1, <4>2
      <4>3. CASE m # layer[p]
        <5>1. m \in 1..(layer[p] - 1) /\ Len(got[p]) = layer[p] - 1
          BY <1>0, <1>1, <2>3, <3>2, <4>3 DEF TypeInv, Shape
        <5>2. Begins(got[p][m], got[p][l], l)
          BY <2>3, <4>1, <5>1 DEF Obtained
        <5> QED BY <1>1, <3>2, <4>1, <5>1, <5>2
      <4> QED BY <4>2, <4>3
    <3> QED BY <3>1, <3>2
  <2> QED BY <2>1, <2>2, <2>3 DEF Obtained, Begins
<1>6. FilesAgree'
  <2> SUFFICES ASSUME NEW l \in Layers, NEW m \in Layers, l < m,
                      file'[l].state = "whole", file'[m].state = "whole",
                      ~Pending(m)'
               PROVE  Begins(file'[m].data, file'[l].data, l)
    BY DEF FilesAgree, Begins
  <2>1. CASE m = layer[p]
    <3>1. l \in 1..(layer[p] - 1)
      BY <1>0, <2>1 DEF Layers
    <3> QED BY <1>4, <2>1, <3>1
  <2>2. CASE m < layer[p]
    <3>1. ~Pending(m)
      <4>1. \A q \in Procs : pc[q] # "idle" => q = p
        BY <1>2
      <4>2. ~(m >= layer[p])
        BY <1>0, <2>2
      <4> QED BY <4>1, <4>2 DEF Pending
    <3>2. file'[l] = file[l] /\ file'[m] = file[m]
      BY <1>0, <2>2
    <3> QED BY <3>1, <3>2 DEF FilesAgree
  <2>3. CASE m > layer[p]
    <3>1. ~force[p]
      <4>1. m \in 1..NLayers
        BY DEF Layers
      <4>2. pc'[p] = "check" /\ layer'[p] = layer[p] + 1 /\ force'[p] = force[p]
        BY <1>0, <1>1, <2>3, <4>1
      <4>3. m >= layer'[p]
        BY <1>0, <2>3, <4>2
      <4> QED BY <4>2, <4>3 DEF Pending
    <3>2. file' = file /\ ~Pending(m)
      BY <1>2, <3>1 DEF Pending
    <3> QED BY <3>2 DEF FilesAgree
  <2> QED BY <1>0, <2>1, <2>2, <2>3
<1> QED BY <1>3, <1>5, <1>6

\* A step keeps what processes obtain one at a time in order.
LEMMA InOrderStep == TypeInv /\ Locks /\ InOrder /\ [Next]_vars => InOrder'
<1> SUFFICES ASSUME TypeInv, Locks, InOrder, [Next]_vars, ~disturbed'
             PROVE  OneAtATime' /\ Obtained' /\ FilesAgree'
  BY DEF InOrder
<1>0. /\ \A p \in Procs : layer[p] \in Layers /\ layer[p] \in Nat
      /\ \A l \in Layers : l \in Nat /\ l >= 1
      /\ NoProc \notin Procs
  BY ConstantsAssumption DEF TypeInv, TypeOK, Layers
<1>b. \A p \in Procs : \A l \in 1..(layer[p] - 1) : l \in Layers /\ l < layer[p]
  <2>1. \A m \in Layers : \A l \in 1..(m - 1) : l \in Layers /\ l < m
    BY ConstantsAssumption DEF Layers
  <2> QED BY <1>0, <2>1
<1>1. ASSUME NEW p \in Procs, Start(p) PROVE OneAtATime' /\ Obtained' /\ FilesAgree'
  <2>1. /\ ~disturbed /\ \A q \in Procs : pc[q] = "idle"
        /\ pc' = [pc EXCEPT ![p] = "check"] /\ got' = [got EXCEPT ![p] = <<>>]
        /\ UNCHANGED <<file, broken, layer, force, buf>>
    BY <1>1 DEF Start, Goto, fileVars
  <2>2. /\ OneAtATime /\ Obtained /\ FilesAgree /\ layer[p] = 1
    BY <2>1 DEF InOrder, TypeInv, Shape
  <2>3. /\ \A q \in Procs : pc'[q] = IF q = p THEN "check" ELSE "idle"
        /\ \A q \in Procs : got'[q] = IF q = p THEN <<>> ELSE got[q]
        /\ \A q \in Procs : ~force[q]
    BY <2>1, <2>2 DEF TypeInv, TypeOK, OneAtATime
  <2>4. OneAtATime'
    BY <2>1, <2>2, <2>3 DEF OneAtATime
  <2>5. Obtained'
    <3>1. 1..(layer[p] - 1) = {} /\ Len(<<>>) = 0 /\ 1..Len(<<>>) = {}
      BY <2>2
    <3> QED BY <2>1, <2>2, <2>3, <3>1 DEF Obtained, Begins
  <2>6. FilesAgree'
    <3>1. \A m : ~Pending(m) /\ ~Pending(m)'
      BY <2>1, <2>3 DEF Pending
    <3> QED BY <2>1, <2>2, <3>1 DEF FilesAgree, Begins
  <2> QED BY <2>4, <2>5, <2>6
<1>2. ASSUME NEW p \in Procs, Check(p) PROVE OneAtATime' /\ Obtained' /\ FilesAgree'
  <2>1. /\ ~disturbed /\ pc[p] = "check"
        /\ force' = [force EXCEPT ![p] = force'[p]]
        /\ (force[p] => force'[p])
        /\ pc' = [pc EXCEPT ![p] = IF force'[p] THEN "build" ELSE "read"]
        /\ UNCHANGED <<file, broken, layer, got, buf>>
    BY <1>2 DEF Check, Goto, fileVars, TypeInv, TypeOK
  <2>2. OneAtATime /\ Obtained /\ FilesAgree
    BY <2>1 DEF InOrder
  <2>3. /\ \A q \in Procs \ {p} : pc'[q] = pc[q] /\ force'[q] = force[q]
                                  /\ pc[q] = "idle"
        /\ pc'[p] = IF force'[p] THEN "build" ELSE "read"
    BY <2>1, <2>2 DEF TypeInv, TypeOK, OneAtATime
  <2>4. OneAtATime'
    BY <2>1, <2>2, <2>3 DEF OneAtATime
  <2>5. Obtained'
    BY <2>1, <2>2, <2>3 DEF Obtained, Begins
  <2>6. FilesAgree'
    <3>1. \A m : Pending(m) => Pending(m)'
      BY <2>1, <2>3 DEF Pending
    <3> QED BY <2>1, <2>2, <3>1 DEF FilesAgree, Begins
  <2> QED BY <2>4, <2>5, <2>6
\* The file an undisturbed import loads is whole.
<1>w. ASSUME NEW p \in Procs, pc[p] = "load", OneAtATime
      PROVE  file[layer[p]].state = "whole"
  <2>1. file[layer[p]].state \in States /\ layer[p] \in Layers
    BY <1>0 DEF TypeInv, TypeOK
  <2>2. file[layer[p]].state # "partial"
    BY <1>w, <2>1 DEF Locks, OneAtATime
  <2> QED BY <1>w, <2>1, <2>2 DEF Locks, OneAtATime
<1>3. ASSUME NEW p \in Procs, Load(p) PROVE OneAtATime' /\ Obtained' /\ FilesAgree'
  <2> DEFINE m == layer[p]
             data == file[layer[p]].data
  <2>1. ~disturbed /\ pc[p] = "load" /\ UNCHANGED <<file, broken>>
    BY <1>3 DEF Load, fileVars
  <2>2. OneAtATime /\ Obtained /\ FilesAgree /\ ~force[p]
    BY <2>1 DEF InOrder, OneAtATime
  <2>3. file[m].state = "whole"
    BY <1>w, <2>1, <2>2
  <2>4. Serve(p, data) /\ data \in Seq(Nat) /\ Len(data) = m
    BY <1>0, <1>3, <2>3 DEF Load, TypeInv, TypeOK, Shape
  <2>5. ASSUME NEW l \in 1..(m - 1) PROVE Begins(data, got[p][l], l)
    <3>1. l \in Layers /\ l < m
      BY <1>b
    <3>2. file[l].state = "whole" /\ file[l].data = got[p][l]
      BY <2>1, <2>2 DEF Obtained
    <3>3. ~Pending(m)
      BY <2>1, <2>2 DEF Pending, OneAtATime
    <3> QED BY <1>0, <2>2, <2>3, <3>1, <3>2, <3>3 DEF FilesAgree
  <2>6. /\ file'[m].state = "whole" /\ file'[m].data = data
        /\ \A l \in Layers : l # m => file'[l] = file[l]
    BY <2>1, <2>3
  <2> HIDE DEF data
  <2> QED BY <2>1, <2>2, <2>4, <2>5, <2>6, ServeInOrder
<1>11. ASSUME NEW p \in Procs, Read(p) PROVE OneAtATime' /\ Obtained' /\ FilesAgree'
  <2>1. /\ ~disturbed /\ pc[p] = "read" /\ pc' = [pc EXCEPT ![p] = "load"]
        /\ UNCHANGED <<file, broken, layer, got, force, buf>>
    BY <1>11 DEF Read, Goto, fileVars
  <2>2. OneAtATime /\ Obtained /\ FilesAgree
    BY <2>1 DEF InOrder
  <2>3. \A q \in Procs : pc'[q] = IF q = p THEN "load" ELSE pc[q]
    BY <2>1 DEF TypeInv, TypeOK
  <2>4. OneAtATime'
    BY <2>1, <2>2, <2>3 DEF OneAtATime
  <2>5. Obtained'
    BY <2>1, <2>2, <2>3 DEF Obtained, Begins
  <2>6. FilesAgree'
    <3>1. \A m : Pending(m) => Pending(m)'
      BY <2>1, <2>3 DEF Pending
    <3> QED BY <2>1, <2>2, <3>1 DEF FilesAgree, Begins
  <2> QED BY <2>4, <2>5, <2>6
<1>4. ASSUME NEW p \in Procs, Build(p) PROVE OneAtATime' /\ Obtained' /\ FilesAgree'
  <2> DEFINE data == Append(Below(p), source[layer[p]].version)
  <2>1. /\ ~disturbed /\ pc[p] = "build"
        /\ pc' = [pc EXCEPT ![p] = "open"] /\ buf' = [buf EXCEPT ![p] = data]
        /\ UNCHANGED <<file, broken, layer, got, force>>
    BY <1>4 DEF Build, Goto, fileVars
  <2>2. OneAtATime /\ Obtained /\ FilesAgree
    BY <2>1 DEF InOrder
  <2>a. layer[p] # 1 => Begins(data, got[p][layer[p] - 1], layer[p] - 1)
    <3> SUFFICES ASSUME layer[p] # 1
                 PROVE  Begins(data, got[p][layer[p] - 1], layer[p] - 1)
      OBVIOUS
    <3>1. /\ layer[p] - 1 \in 1..Len(got[p]) /\ got[p] \in Seq(Seq(Nat))
          /\ Len(got[p][layer[p] - 1]) = layer[p] - 1
      <4>1. Len(got[p]) = layer[p] - 1 /\ got[p] \in Seq(Seq(Nat))
        BY <2>1 DEF TypeInv, TypeOK, Shape
      <4>2. layer[p] - 1 \in 1..Len(got[p])
        BY <1>0, <4>1
      <4> QED BY <4>1, <4>2 DEF TypeInv, Shape
    <3>2. /\ Below(p) = got[p][layer[p] - 1] /\ Below(p) \in Seq(Nat)
          /\ Len(Below(p)) = layer[p] - 1
      BY <3>1, ElementOfSeq DEF Below
    <3>3. source[layer[p]].version \in Nat
      BY <1>0 DEF TypeInv, TypeOK
    <3>4. \A j \in 1..(layer[p] - 1) : data[j] = Below(p)[j]
      BY <3>2, <3>3, AppendProperties
    <3> QED BY <3>2, <3>4 DEF Begins
  <2> HIDE DEF data
  <2>3. /\ \A q \in Procs \ {p} : pc'[q] = pc[q] /\ buf'[q] = buf[q]
                                  /\ pc[q] = "idle"
        /\ pc'[p] = "open" /\ buf'[p] = data
    BY <2>1, <2>2 DEF TypeInv, TypeOK, OneAtATime
  <2>4. OneAtATime'
    BY <2>1, <2>2, <2>3 DEF OneAtATime
  <2>5. Obtained'
    BY <2>a, <2>1, <2>2, <2>3 DEF Obtained, Begins
  <2>6. FilesAgree'
    <3>1. \A m : Pending(m) => Pending(m)'
      BY <2>1, <2>3 DEF Pending
    <3> QED BY <2>1, <2>2, <3>1 DEF FilesAgree, Begins
  <2> QED BY <2>4, <2>5, <2>6
<1>5. ASSUME NEW p \in Procs, Open(p) PROVE OneAtATime' /\ Obtained' /\ FilesAgree'
  <2> DEFINE m == layer[p]
  <2>a. ~disturbed /\ pc[p] = "open"
    BY <1>5 DEF Open
  <2>2. OneAtATime /\ Obtained /\ FilesAgree
    BY <2>a DEF InOrder
  <2>b. Writers(m) = {}
    BY <2>a, <2>2 DEF Writers, OneAtATime
  <2>1. /\ pc' = [pc EXCEPT ![p] = "dump"] /\ broken' = broken \ {m}
        /\ file'[m].state = "partial"
        /\ \A l \in Layers : l # m => file'[l] = file[l]
        /\ UNCHANGED <<layer, got, force, buf>>
    BY <1>0, <1>5, <2>b DEF Open, Goto, Partial, TypeInv, TypeOK
  <2>3. /\ \A q \in Procs \ {p} : pc'[q] = pc[q] /\ pc[q] = "idle"
        /\ pc'[p] = "dump"
    BY <2>a, <2>1, <2>2 DEF TypeInv, TypeOK, OneAtATime
  <2>4. OneAtATime'
    BY <2>a, <2>1, <2>2, <2>3 DEF OneAtATime
  <2>5. Obtained'
    <3>1. \A l \in 1..(m - 1) : file'[l] = file[l]
      BY <1>0, <1>b, <2>1
    <3> QED BY <2>a, <2>1, <2>2, <2>3, <3>1 DEF Obtained, Begins
  <2>6. FilesAgree'
    <3>1. \A l : Pending(l) => Pending(l)'
      BY <2>a, <2>1, <2>3 DEF Pending
    <3> QED BY <2>1, <2>2, <3>1 DEF FilesAgree, Begins
  <2> QED BY <2>4, <2>5, <2>6
<1>6. ASSUME NEW p \in Procs, LockTimeout(p) PROVE FALSE
  <2>1. /\ ~disturbed /\ pc[p] = "open" /\ locking
        /\ lock[layer[p]] # NoProc \/ Readers(layer[p]) # {}
    BY <1>6 DEF LockTimeout, WriteLock
  <2>2. OneAtATime
    BY <2>1 DEF InOrder
  <2>3. Readers(layer[p]) = {}
    BY <2>1, <2>2 DEF Readers, OneAtATime
  <2>4. pc[lock[layer[p]]] = "dump" /\ lock[layer[p]] \in Procs
    BY <1>0, <2>1, <2>3 DEF Locks, TypeInv, TypeOK
  <2> QED BY <2>1, <2>2, <2>4 DEF OneAtATime
<1>7. ASSUME NEW p \in Procs, \/ ReadFails(p) \/ LockFails(p) \/ OpenFails(p)
                             \/ DumpFails(p) \/ Crash(p)
      PROVE  FALSE
  BY <1>7 DEF ReadFails, LockFails, OpenFails, DumpFails, Crash, Failure
<1>8. ASSUME NEW p \in Procs, Dump(p) PROVE OneAtATime' /\ Obtained' /\ FilesAgree'
  <2> DEFINE m == layer[p]
             data == buf[p]
  <2>a. /\ ~disturbed /\ pc[p] = "dump" /\ UNCHANGED broken
        /\ Serve(p, data)
    BY <1>8 DEF Dump
  <2>2. OneAtATime /\ Obtained /\ FilesAgree /\ force[p]
    BY <2>a DEF InOrder, OneAtATime
  <2>b. file' = [file EXCEPT ![m] = Whole(data)]
    BY <1>8, <2>a, <2>2 DEF Dump, OneAtATime
  <2>1. /\ ~disturbed /\ pc[p] = "dump" /\ UNCHANGED broken
        /\ Serve(p, data)
        /\ file'[m].state = "whole" /\ file'[m].data = data
        /\ \A l \in Layers : l # m => file'[l] = file[l]
    BY <1>0, <2>a, <2>b DEF Whole, TypeInv, TypeOK
  <2>3. data \in Seq(Nat) /\ Len(data) = m
    BY <2>1 DEF TypeInv, TypeOK, Shape
  <2>4. ASSUME NEW l \in 1..(m - 1) PROVE Begins(data, got[p][l], l)
    <3>1. /\ m # 1 /\ Len(got[p]) = m - 1 /\ l \in 1..Len(got[p])
          /\ m - 1 \in 1..Len(got[p]) /\ l <= m - 1
      BY <1>0, <2>1 DEF TypeInv, Shape
    <3>2. Begins(data, got[p][m - 1], m - 1)
      BY <2>1, <2>2, <3>1 DEF Obtained
    <3>3. CASE l = m - 1
      BY <3>2, <3>3
    <3>4. CASE l < m - 1
      <4>1. Begins(got[p][m - 1], got[p][l], l)
        BY <2>2, <3>1, <3>4 DEF Obtained
      <4>2. \A j \in 1..l : j \in 1..(m - 1)
        BY <1>0, <3>1
      <4> QED BY <3>2, <4>1, <4>2 DEF Begins
    <3> QED BY <1>0, <3>1, <3>3, <3>4
  <2> HIDE DEF data
  <2> QED BY <2>1, <2>2, <2>3, <2>4, ServeInOrder
<1>9. ASSUME UNCHANGED <<file, broken, pc, layer, got, force, buf, disturbed>>
      PROVE  OneAtATime' /\ Obtained' /\ FilesAgree'
  BY <1>9 DEF InOrder, OneAtATime, Obtained, FilesAgree, Pending, Begins
<1>10. ASSUME (\E l \in Layers : Edit(l)) \/ Tick \/ UNCHANGED vars
       PROVE  UNCHANGED <<file, broken, pc, layer, got, force, buf, disturbed>>
  BY <1>10 DEF Edit, Tick, vars, procVars, fileVars
<1> QED BY <1>1, <1>2, <1>3, <1>4, <1>5, <1>6, <1>7, <1>8, <1>9, <1>10, <1>11
        DEF Next, Step

\* The layers of undisturbed imports were built from each other, whatever was
\* edited when (imp.py lines 237-265, isa/__init__.py lines 191-236).
THEOREM UndisturbedLayersAgree == Spec => []SequentialLayersAgree
<1>0. Init => TypeInv /\ Locks
  BY InitTypeInv, InitLocks
<1>1. Init => InOrder
  <2> SUFFICES ASSUME Init PROVE InOrder
    OBVIOUS
  <2>1. OneAtATime
    BY DEF Init, NoFile, OneAtATime
  <2>a. FilesAgree
    <3>1. \A l \in Layers : file[l].state = "absent"
      BY DEF Init, NoFile
    <3> QED BY <3>1 DEF FilesAgree
  <2>2. Obtained
    <3>1. 1..Len(<<>>) = {}
      OBVIOUS
    <3> QED BY <3>1 DEF Init, Obtained
  <2> QED BY <2>1, <2>a, <2>2 DEF InOrder
<1>2. TypeInv /\ InOrder => SequentialLayersAgree
  <2> SUFFICES ASSUME TypeInv, InOrder, ~disturbed, NEW p \in Procs,
                      NEW l \in DOMAIN got[p], NEW m \in DOMAIN got[p], l < m
               PROVE  SubSeq(got[p][m], 1, l) = got[p][l]
    BY DEF SequentialLayersAgree, LayersAgree
  <2>1. got[p] \in Seq(Seq(Nat)) /\ DOMAIN got[p] = 1..Len(got[p])
    BY DEF TypeInv, TypeOK
  <2>2. /\ got[p][m] \in Seq(Nat) /\ Len(got[p][m]) = m
        /\ got[p][l] \in Seq(Nat) /\ Len(got[p][l]) = l
    BY <2>1, ElementOfSeq DEF TypeInv, Shape
  <2>3. Begins(got[p][m], got[p][l], l)
    BY <2>1 DEF InOrder, Obtained
  <2> DEFINE s == got[p][m]
             t == got[p][l]
  <2>4. l \in Nat /\ m \in Nat /\ \A i \in 1..l : s[i] \in Nat
    <3>1. s \in Seq(Nat) /\ Len(s) = m /\ l \in Nat /\ m \in Nat
      BY <2>1, <2>2
    <3>2. \A i \in 1..l : i \in 1..Len(s)
      BY <3>1
    <3> HIDE DEF s
    <3> QED BY <3>1, <3>2, ElementOfSeq
  <2> HIDE DEF s, t
  <2>5. /\ SubSeq(s, 1, l) \in Seq(Nat)
        /\ Len(SubSeq(s, 1, l)) = IF 1 <= l THEN l - 1 + 1 ELSE 0
        /\ \A i \in 1..(l - 1 + 1) : SubSeq(s, 1, l)[i] = s[1 + i - 1]
    <3>1. 1 \in Int /\ l \in Int
      BY <2>4
    <3> QED BY <2>4, <3>1, SubSeqProperties
  <2>6. Len(SubSeq(s, 1, l)) = l /\ \A i \in 1..l : SubSeq(s, 1, l)[i] = s[i]
    BY <2>4, <2>5
  <2>7. t \in Seq(Nat) /\ Len(t) = l /\ \A i \in 1..l : s[i] = t[i]
    BY <2>2, <2>3 DEF s, t, Begins
  <2>8. SubSeq(s, 1, l) = t
    BY <2>5, <2>6, <2>7, SeqEqual
  <2> QED BY <2>8 DEF s, t
<1> QED BY <1>0, <1>1, <1>2, TypeInvStep, LocksStep, InOrderStep, PTL DEF Spec

\* A step keeps what an import has obtained up to date.
LEMMA CurrentStep ==
  TypeInv /\ Locks /\ InOrder /\ Fresh /\ Current /\ [Next]_vars => Current'
<1> SUFFICES ASSUME TypeInv, Locks, InOrder, Fresh, Current, [Next]_vars,
                    QuietEdits, ~disturbed', NEW p \in Procs, calm'[p]
             PROVE  /\ \A l \in 1..Len(got'[p]) :
                         got'[p][l][l] = source'[l].version
                    /\ pc'[p] \in {"read", "load"} => ~Stale(layer[p])'
  BY DEF Current
<1> DEFINE Goal == /\ \A l \in 1..Len(got'[p]) :
                        got'[p][l][l] = source'[l].version
                   /\ pc'[p] \in {"read", "load"} => ~Stale(layer[p])'
<1>0. /\ \A q \in Procs : layer[q] \in Layers /\ layer[q] \in Nat
      /\ layer[p] >= 1
  BY ConstantsAssumption DEF TypeInv, TypeOK, Layers
<1>1. ASSUME NEW q \in Procs, Start(q) PROVE Goal
  <2>1. /\ ~disturbed /\ pc' = [pc EXCEPT ![q] = "check"]
        /\ got' = [got EXCEPT ![q] = <<>>] /\ calm' = [calm EXCEPT ![q] = TRUE]
        /\ UNCHANGED <<source, file, layer>>
    BY <1>1 DEF Start, Goto, fileVars
  <2>2. CASE q = p
    <3>1. got'[p] = <<>> /\ pc'[p] = "check" /\ 1..Len(<<>>) = {}
      BY <2>1, <2>2 DEF TypeInv, TypeOK
    <3> QED BY <3>1
  <2>3. CASE q # p
    BY <2>1, <2>3 DEF TypeInv, TypeOK, Current, Stale
  <2> QED BY <2>2, <2>3
<1>2. ASSUME NEW q \in Procs, Check(q) PROVE Goal
  <2>1. /\ ~disturbed /\ pc[q] = "check"
        /\ ~force'[q] => ~Stale(layer[q])
        /\ pc' = [pc EXCEPT ![q] = IF force'[q] THEN "build" ELSE "read"]
        /\ UNCHANGED <<source, file, layer, got, calm>>
    BY <1>2 DEF Check, Goto, UpdateNeeded, fileVars, TypeInv, TypeOK
  <2>2. \A l \in 1..Len(got[p]) : got[p][l][l] = source[l].version
    BY <2>1 DEF Current
  <2>3. pc'[p] \in {"read", "load"} => ~Stale(layer[p])
    BY <2>1 DEF TypeInv, TypeOK, Current
  <2> QED BY <2>1, <2>2, <2>3 DEF Stale
\* A layer of the present version is served.
<1>3. ASSUME NEW q \in Procs, NEW data \in Seq(Nat), Len(data) = layer[q],
             pc[q] # "idle", ~disturbed, Serve(q, data),
             data[layer[q]] = source[layer[q]].version \/ ~calm[q],
             UNCHANGED <<source, calm>>, q # p => UNCHANGED file \/ pc[p] = "idle"
      PROVE  Goal
  <2>1. /\ \A u \in Procs \ {q} : /\ pc'[u] = pc[u] /\ layer'[u] = layer[u]
                                  /\ got'[u] = got[u]
        /\ Len(got'[q]) = layer[q]
        /\ \A l \in 1..(layer[q] - 1) : got'[q][l] = got[q][l]
        /\ got'[q][layer[q]] = data
        /\ pc'[q] \in {"idle", "check"}
    <3>1. Served(q, data)
      BY <1>3, ServeFields
    <3> QED BY <3>1 DEF Served
  <2>2. /\ \A l \in 1..Len(got[p]) : got[p][l][l] = source[l].version
        /\ pc[p] \in {"read", "load"} => ~Stale(layer[p])
    BY <1>3 DEF Current
  <2>3. CASE q = p
    <3>1. Len(got[p]) = layer[p] - 1
      BY <1>3, <2>3 DEF TypeInv, Shape
    <3>2. ASSUME NEW l \in 1..Len(got'[p])
          PROVE  got'[p][l][l] = source[l].version
      <4>1. CASE l = layer[p]
        BY <1>3, <2>1, <2>3, <4>1
      <4>2. CASE l # layer[p]
        <5>1. l \in 1..(layer[p] - 1)
          BY <1>0, <2>1, <2>3, <4>2
        <5> QED BY <2>1, <2>2, <2>3, <3>1, <5>1
      <4> QED BY <4>1, <4>2
    <3> QED BY <1>3, <2>1, <2>3, <3>2
  <2>4. CASE q # p
    BY <1>3, <2>1, <2>2, <2>4 DEF Stale
  <2> QED BY <2>3, <2>4
<1>4. ASSUME NEW q \in Procs, Load(q) PROVE Goal
  <2> DEFINE data == file[layer[q]].data
  <2>1. ~disturbed /\ pc[q] = "load" /\ UNCHANGED <<source, file, broken, calm>>
    BY <1>4 DEF Load, fileVars
  <2>2. OneAtATime
    BY <2>1 DEF InOrder
  <2>3. file[layer[q]].state = "whole"
    <3>1. file[layer[q]].state \in States /\ layer[q] \in Layers
      BY <1>0 DEF TypeInv, TypeOK
    <3>2. file[layer[q]].state # "partial"
      BY <2>1, <2>2, <3>1 DEF Locks, OneAtATime
    <3> QED BY <2>1, <2>2, <3>1, <3>2 DEF Locks, OneAtATime
  <2>4. Serve(q, data) /\ data \in Seq(Nat) /\ Len(data) = layer[q]
    BY <1>0, <1>4, <2>3 DEF Load, TypeInv, TypeOK, Shape
  <2>5. data[layer[q]] = source[layer[q]].version \/ ~calm[q]
    BY <1>0, <2>1, <2>3 DEF Current, Fresh
  <2> HIDE DEF data, Goal
  <2> QED BY <1>3, <2>1, <2>4, <2>5
<1>5. ASSUME NEW q \in Procs, Dump(q) PROVE Goal
  <2>1. /\ ~disturbed /\ pc[q] = "dump" /\ UNCHANGED <<source, calm>>
        /\ Serve(q, buf[q])
    BY <1>5 DEF Dump
  <2>2. buf[q] \in Seq(Nat) /\ Len(buf[q]) = layer[q]
    BY <2>1 DEF TypeInv, TypeOK, Shape
  <2>3. buf[q][layer[q]] = source[layer[q]].version
    BY <2>1 DEF Fresh
  <2>4. q # p => pc[p] = "idle"
    BY <2>1 DEF InOrder, OneAtATime
  <2> HIDE DEF Goal
  <2> QED BY <1>3, <2>1, <2>2, <2>3, <2>4
<1>11. ASSUME NEW q \in Procs, Read(q) PROVE Goal
  <2>1. /\ ~disturbed /\ pc[q] = "read"
        /\ \A u \in Procs : pc'[u] = IF u = q THEN "load" ELSE pc[u]
        /\ UNCHANGED <<source, file, layer, got, calm>>
    BY <1>11 DEF Read, Goto, fileVars, TypeInv, TypeOK
  <2> QED BY <2>1 DEF Current, Stale
<1>6. ASSUME NEW q \in Procs, Build(q) \/ Open(q) PROVE Goal
  <2>1. /\ ~disturbed /\ pc[q] \in {"build", "open"}
        /\ pc'[q] \notin {"read", "load"}
        /\ \A u \in Procs \ {q} : pc'[u] = pc[u]
        /\ UNCHANGED <<source, layer, got, calm>>
    BY <1>6 DEF Build, Open, Goto, fileVars, TypeInv, TypeOK
  <2>2. pc'[p] \notin {"read", "load"}
    BY <2>1 DEF InOrder, OneAtATime
  <2> QED BY <2>1, <2>2 DEF Current
<1>7. ASSUME NEW q \in Procs, LockTimeout(q) PROVE FALSE
  <2>1. /\ ~disturbed /\ pc[q] = "open" /\ locking
        /\ lock[layer[q]] # NoProc \/ Readers(layer[q]) # {}
    BY <1>7 DEF LockTimeout, WriteLock
  <2>2. OneAtATime
    BY <2>1 DEF InOrder
  <2>3. Readers(layer[q]) = {}
    BY <2>1, <2>2 DEF Readers, OneAtATime
  <2>4. pc[lock[layer[q]]] = "dump" /\ lock[layer[q]] \in Procs
    BY <1>0, <2>1, <2>3 DEF Locks, TypeInv, TypeOK
  <2> QED BY <2>1, <2>2, <2>4 DEF OneAtATime
<1>8. ASSUME NEW q \in Procs, \/ ReadFails(q) \/ LockFails(q) \/ OpenFails(q)
                             \/ DumpFails(q) \/ Crash(q)
      PROVE  FALSE
  BY <1>8 DEF ReadFails, LockFails, OpenFails, DumpFails, Crash, Failure
<1>9. ASSUME NEW l \in Layers, Edit(l) PROVE FALSE
  BY <1>9 DEF Edit
<1>10. ASSUME Tick \/ UNCHANGED vars PROVE Goal
  <2>1. UNCHANGED <<source, file, pc, layer, got, failures, disturbed, calm>>
    BY <1>10 DEF Tick, vars, procVars, fileVars
  <2> QED BY <2>1 DEF Current, Stale
<1> HIDE DEF Goal
<1>12. Goal
  BY <1>1, <1>2, <1>4, <1>5, <1>6, <1>7, <1>8, <1>9, <1>10, <1>11
     DEF Next, Step
<1> QED BY <1>12 DEF Goal

\* An undisturbed import during which nothing is edited returns what the
\* sources say now at every layer, although it reads most of it from files.
THEOREM UndisturbedImportCurrent == Spec => []SequentialImportCurrent
<1>0. Init => TypeInv /\ Locks
  BY InitTypeInv, InitLocks
<1>1. Init => Fresh /\ InOrder /\ Current
  <2> SUFFICES ASSUME Init PROVE Fresh /\ InOrder /\ Current
    OBVIOUS
  <2>1. OneAtATime
    BY DEF Init, NoFile, OneAtATime
  <2>2. \A l \in Layers : file[l].state = "absent"
    BY DEF Init, NoFile
  <2>3. \A q \in Procs : pc[q] = "idle" /\ Len(got[q]) = 0 /\ 1..Len(got[q]) = {}
    BY DEF Init
  <2>4. FilesAgree /\ Obtained /\ Fresh /\ Current
    BY <2>2, <2>3 DEF FilesAgree, Obtained, Fresh, Current
  <2> QED BY <2>1, <2>4 DEF InOrder
<1>2. TypeInv /\ InOrder /\ Current => SequentialImportCurrent
  <2> SUFFICES ASSUME TypeInv, InOrder, Current, QuietEdits, ~disturbed,
                      NEW p \in Procs, calm[p], NEW l \in DOMAIN got[p]
               PROVE  got[p][l] = [j \in 1..l |-> source[j].version]
    BY DEF SequentialImportCurrent
  <2>1. got[p] \in Seq(Seq(Nat)) /\ DOMAIN got[p] = 1..Len(got[p])
    BY DEF TypeInv, TypeOK
  <2>2. got[p][l] \in Seq(Nat) /\ Len(got[p][l]) = l
    BY <2>1, ElementOfSeq DEF TypeInv, Shape
  <2>3. ASSUME NEW j \in 1..l PROVE got[p][l][j] = source[j].version
    <3>1. j \in 1..Len(got[p]) /\ j <= l /\ j \in 1..j
      BY <2>1
    <3>2. got[p][j][j] = source[j].version
      BY <3>1 DEF Current
    <3>3. j # l => got[p][l][j] = got[p][j][j]
      <4>1. j # l => j < l /\ l \in 1..Len(got[p])
        BY <2>1, <3>1
      <4>2. j # l => Begins(got[p][l], got[p][j], j)
        BY <3>1, <4>1 DEF InOrder, Obtained
      <4> QED BY <3>1, <4>2 DEF Begins
    <3> QED BY <3>2, <3>3
  <2>4. got[p][l] = [j \in 1..l |-> got[p][l][j]]
    BY <2>2
  <2> QED BY <2>3, <2>4
<1> QED BY <1>0, <1>1, <1>2, TypeInvStep, LocksStep, InOrderStep, FreshStep,
           CurrentStep, PTL DEF Spec
=============================================================================
