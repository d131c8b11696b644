------------------------- MODULE InterpretAsmProofs -------------------------
(***************************************************************************)
(* What a call of interpret_asm returns and what it leaves behind, for     *)
(* lists of any length, any number of CPUs and any labels.                 *)
(***************************************************************************)
EXTENDS InterpretAsm, FiniteSetTheorems, SequenceTheorems, TLAPS

LEMMA AsmsDiffer == Plain # Bad /\ None # Plain /\ None # Bad
<1>1. ASSUME NEW a, NEW b PROVE Cardinality({a, b}) # 3
  <2>1. Cardinality({a}) = 1 /\ IsFiniteSet({a})
    BY FS_Singleton
  <2>2. CASE a = b
    <3>1. {a, b} = {a}
      BY <2>2
    <3> QED BY <2>1, <3>1
  <2>3. CASE a # b
    <3>1. {a} \cup {b} = {a, b}
      OBVIOUS
    <3>2. Cardinality({a} \cup {b}) = Cardinality({a}) + 1
      BY <2>1, <2>3, FS_AddElement, Zenon
    <3> QED BY <2>1, <3>1, <3>2
  <2> QED BY <2>2, <2>3
<1>2. CASE Plain = Bad
  <2>1. {None, Plain, Bad} = {None, Plain}
    BY <1>2
  <2> QED BY <1>1, <2>1, ConstantsAssumption
<1>3. CASE None = Plain
  <2>1. {None, Plain, Bad} = {None, Bad}
    BY <1>3
  <2> QED BY <1>1, <2>1, ConstantsAssumption
<1>4. CASE None = Bad
  <2>1. {None, Plain, Bad} = {None, Plain}
    BY <1>4
  <2> QED BY <1>1, <2>1, ConstantsAssumption
<1> QED BY <1>2, <1>3, <1>4

LEMMA ZeroTimes == ASSUME NEW n \in Nat PROVE 0 * n = 0
OBVIOUS

\* Dividing rounded up: as many chunks as are needed, and none is empty.
LEMMA RoundedUp ==
    ASSUME NEW len \in Nat, NEW size \in Nat \ {0}
    PROVE  LET n == (len + size - 1) \div size
           IN  /\ n \in Nat
               /\ len <= n * size
               /\ \A k \in Nat : k < n => k * size < len
<1> DEFINE n == (len + size - 1) \div size
<1>1. n \in Nat /\ n * size <= len + size - 1 /\ len + size - 1 < (n + 1) * size
  BY SMTT(30)
<1> HIDE DEF n
<1>2. len <= n * size
  BY <1>1, SMTT(30)
<1>3. ASSUME NEW k \in Nat, k < n PROVE k * size < len
  <2>1. (k + 1) * size <= n * size
    BY <1>1, <1>3, SMTT(30)
  <2>2. (k + 1) * size = k * size + size
    BY SMTT(30)
  <2>3. k * size \in Nat /\ n * size \in Nat
    BY <1>1, SMTT(30)
  <2> QED BY <2>1, <2>2, <2>3, <1>1
<1> QED BY <1>1, <1>2, <1>3 DEF n

----------------------------------------------------------------------------
(***************************************************************************)
(* The invariant.  Types.                                                  *)
(***************************************************************************)
Asm == Labels \cup {Plain, Bad}

TypeInv ==
    /\ call \in {"idle", "serial", "fork", "get", "join", "returned", "raised"}
    /\ code \in Seq(Statement) /\ Len(code) <= MaxLen
    /\ labels \subseteq Labels /\ cold \in BOOLEAN
    /\ task \in [Tasks -> {"none", "scan", "interpret", "finished", "exited",
                           "raised"}]
    /\ done \in [Tasks -> Nat]
    /\ cache \in [Tasks -> SUBSET Asm]
    /\ queue \in [Tasks -> Seq(Seq(Statement))]
    /\ nfork \in Nat /\ nget \in Nat
    /\ result \in Seq(Statement)

(***************************************************************************)
(* Who runs: the caller interprets in a serial call only, and the workers  *)
(* are those started, at most one for each chunk.                          *)
(***************************************************************************)
Control ==
    /\ task[Caller] \in {"scan", "interpret"} => call = "serial"
    /\ \A w \in Workers : w > nfork => task[w] = "none"
    /\ nfork <= NChunks
    /\ call \in {"idle", "serial", "raised"} => nfork = 0
    /\ call = "fork" => nfork < NChunks /\ nget = 0
    /\ call \in {"get", "join"} => nfork = NChunks
    /\ call = "get" => nget < NChunks
    /\ NoWorkerLeft

(***************************************************************************)
(* What is on the way: a queue holds its own chunk, and what was taken     *)
(* from the queues is a prefix of the list.                                *)
(***************************************************************************)
Taken == Minimum(nget * ChunkSize, Len(code))

InTransit ==
    /\ \A w \in Workers : queue[w] # <<>>
         => /\ queue[w] = <<Chunk(w)>> /\ done[w] = Len(Chunk(w))
            /\ task[w] \in {"finished", "exited"}
    /\ call \in {"fork", "get"} => result = SubSeq(code, 1, Taken)
    /\ call \in {"join", "returned"} => result = code

(***************************************************************************)
(* What was seen: no cache and no list done, in whole or in part, holds    *)
(* anything but assembly the call may accept.                              *)
(***************************************************************************)
Valid(asm) ==
    /\ asm # Bad
    /\ cold /\ asm \in Labels => asm \in labels \cup LabelsOf(code)

Seen ==
    /\ \A t \in Tasks : \A asm \in cache[t] : Valid(asm)
    /\ \A t \in Tasks : \A n \in 1..done[t] : n <= Len(List(t))
         => Valid(List(t)[n].asm)
    /\ call \in {"fork", "get"} => \A n \in 1..Taken : Valid(code[n].asm)
    /\ call \in {"join", "returned"} =>
         \A n \in 1..Len(code) : Valid(code[n].asm)

CallInv == TypeInv /\ Control /\ InTransit /\ Seen

----------------------------------------------------------------------------
(***************************************************************************)
(* The chunks of a list.                                                   *)
(***************************************************************************)
LEMMA ChunkSizes ==
    ASSUME TypeInv
    PROVE  /\ ChunkSize \in Nat \ {0} /\ NChunks \in Nat
           /\ Len(code) <= NChunks * ChunkSize
           /\ \A k \in Nat : k < NChunks => k * ChunkSize < Len(code)
           /\ NChunks <= MaxLen
<1>1. Len(code) \in Nat
  BY DEF TypeInv
<1>2. ChunkSize \in Nat \ {0}
  BY <1>1, ConstantsAssumption DEF ChunkSize
<1>3. /\ NChunks \in Nat /\ Len(code) <= NChunks * ChunkSize
      /\ \A k \in Nat : k < NChunks => k * ChunkSize < Len(code)
  BY <1>1, <1>2, RoundedUp DEF NChunks
<1>4. NChunks <= Len(code)
  <2>1. CASE NChunks = 0
    BY <1>1, <2>1
  <2>2. CASE NChunks # 0
    <3>1. NChunks - 1 \in Nat /\ (NChunks - 1) * ChunkSize < Len(code)
      BY <1>3, <2>2
    <3>2. NChunks - 1 <= (NChunks - 1) * ChunkSize
      BY <1>2, <3>1, SMTT(30)
    <3>3. (NChunks - 1) * ChunkSize \in Nat
      BY <1>2, <3>1, SMTT(30)
    <3> QED BY <1>1, <1>3, <3>1, <3>2, <3>3
  <2> QED BY <2>1, <2>2
<1> QED BY <1>1, <1>2, <1>3, <1>4, ConstantsAssumption DEF TypeInv

LEMMA ChunkIsPart ==
    ASSUME TypeInv, NEW w \in Nat \ {0}, w <= NChunks
    PROVE  LET a == (w - 1) * ChunkSize
               b == Minimum(w * ChunkSize, Len(code))
           IN  /\ a \in Nat /\ b \in Nat /\ a < b /\ b <= Len(code)
               /\ a = Minimum(a, Len(code))
               /\ Chunk(w) = SubSeq(code, a + 1, b)
               /\ Chunk(w) \in Seq(Statement) /\ Len(Chunk(w)) = b - a
               /\ \A n \in 1..(b - a) : Chunk(w)[n] = code[a + n]
<1> DEFINE a == (w - 1) * ChunkSize
           b == Minimum(w * ChunkSize, Len(code))
<1>1. Len(code) \in Nat /\ code \in Seq(Statement)
  BY DEF TypeInv
<1>2. a \in Nat /\ a < Len(code)
  <2>1. w - 1 \in Nat /\ w - 1 < NChunks
    BY ChunkSizes
  <2>2. a < Len(code)
    BY <2>1, ChunkSizes
  <2>3. a \in Nat
    BY <2>1, ChunkSizes, SMTT(30)
  <2> QED BY <2>2, <2>3
<1>3. w * ChunkSize \in Nat /\ a < w * ChunkSize
  <2>1. w * ChunkSize = a + ChunkSize
    BY ChunkSizes, SMTT(30)
  <2> QED BY <2>1, <1>2, ChunkSizes
<1>4. b \in Nat /\ a < b /\ b <= Len(code) /\ a = Minimum(a, Len(code))
  BY <1>1, <1>2, <1>3 DEF Minimum
<1>5. Chunk(w) = SubSeq(code, a + 1, b)
  BY DEF Chunk
<1> HIDE DEF a, b
<1>6. \A i \in (a + 1)..b : code[i] \in Statement
  BY <1>1, <1>2, <1>4
<1>7. /\ SubSeq(code, a + 1, b) \in Seq(Statement)
      /\ Len(SubSeq(code, a + 1, b)) = b - a
      /\ \A n \in 1..(b - a) : SubSeq(code, a + 1, b)[n] = code[a + n]
  <2>1. a + 1 \in Int /\ b \in Int
    BY <1>2, <1>4
  <2>2. /\ SubSeq(code, a + 1, b) \in Seq(Statement)
        /\ Len(SubSeq(code, a + 1, b))
             = IF a + 1 <= b THEN b - (a + 1) + 1 ELSE 0
        /\ \A i \in 1..(b - (a + 1) + 1) :
             SubSeq(code, a + 1, b)[i] = code[(a + 1) + i - 1]
    BY <2>1, <1>6, SubSeqProperties
  <2> QED BY <2>2, <1>2, <1>4
<1> QED BY <1>2, <1>4, <1>5, <1>7 DEF a, b

\* The list of the caller and of every worker started, and its labels.
LEMMA ListIsPart ==
    ASSUME TypeInv, NEW t \in Tasks, t <= NChunks
    PROVE  /\ List(t) \in Seq(Statement)
           /\ LabelsOf(List(t)) \subseteq LabelsOf(code)
<1>1. CASE t = Caller
  BY <1>1 DEF List, TypeInv
<1>2. CASE t # Caller
  <2> DEFINE a == (t - 1) * ChunkSize
             b == Minimum(t * ChunkSize, Len(code))
  <2>1. t \in Nat \ {0} /\ List(t) = Chunk(t)
    BY <1>2 DEF Tasks, Workers, Caller, List
  <2>2. /\ a \in Nat /\ b \in Nat /\ a < b /\ b <= Len(code)
        /\ Chunk(t) \in Seq(Statement) /\ Len(Chunk(t)) = b - a
        /\ \A n \in 1..(b - a) : Chunk(t)[n] = code[a + n]
    BY <2>1, ChunkIsPart
  <2> HIDE DEF a, b
  <2>3. ASSUME NEW l \in LabelsOf(Chunk(t)) PROVE l \in LabelsOf(code)
    <3>1. PICK n \in 1..(b - a) : l = Chunk(t)[n].label /\ l # None
      BY <2>2, <2>3 DEF LabelsOf
    <3>2. a + n \in 1..Len(code) /\ Chunk(t)[n] = code[a + n]
      BY <2>2, <3>1
    <3>3. DOMAIN code = 1..Len(code)
      BY DEF TypeInv
    <3> QED BY <3>1, <3>2, <3>3 DEF LabelsOf
  <2> QED BY <2>1, <2>2, <2>3
<1> QED BY <1>1, <1>2

\* Nothing these formulas say changes while the call is the same.
LEMMA SameCall ==
    ASSUME UNCHANGED callVars
    PROVE  /\ ChunkSize' = ChunkSize /\ NChunks' = NChunks
           /\ \A w : Chunk(w)' = Chunk(w)
           /\ \A t : List(t)' = List(t)
           /\ \A asm : Valid(asm)' = Valid(asm)
<1>1. code' = code /\ labels' = labels /\ cold' = cold
  BY DEF callVars
<1>2. ChunkSize' = ChunkSize /\ NChunks' = NChunks
  BY <1>1 DEF ChunkSize, NChunks
<1>3. \A w : Chunk(w)' = Chunk(w)
  BY <1>1, <1>2 DEF Chunk
<1>4. \A t : List(t)' = List(t)
  BY <1>1, <1>3 DEF List
<1>5. \A asm : Valid(asm)' = Valid(asm)
  BY <1>1 DEF Valid, LabelsOf
<1> QED BY <1>2, <1>3, <1>4, <1>5

----------------------------------------------------------------------------
(***************************************************************************)
(* The steps of the caller.                                                *)
(***************************************************************************)
LEMMA InitInv == Init => CallInv
<1> SUFFICES ASSUME Init PROVE CallInv
  OBVIOUS
<1>1. TypeInv
  BY ConstantsAssumption DEF Init, TypeInv, Tasks
<1>2. Control
  BY <1>1, ChunkSizes DEF Init, Control, NoWorkerLeft, Tasks, Workers, Caller
<1>3. InTransit
  BY DEF Init, InTransit, Tasks
<1>4. Seen
  BY DEF Init, Seen
<1> QED BY <1>1, <1>2, <1>3, <1>4 DEF CallInv

LEMMA CallStep ==
    ASSUME CallInv, NEW c \in Codes, NEW ls \in SUBSET Labels, Call(c, ls)
    PROVE  CallInv'
<1>1. c \in Seq(Statement) /\ Len(c) \in Nat /\ Len(c) <= MaxLen
  <2>1. PICK n \in 0..MaxLen : c \in [1..n -> Statement]
    BY DEF Codes
  <2> QED BY <2>1, ConstantsAssumption
<1> USE DEF CallInv
<1>a. /\ code' = c /\ labels' = ls /\ cold' = (cache[Caller] = {})
      /\ nfork' = 0 /\ nget' = 0 /\ result' = <<>>
      /\ done' = [t \in Tasks |-> 0] /\ queue' = [t \in Tasks |-> <<>>]
      /\ cache' = [t \in Tasks |-> IF t = Caller THEN cache[t] ELSE {}]
  BY DEF Call
<1>b. \/ /\ call' = "fork" /\ Len(c) > 0
         /\ task' = [t \in Tasks |-> "none"]
      \/ /\ call' = "serial"
         /\ task' = [t \in Tasks |-> IF t = Caller THEN "scan" ELSE "none"]
  BY <1>1, ConstantsAssumption DEF Call
<1>2. TypeInv'
  <2>1. /\ call' \in {"fork", "serial"}
        /\ task' \in [Tasks -> {"none", "scan"}]
    BY <1>b
  <2>2. cache' \in [Tasks -> SUBSET Asm]
    BY <1>a DEF TypeInv
  <2>3. /\ done' \in [Tasks -> Nat]
        /\ queue' \in [Tasks -> Seq(Seq(Statement))]
        /\ cold' \in BOOLEAN
    BY <1>a
  <2>4. task' \in [Tasks -> {"none", "scan", "interpret", "finished", "exited",
                             "raised"}]
    BY <2>1
  <2> QED BY <1>1, <1>a, <2>1, <2>2, <2>3, <2>4 DEF TypeInv
<1>3. ChunkSize' \in Nat \ {0} /\ NChunks' \in Nat /\ (Len(c) > 0 => NChunks' > 0)
  <2>1. ChunkSize' \in Nat \ {0}
    BY <1>1, <1>a, ConstantsAssumption DEF ChunkSize
  <2>2. NChunks' = (Len(c) + ChunkSize' - 1) \div ChunkSize'
    BY <1>a DEF NChunks
  <2>3. NChunks' \in Nat /\ Len(c) <= NChunks' * ChunkSize'
    BY <1>1, <2>1, <2>2, RoundedUp
  <2>4. 0 * ChunkSize' = 0
    BY <2>1, ZeroTimes
  <2> QED BY <1>1, <2>1, <2>3, <2>4
<1>4. Control'
  <2>1. \A w \in Workers : w \in Tasks /\ w # Caller
    BY DEF Tasks, Workers, Caller
  <2>2. \A w \in Workers : task'[w] = "none"
    BY <1>b, <2>1
  <2>3. task'[Caller] \in {"scan", "interpret"} => call' = "serial"
    BY <1>b DEF Tasks
  <2> QED BY <1>3, <1>a, <1>b, <2>2, <2>3 DEF Control, NoWorkerLeft
<1>5. Taken' = 0
  <2>1. nget' * ChunkSize' = 0
    BY <1>3, <1>a, ZeroTimes
  <2> QED BY <1>1, <1>a, <2>1 DEF Taken, Minimum
<1>6. InTransit'
  <2>1. SubSeq(code', 1, 0) = <<>>
    BY SubSeqEmpty
  <2> QED BY <1>5, <1>a, <1>b, <2>1 DEF InTransit, Tasks, Workers
<1>7. Seen'
  <2>1. ASSUME NEW t \in Tasks, NEW asm \in cache'[t] PROVE Valid(asm)'
    <3>1. t = Caller /\ asm \in cache[Caller] /\ cold' = FALSE
      BY <1>a, <2>1
    <3>2. asm # Bad
      BY <3>1, <2>1 DEF Seen, Valid
    <3> QED BY <3>1, <3>2 DEF Valid
  <2>2. \A t \in Tasks : done'[t] = 0
    BY <1>a
  <2>3. call' \in {"fork", "serial"}
    BY <1>b
  <2> QED BY <2>1, <2>2, <2>3, <1>5 DEF Seen
<1> QED BY <1>2, <1>4, <1>6, <1>7

LEMMA ForkStep ==
    ASSUME CallInv, Fork
    PROVE  CallInv'
<1> USE DEF CallInv
<1>a. /\ call = "fork" /\ nfork' = nfork + 1
      /\ task' = [task EXCEPT ![nfork + 1] = "scan"]
      /\ cache' = [cache EXCEPT ![nfork + 1] = cache[Caller]]
      /\ call' = IF nfork + 1 = NChunks THEN "get" ELSE call
      /\ UNCHANGED callVars
      /\ UNCHANGED <<code, labels, cold, done, queue, nget, result>>
  BY DEF Fork, callVars, Started
<1>b. /\ nfork \in Nat /\ nfork < NChunks /\ NChunks \in Nat
      /\ NChunks <= MaxLen /\ nget = 0
  BY <1>a, ChunkSizes DEF TypeInv, Control
<1>c. nfork + 1 \in Workers /\ nfork + 1 \in Tasks /\ nfork + 1 # Caller
  BY <1>b, ConstantsAssumption DEF Workers, Tasks, Caller
<1>d. Caller \in Tasks
  BY DEF Tasks
<1>1. TypeInv'
  BY <1>a, <1>b, <1>c, <1>d DEF TypeInv
<1>2. Control'
  <2>1. task'[Caller] = task[Caller] /\ task[Caller] \notin {"scan", "interpret"}
    BY <1>a, <1>c, <1>d DEF TypeInv, Control
  <2>2. \A w \in Workers : w > nfork' => task'[w] = "none"
    BY <1>a, <1>b, <1>c DEF TypeInv, Control, Workers, Tasks
  <2>3. NChunks' = NChunks
    BY <1>a, SameCall
  <2> QED BY <1>a, <1>b, <2>1, <2>2, <2>3 DEF Control, NoWorkerLeft
<1>3. InTransit'
  <2>1. Taken' = Taken /\ \A w : Chunk(w)' = Chunk(w)
    BY <1>a, SameCall DEF Taken
  <2>2. ASSUME NEW w \in Workers, queue[w] # <<>>
        PROVE  task'[w] \in {"finished", "exited"}
    <3>1. task[w] \in {"finished", "exited"}
      BY <2>2 DEF InTransit
    <3>2. w # nfork + 1
      BY <1>b, <1>c, <3>1 DEF Control
    <3> QED BY <1>a, <3>1, <3>2 DEF TypeInv, Tasks
  <2> QED BY <1>a, <2>1, <2>2 DEF InTransit
<1>4. Seen'
  <2>1. /\ Taken' = Taken /\ \A t : List(t)' = List(t)
        /\ \A asm : Valid(asm)' = Valid(asm)
    BY <1>a, SameCall DEF Taken
  <2>2. ASSUME NEW t \in Tasks, NEW asm \in cache'[t] PROVE Valid(asm)
    BY <1>a, <1>c, <1>d, <2>2 DEF TypeInv, Seen
  <2> QED BY <1>a, <2>1, <2>2 DEF Seen
<1> QED BY <1>1, <1>2, <1>3, <1>4

LEMMA GetStep ==
    ASSUME CallInv, Get
    PROVE  CallInv'
<1> USE DEF CallInv
<1> DEFINE a == nget * ChunkSize
           b == Minimum((nget + 1) * ChunkSize, Len(code))
<1>a. /\ call = "get" /\ queue[nget + 1] # <<>> /\ nget' = nget + 1
      /\ result' = result \o queue[nget + 1][1]
      /\ queue' = [queue EXCEPT ![nget + 1] = <<>>]
      /\ call' = IF nget + 1 = NChunks THEN "join" ELSE call
      /\ UNCHANGED callVars
      /\ UNCHANGED <<code, labels, cold, task, done, cache, nfork>>
  BY DEF Get, callVars
<1>b. /\ nget \in Nat /\ nget < NChunks /\ nfork = NChunks /\ NChunks \in Nat
      /\ NChunks <= MaxLen
  BY <1>a, ChunkSizes DEF TypeInv, Control
<1>c. nget + 1 \in Workers /\ nget + 1 \in Tasks /\ nget + 1 # Caller
  BY <1>b, ConstantsAssumption DEF Workers, Tasks, Caller
<1>d. /\ queue[nget + 1] = <<Chunk(nget + 1)>>
      /\ done[nget + 1] = Len(Chunk(nget + 1))
  BY <1>a, <1>c DEF InTransit
<1>e. /\ a \in Nat /\ b \in Nat /\ a < b /\ b <= Len(code)
      /\ Taken = a
      /\ Chunk(nget + 1) = SubSeq(code, a + 1, b)
      /\ Chunk(nget + 1) \in Seq(Statement) /\ Len(Chunk(nget + 1)) = b - a
      /\ \A n \in 1..(b - a) : Chunk(nget + 1)[n] = code[a + n]
  <2>1. nget + 1 \in Nat \ {0} /\ nget + 1 <= NChunks /\ (nget + 1) - 1 = nget
    BY <1>b
  <2> QED BY <2>1, ChunkIsPart DEF Taken
<1>f. /\ NChunks' = NChunks /\ Taken' = b /\ (\A w : Chunk(w)' = Chunk(w))
      /\ (\A t : List(t)' = List(t))
      /\ \A asm : Valid(asm)' = Valid(asm)
  BY <1>a, SameCall DEF Taken
<1>g. nget + 1 = NChunks => b = Len(code)
  <2>1. ChunkSize \in Nat \ {0} /\ Len(code) <= NChunks * ChunkSize
    BY ChunkSizes
  <2>2. NChunks * ChunkSize \in Nat /\ Len(code) \in Nat
    BY <1>b, <2>1, SMTT(30) DEF TypeInv
  <2> QED BY <2>1, <2>2 DEF Minimum
<1> HIDE DEF a, b
<1>h. result' = SubSeq(code, 1, b)
  <2>1. result' = SubSeq(code, 1, a) \o SubSeq(code, a + 1, b)
    <3>1. result = SubSeq(code, 1, a)
      BY <1>a, <1>e DEF InTransit
    <3>2. queue[nget + 1][1] = Chunk(nget + 1)
      BY <1>d
    <3> QED BY <1>a, <1>e, <3>1, <3>2
  <2>2. code \in Seq(Statement) /\ Len(code) \in Nat
    BY DEF TypeInv
  <2>3. /\ 1 \in 1..(Len(code) + 1) /\ a \in (1 - 1)..Len(code)
        /\ b \in a..Len(code)
    BY <1>e, <2>2
  <2> QED BY <2>1, <2>2, <2>3, ConcatAdjacentSubSeq
<1>1. TypeInv'
  <2>1. result' \in Seq(Statement)
    BY <1>a, <1>d, <1>e DEF TypeInv
  <2> QED BY <1>a, <1>b, <1>c, <2>1 DEF TypeInv
<1>2. Control'
  BY <1>a, <1>b, <1>f DEF Control, NoWorkerLeft
<1>3. InTransit'
  <2>1. code \in Seq(Statement) /\ SubSeq(code, 1, Len(code)) = code
    BY SubSeqFull DEF TypeInv
  <2>2. ASSUME NEW w \in Workers, queue'[w] # <<>> PROVE queue'[w] = queue[w]
    BY <1>a, <1>c, <2>2 DEF TypeInv, Workers, Tasks
  <2> QED BY <1>a, <1>f, <1>g, <1>h, <2>1, <2>2 DEF InTransit
<1>4. Seen'
  <2>1. ASSUME NEW n \in 1..b PROVE Valid(code[n].asm)
    <3>1. CASE n <= a
      BY <1>a, <1>e, <3>1 DEF Seen
    <3>2. CASE n > a
      <4>1. n - a \in 1..(b - a) /\ a + (n - a) = n
        BY <1>e, <3>2
      <4>2. Chunk(nget + 1)[n - a] = code[n] /\ List(nget + 1) = Chunk(nget + 1)
        BY <1>c, <1>e, <4>1 DEF List
      <4>3. n - a \in 1..done[nget + 1] /\ n - a <= Len(List(nget + 1))
        BY <1>d, <1>e, <4>1, <4>2
      <4>4. Valid(List(nget + 1)[n - a].asm)
        BY <1>c, <4>3 DEF Seen
      <4> QED BY <4>2, <4>4
    <3> QED BY <1>e, <3>1, <3>2
  <2> QED BY <1>a, <1>f, <1>g, <2>1 DEF Seen
<1> QED BY <1>1, <1>2, <1>3, <1>4

LEMMA JoinStep ==
    ASSUME CallInv, Join
    PROVE  CallInv'
<1> USE DEF CallInv
<1>a. /\ call = "join" /\ call' = "returned"
      /\ UNCHANGED <<code, labels, cold, task, done, cache, queue, nfork, nget,
                     result>>
      /\ UNCHANGED callVars
      /\ \A w \in 1..nfork : task[w] \in {"exited", "raised"}
  BY DEF Join, callVars, Joined
<1>b. /\ NChunks' = NChunks /\ Taken' = Taken /\ (\A w : Chunk(w)' = Chunk(w))
      /\ (\A t : List(t)' = List(t))
      /\ \A asm : Valid(asm)' = Valid(asm)
  BY <1>a, SameCall DEF Taken
<1>1. TypeInv'
  BY <1>a DEF TypeInv
<1>2. Control'
  <2>1. ASSUME NEW w \in Workers
        PROVE  task[w] \notin {"scan", "interpret", "finished"}
    <3>1. CASE w <= nfork
      <4>1. w \in Nat /\ 1 <= w /\ nfork \in Nat
        BY ConstantsAssumption DEF Workers, TypeInv
      <4>2. w \in 1..nfork
        BY <3>1, <4>1
      <4> QED BY <1>a, <4>2
    <3>2. CASE w > nfork
      BY <3>2 DEF Control
    <3> QED BY <3>1, <3>2, ConstantsAssumption DEF Workers, TypeInv
  <2> QED BY <1>a, <1>b, <2>1 DEF Control, NoWorkerLeft
<1>3. InTransit'
  BY <1>a, <1>b DEF InTransit
<1>4. Seen'
  BY <1>a, <1>b DEF Seen
<1> QED BY <1>1, <1>2, <1>3, <1>4

----------------------------------------------------------------------------
(***************************************************************************)
(* The steps of a task.                                                    *)
(***************************************************************************)
\* A task that runs is the caller of a serial call or a started worker.
LEMMA RunningTask ==
    ASSUME CallInv, NEW t \in Tasks, task[t] \in {"scan", "interpret", "finished"},
           t = Caller => call = "serial"
    PROVE  /\ t <= NChunks
           /\ t # Caller => call \in {"fork", "get", "join"} /\ t \in Workers
           /\ List(t) \in Seq(Statement)
           /\ LabelsOf(List(t)) \subseteq LabelsOf(code)
<1> USE DEF CallInv
<1>1. NChunks \in Nat /\ nfork \in Nat
  BY ChunkSizes DEF TypeInv
<1>2. CASE t = Caller
  BY <1>1, <1>2, ListIsPart DEF Caller
<1>3. CASE t # Caller
  <2>1. t \in Workers
    BY <1>3 DEF Tasks
  <2>2. t <= nfork /\ t \in Nat /\ t > 0
    BY <1>1, <2>1, ConstantsAssumption DEF Control, Workers
  <2>3. call \notin {"idle", "serial", "raised", "returned"}
    BY <2>1, <2>2, <1>1 DEF Control, NoWorkerLeft
  <2>4. t <= NChunks
    BY <1>1, <2>2 DEF Control
  <2> QED BY <1>3, <2>1, <2>3, <2>4, ListIsPart DEF TypeInv
<1> QED BY <1>2, <1>3

LEMMA RaiseStep ==
    ASSUME CallInv, NEW t \in Tasks, task[t] \in {"scan", "interpret"}, Raise(t),
           UNCHANGED <<callVars, done, cache, queue, nfork, nget, result>>
    PROVE  CallInv'
<1> USE DEF CallInv
<1>a. /\ task' = [task EXCEPT ![t] = "raised"]
      /\ call' = IF t = Caller THEN "raised" ELSE call
      /\ UNCHANGED callVars
      /\ UNCHANGED <<code, labels, cold, done, cache, queue, nfork, nget, result>>
  BY DEF Raise, callVars
<1>b. /\ NChunks' = NChunks /\ Taken' = Taken /\ (\A w : Chunk(w)' = Chunk(w))
      /\ (\A u : List(u)' = List(u))
      /\ \A asm : Valid(asm)' = Valid(asm)
  BY <1>a, SameCall DEF Taken
<1>c. t = Caller => call = "serial"
  BY DEF Control
<1>d. /\ t # Caller => call \in {"fork", "get", "join"} /\ t \in Workers
      /\ \A w \in Workers : w \in Tasks /\ w # Caller
  BY <1>c, RunningTask DEF Tasks, Workers, Caller
<1>1. TypeInv'
  BY <1>a DEF TypeInv
<1>2. Control'
  <2>1. task'[Caller] \in {"scan", "interpret"} => call' = "serial"
    BY <1>a DEF Control, TypeInv, Tasks
  <2>2. ASSUME NEW w \in Workers, w > nfork PROVE task'[w] = "none"
    BY <1>a, <1>d, <2>2 DEF Control, TypeInv
  <2>3. call' = call \/ (call = "serial" /\ call' = "raised" /\ t = Caller)
    BY <1>a, <1>c
  <2>4. ASSUME call' = "raised", NEW w \in Workers
        PROVE  task'[w] \notin {"scan", "interpret", "finished"}
    <3>1. call = "serial" /\ nfork = 0
      BY <1>c, <1>d, <2>3, <2>4 DEF Control
    <3>2. w > 0
      BY ConstantsAssumption DEF Workers
    <3>3. task'[w] = "none"
      BY <2>2, <3>1, <3>2
    <3> QED BY <3>3
  <2>5. call' # "returned"
    BY <1>a, <1>c, <1>d
  <2>6. NoWorkerLeft'
    BY <2>4, <2>5 DEF NoWorkerLeft
  <2>7. call' \in {"idle", "serial", "raised"} => nfork = 0
    BY <2>3 DEF Control
  <2>8. /\ call' = "fork" => nfork < NChunks /\ nget = 0
        /\ call' \in {"get", "join"} => nfork = NChunks
        /\ call' = "get" => nget < NChunks
        /\ nfork <= NChunks
    BY <2>3 DEF Control
  <2> QED BY <1>a, <1>b, <2>1, <2>2, <2>6, <2>7, <2>8 DEF Control
<1>3. InTransit'
  <2>1. ASSUME NEW w \in Workers, queue[w] # <<>> PROVE task'[w] = task[w]
    BY <1>a, <1>d, <2>1 DEF InTransit, TypeInv
  <2>2. call' # call => call' = "raised"
    BY <1>a
  <2> QED BY <1>a, <1>b, <2>1, <2>2 DEF InTransit
<1>4. Seen'
  <2>1. call' # call => call' = "raised"
    BY <1>a
  <2> QED BY <1>a, <1>b, <2>1 DEF Seen
<1> QED BY <1>1, <1>2, <1>3, <1>4

\* A task goes on with its list, or has done it, and the caller is where it
\* was: only what the task does is left to check.
LEMMA TaskMoves ==
    ASSUME CallInv, NEW t \in Tasks, task[t] \in {"scan", "interpret", "finished"},
           t = Caller => call = "serial",
           NEW to \in {"scan", "interpret", "finished", "exited"},
           task' = [task EXCEPT ![t] = to], t = Caller => to # "exited",
           UNCHANGED call, UNCHANGED callVars, UNCHANGED nfork, UNCHANGED nget
    PROVE  Control'
<1> USE DEF CallInv
<1>1. NChunks' = NChunks
  BY SameCall
<1>2. /\ t # Caller => call \in {"fork", "get", "join"} /\ t \in Workers
      /\ \A w \in Workers : w \in Tasks /\ w # Caller
  BY RunningTask DEF Tasks, Workers, Caller
<1>3. task'[Caller] \in {"scan", "interpret"} => call' = "serial"
  BY DEF Control, TypeInv, Tasks
<1>4. ASSUME NEW w \in Workers, w > nfork PROVE task'[w] = "none"
  BY <1>2, <1>4 DEF Control, TypeInv
<1>5. call' \notin {"returned", "raised"}
  BY <1>2
<1> QED BY <1>1, <1>3, <1>4, <1>5 DEF Control, NoWorkerLeft

LEMMA ScanStep ==
    ASSUME CallInv, NEW t \in Tasks, Scan(t)
    PROVE  CallInv'
<1> USE DEF CallInv
<1>a. /\ task[t] = "scan"
      /\ UNCHANGED <<callVars, done, cache, queue, nfork, nget, result>>
  BY DEF Scan
<1>1. CASE DefinedTwice(List(t))
  <2>1. Raise(t)
    BY <1>1 DEF Scan
  <2> QED BY <1>a, <2>1, RaiseStep
<1>2. CASE ~DefinedTwice(List(t))
  <2>1. /\ task' = [task EXCEPT ![t] = "interpret"] /\ call' = call
        /\ UNCHANGED <<code, labels, cold>> /\ UNCHANGED callVars
    BY <1>2 DEF Scan, callVars
  <2>2. /\ Taken' = Taken /\ (\A w : Chunk(w)' = Chunk(w))
        /\ (\A u : List(u)' = List(u))
        /\ \A asm : Valid(asm)' = Valid(asm)
    BY <1>a, <2>1, SameCall DEF Taken
  <2>3. TypeInv'
    BY <1>a, <2>1 DEF TypeInv
  <2>4. Control'
    BY <1>a, <2>1, TaskMoves DEF Control
  <2>5. InTransit'
    <3>1. ASSUME NEW w \in Workers, queue[w] # <<>> PROVE task'[w] = task[w]
      BY <1>a, <2>1, <3>1 DEF InTransit, TypeInv, Tasks
    <3> QED BY <1>a, <2>1, <2>2, <3>1 DEF InTransit
  <2>6. Seen'
    BY <1>a, <2>1, <2>2 DEF Seen
  <2> QED BY <2>3, <2>4, <2>5, <2>6
<1> QED BY <1>1, <1>2

\* What a task accepts is valid: it was accepted before, or it is Plain, or a
\* label of its own list or of the caller.
LEMMA AcceptedIsValid ==
    ASSUME CallInv, NEW t \in Tasks, LabelsOf(List(t)) \subseteq LabelsOf(code),
           NEW asm \in Asm, Accepted(t, asm)
    PROVE  Valid(asm)
<1> USE DEF CallInv
<1>1. CASE asm \in cache[t]
  BY <1>1 DEF Seen
<1>2. CASE asm = Plain
  BY <1>2, AsmsDiffer, ConstantsAssumption DEF Valid
<1>3. CASE asm \in labels \cup LabelsOf(List(t)) /\ asm # Plain
  <2>1. asm \in labels \cup LabelsOf(code)
    BY <1>3
  <2>2. asm # Bad
    <3>1. ASSUME NEW n \in DOMAIN code
          PROVE  code[n].label \in Labels \cup {None}
      <4>1. code[n] \in Statement
        BY DEF TypeInv
      <4> QED BY <4>1 DEF Statement
    <3>2. asm \in Labels
      BY <2>1, <3>1 DEF LabelsOf, TypeInv
    <3> QED BY <3>2, ConstantsAssumption
  <2> QED BY <2>1, <2>2 DEF Valid
<1> QED BY <1>1, <1>2, <1>3 DEF Accepted

LEMMA InterpretStep ==
    ASSUME CallInv, NEW t \in Tasks, Interpret(t)
    PROVE  CallInv'
<1> USE DEF CallInv
<1> DEFINE asm == List(t)[done[t] + 1].asm
<1>a. /\ task[t] = "interpret" /\ done[t] < Len(List(t))
      /\ UNCHANGED <<callVars, queue, nfork, nget, result>>
  BY DEF Interpret
<1>b. /\ List(t) \in Seq(Statement) /\ LabelsOf(List(t)) \subseteq LabelsOf(code)
  BY <1>a, RunningTask DEF Control
<1>c. done[t] \in Nat /\ asm \in Asm
  <2>1. done[t] \in Nat /\ done[t] + 1 \in 1..Len(List(t))
    BY <1>a, <1>b DEF TypeInv
  <2>2. List(t)[done[t] + 1] \in Statement
    BY <1>b, <2>1
  <2> QED BY <2>1, <2>2 DEF Statement, Asm
<1>1. CASE ~Accepted(t, asm)
  <2>1. Raise(t) /\ UNCHANGED <<cache, done>>
    BY <1>1 DEF Interpret
  <2> QED BY <1>a, <2>1, RaiseStep
<1>2. CASE Accepted(t, asm)
  <2>1. /\ cache' = [cache EXCEPT ![t] = cache[t] \cup {asm}]
        /\ done' = [done EXCEPT ![t] = done[t] + 1]
        /\ UNCHANGED <<task, call>>
        /\ UNCHANGED <<code, labels, cold>>
    BY <1>2 DEF Interpret, callVars
  <2>2. Valid(asm)
    BY <1>2, <1>b, <1>c, AcceptedIsValid
  <2> HIDE DEF asm
  <2>3. /\ NChunks' = NChunks /\ Taken' = Taken /\ (\A w : Chunk(w)' = Chunk(w))
        /\ (\A u : List(u)' = List(u))
        /\ \A x : Valid(x)' = Valid(x)
    BY <1>a, <2>1, SameCall DEF Taken
  <2>4. TypeInv'
    BY <1>a, <1>c, <2>1 DEF TypeInv
  <2>5. Control'
    BY <1>a, <2>1, <2>3 DEF Control, NoWorkerLeft
  <2>6. InTransit'
    <3>1. ASSUME NEW w \in Workers, queue[w] # <<>> PROVE done'[w] = done[w]
      BY <1>a, <2>1, <3>1 DEF InTransit, TypeInv, Tasks
    <3> QED BY <1>a, <2>1, <2>3, <3>1 DEF InTransit
  <2>7. Seen'
    <3>1. ASSUME NEW u \in Tasks, NEW x \in cache'[u] PROVE Valid(x)
      BY <2>1, <2>2, <3>1 DEF Seen, TypeInv
    <3>2. ASSUME NEW u \in Tasks, NEW n \in 1..done'[u], n <= Len(List(u))
          PROVE  Valid(List(u)[n].asm)
      <4>1. CASE u # t \/ n <= done[u]
        <5>1. n \in 1..done[u]
          BY <1>c, <2>1, <4>1 DEF TypeInv
        <5> QED BY <3>2, <5>1 DEF Seen
      <4>2. CASE u = t /\ ~(n <= done[u])
        <5>1. n = done[t] + 1
          BY <1>c, <2>1, <4>2 DEF TypeInv
        <5> QED BY <2>2, <4>2, <5>1 DEF asm
      <4> QED BY <4>1, <4>2
    <3> QED BY <1>a, <2>1, <2>3, <3>1, <3>2 DEF Seen
  <2> QED BY <2>4, <2>5, <2>6, <2>7
<1> QED BY <1>1, <1>2

LEMMA FinishStep ==
    ASSUME CallInv, NEW t \in Tasks, Finish(t)
    PROVE  CallInv'
<1> USE DEF CallInv
<1>a. /\ task[t] = "interpret" /\ done[t] = Len(List(t))
      /\ task' = [task EXCEPT ![t] = "finished"]
      /\ UNCHANGED <<code, labels, cold, done, cache, nfork, nget>>
      /\ UNCHANGED callVars
  BY DEF Finish, callVars
<1>b. /\ List(t) \in Seq(Statement)
      /\ t # Caller => call \in {"fork", "get", "join"} /\ t \in Workers
      /\ t = Caller => call = "serial"
  BY <1>a, RunningTask DEF Control
<1>c. /\ NChunks' = NChunks /\ Taken' = Taken /\ (\A w : Chunk(w)' = Chunk(w))
      /\ (\A u : List(u)' = List(u))
      /\ \A x : Valid(x)' = Valid(x)
  BY <1>a, SameCall DEF Taken
<1>d. Caller \in Tasks /\ \A w \in Workers : w \in Tasks /\ w # Caller
  BY DEF Tasks, Workers, Caller
<1>1. CASE t = Caller
  <2>1. /\ call' = "returned" /\ result' = code /\ queue' = queue
        /\ call = "serial" /\ nfork = 0 /\ done[Caller] = Len(code)
    BY <1>1, <1>a, <1>b DEF Finish, List, Control
  <2>2. ASSUME NEW w \in Workers PROVE task[w] = "none" /\ task'[w] = "none"
    <3>1. w > 0
      BY ConstantsAssumption DEF Workers
    <3> QED BY <1>1, <1>a, <1>d, <2>1, <3>1 DEF Control, TypeInv
  <2>3. TypeInv'
    BY <1>a, <2>1 DEF TypeInv
  <2>4. Control'
    <3>1. task'[Caller] = "finished"
      BY <1>1, <1>a, <1>d DEF TypeInv
    <3> QED BY <1>a, <1>c, <2>1, <2>2, <3>1 DEF Control, NoWorkerLeft
  <2>5. InTransit'
    <3>1. \A w \in Workers : queue[w] = <<>>
      BY <2>2 DEF InTransit
    <3> QED BY <2>1, <1>a, <3>1 DEF InTransit
  <2>6. Seen'
    <3>1. ASSUME NEW n \in 1..Len(code) PROVE Valid(code[n].asm)
      <4>1. n \in 1..done[Caller] /\ n <= Len(List(Caller)) /\ List(Caller) = code
        BY <2>1 DEF List, TypeInv
      <4> QED BY <1>d, <4>1 DEF Seen
    <3> QED BY <1>a, <1>c, <2>1, <3>1 DEF Seen
  <2> QED BY <2>3, <2>4, <2>5, <2>6
<1>2. CASE t # Caller
  <2>1. /\ queue' = [queue EXCEPT ![t] = <<Chunk(t)>>]
        /\ UNCHANGED <<call, result>> /\ done[t] = Len(Chunk(t))
        /\ Chunk(t) \in Seq(Statement) /\ t \in Workers
    BY <1>2, <1>a, <1>b DEF Finish, List
  <2>2. TypeInv'
    BY <1>a, <2>1 DEF TypeInv
  <2>3. Control'
    BY <1>2, <1>a, <1>b, <2>1, TaskMoves
  <2>4. InTransit'
    <3>1. ASSUME NEW w \in Workers, queue'[w] # <<>>
          PROVE  /\ queue'[w] = <<Chunk(w)>> /\ done[w] = Len(Chunk(w))
                 /\ task'[w] \in {"finished", "exited"}
      <4>1. CASE w = t
        BY <1>a, <2>1, <4>1 DEF TypeInv
      <4>2. CASE w # t
        BY <1>a, <1>d, <2>1, <3>1, <4>2 DEF TypeInv, InTransit
      <4> QED BY <4>1, <4>2
    <3> QED BY <1>a, <1>c, <2>1, <3>1 DEF InTransit
  <2>5. Seen'
    BY <1>a, <1>c, <2>1 DEF Seen
  <2> QED BY <2>2, <2>3, <2>4, <2>5
<1> QED BY <1>1, <1>2

LEMMA ExitStep ==
    ASSUME CallInv, NEW t \in Tasks, Exit(t)
    PROVE  CallInv'
<1> USE DEF CallInv
<1>a. /\ t # Caller /\ task[t] = "finished"
      /\ task' = [task EXCEPT ![t] = "exited"]
      /\ UNCHANGED <<code, labels, cold, done, cache, nfork, nget>>
      /\ UNCHANGED <<call, queue, result>>
      /\ UNCHANGED callVars
  BY DEF Exit, callVars
<1>c. /\ Taken' = Taken /\ (\A w : Chunk(w)' = Chunk(w))
      /\ (\A u : List(u)' = List(u))
      /\ \A x : Valid(x)' = Valid(x)
  BY <1>a, SameCall DEF Taken
<1>1. TypeInv'
  BY <1>a DEF TypeInv
<1>2. Control'
  BY <1>a, TaskMoves
<1>3. InTransit'
  <2>1. ASSUME NEW w \in Workers, task[w] \in {"finished", "exited"}
        PROVE  task'[w] \in {"finished", "exited"}
    BY <1>a, <2>1 DEF TypeInv, Tasks
  <2> QED BY <1>a, <1>c, <2>1 DEF InTransit
<1>4. Seen'
  BY <1>a, <1>c DEF Seen
<1> QED BY <1>1, <1>2, <1>3, <1>4

LEMMA StutterStep ==
    ASSUME CallInv, UNCHANGED vars
    PROVE  CallInv'
<1>1. /\ Taken' = Taken /\ NChunks' = NChunks /\ (\A w : Chunk(w)' = Chunk(w))
      /\ (\A u : List(u)' = List(u))
      /\ \A x : Valid(x)' = Valid(x)
  BY SameCall DEF vars, callVars, Taken
<1> QED
  BY <1>1 DEF vars, CallInv, TypeInv, Control, NoWorkerLeft, InTransit, Seen

----------------------------------------------------------------------------
(***************************************************************************)
(* The theorems.                                                           *)
(***************************************************************************)
LEMMA CallInvInductive == CallInv /\ [Next]_vars => CallInv'
<1> SUFFICES ASSUME CallInv, [Next]_vars PROVE CallInv'
  OBVIOUS
<1>1. ASSUME NEW c \in Codes, NEW ls \in SUBSET Labels, Call(c, ls) PROVE CallInv'
  BY <1>1, CallStep
<1>2. ASSUME Fork \/ Get \/ Join PROVE CallInv'
  BY <1>2, ForkStep, GetStep, JoinStep
<1>3. ASSUME NEW t \in Tasks, Work(t) PROVE CallInv'
  BY <1>3, ScanStep, InterpretStep, FinishStep, ExitStep DEF Work
<1> QED BY <1>1, <1>2, <1>3, StutterStep DEF Next

THEOREM CallAlways == Spec => []CallInv
<1> QED BY InitInv, CallInvInductive, PTL DEF Spec

\* Whatever the lengths, the CPUs and the order in which workers finish, what a
\* call returns is its list, translated once and in order (asm.py lines 137-166).
THEOREM ResultIsList == Spec => []ResultInOrder
<1>1. CallInv => ResultInOrder
  BY DEF CallInv, InTransit, ResultInOrder
<1> QED BY <1>1, CallAlways, PTL

\* No worker outlives its call, however many there are (lines 162-164).
THEOREM WorkersJoined == Spec => []NoWorkerLeft
<1>1. CallInv => NoWorkerLeft
  BY DEF CallInv, Control
<1> QED BY <1>1, CallAlways, PTL

\* A call that returns has seen no statement that cannot be interpreted and,
\* from an empty cache, no label that is not declared (lines 183-221, 294-296).
THEOREM ReturnsValid == Spec => []ReturnedIsValid
<1>1. CallInv => ReturnedIsValid
  <2> SUFFICES ASSUME CallInv, call = "returned"
               PROVE  NoBad(code) /\ (cold => Declared(code, labels))
    BY DEF ReturnedIsValid
  <2>1. DOMAIN code = 1..Len(code)
    BY DEF CallInv, TypeInv
  <2>2. \A n \in DOMAIN code : Valid(code[n].asm)
    BY <2>1 DEF CallInv, Seen
  <2> QED BY <2>2 DEF Valid, NoBad, Declared
<1> QED BY <1>1, CallAlways, PTL

\* An error is reported for a list that has one only (lines 183-221): it is
\* raised by the scan of a label defined twice, or by an assembly that is in no
\* cache, is not correct, and is not a label of the list or the caller.
THEOREM ErrorsReal == Spec => []ErrorsAreReal
<1>1. Init => ErrorsAreReal
  BY DEF Init, ErrorsAreReal
<1>2. CallInv /\ ErrorsAreReal /\ [Next]_vars => ErrorsAreReal'
  <2> SUFFICES ASSUME CallInv, ErrorsAreReal, [Next]_vars, call' = "raised"
               PROVE  (\/ ~NoBad(code) \/ ~Declared(code, labels)
                       \/ DefinedTwice(code))'
    BY DEF ErrorsAreReal
  <2>1. CASE UNCHANGED <<call, code, labels>>
    BY <2>1 DEF ErrorsAreReal, NoBad, Declared, DefinedTwice, LabelsOf
  <2>2. ASSUME ~UNCHANGED <<call, code, labels>>
        PROVE  /\ UNCHANGED <<code, labels>>
               /\ \/ ~NoBad(code) \/ ~Declared(code, labels)
                  \/ DefinedTwice(code)
    <3>1. PICK t \in Tasks : Work(t)
      <4>1. ~Fork /\ ~Get /\ ~Join /\ \A c, ls : ~Call(c, ls)
        BY DEF Fork, Get, Join, Call
      <4> QED BY <2>2, <4>1 DEF Next, vars
    <3>2. UNCHANGED <<code, labels>>
      BY <3>1 DEF Work, Scan, Interpret, Finish, Exit, callVars
    <3>3. Raise(t) /\ t = Caller /\ List(t) = code
      BY <2>2, <3>1, <3>2
      DEF Work, Scan, Interpret, Finish, Exit, Raise, List
    <3>4. CASE Scan(t)
      BY <3>2, <3>3, <3>4, <2>2 DEF Scan
    <3>5. CASE Interpret(t)
      <4> DEFINE asm == code[done[t] + 1].asm
      <4>1. done[t] + 1 \in DOMAIN code /\ asm \in Asm
        <5>1. done[t] \in Nat /\ done[t] < Len(code) /\ code \in Seq(Statement)
          BY <3>3, <3>5 DEF CallInv, TypeInv, Interpret
        <5>2. done[t] + 1 \in DOMAIN code /\ code[done[t] + 1] \in Statement
          BY <5>1
        <5> QED BY <5>2 DEF Statement, Asm
      <4>2. ~Accepted(t, asm)
        BY <2>2, <3>2, <3>3, <3>5 DEF Interpret
      <4> HIDE DEF asm
      <4>3. asm = Bad \/ (asm \in Labels /\ asm \notin labels \cup LabelsOf(code))
        BY <3>3, <4>1, <4>2 DEF Accepted, Asm
      <4> QED BY <3>2, <4>1, <4>3 DEF asm, NoBad, Declared
    <3> QED BY <3>1, <3>3, <3>4, <3>5 DEF Work, Finish, Exit, Raise
  <2>3. CASE ~UNCHANGED <<call, code, labels>>
    BY <2>2, <2>3 DEF NoBad, Declared, DefinedTwice, LabelsOf
  <2> QED BY <2>1, <2>3
<1> QED BY <1>1, <1>2, CallAlways, PTL DEF Spec

=============================================================================
