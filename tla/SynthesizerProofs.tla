------------------------- MODULE SynthesizerProofs -------------------------
(***************************************************************************)
(* What holds of the synthesizer for any number of threads, any passes,    *)
(* any variables with any sizes and alignments: the types, that the        *)
(* variables one synthesis places do not overlap (of those that keep an    *)
(* earlier address nothing is shown), that a thread's context owes nothing *)
(* to other threads, that failures have a reason, and that the file of a   *)
(* thread has exactly the start and end instructions the passes made.      *)
(*                                                                         *)
(* The argument for the variables: one is placed at or above               *)
(* _vardisplacement, which then moves past it, is shared by all threads    *)
(* and starts again only with a new benchmark, when nothing is placed.     *)
(*                                                                         *)
(* The last part is about the registers and the memory that the context of *)
(* a benchmark records (ExecContext).                                      *)
(***************************************************************************)
EXTENDS Synthesizer, ExecContext, FiniteFacts, SequenceTheorems, TLAPS

Steps == {"idle", "thread", "globals", "apply"}

\* A benchmark has these fields and no others.
IsBench(b) ==
    b = [thread |-> b.thread, init |-> b.init, fini |-> b.fini,
         reserved |-> b.reserved, displacement |-> b.displacement,
         code |-> b.code, globals |-> b.globals, warnings |-> b.warnings]

TypeInv ==
    /\ threads \in 1..MaxThreads /\ symbolic \in BOOLEAN
    /\ passes \in [1..threads -> Seq(Passes)]
    /\ current \in 0..(MaxThreads + 1)
    /\ addr \in [Vars -> Int \cup {NoAddress}]
    /\ used \subseteq Passes /\ placed \subseteq Vars
    /\ at \in [step : Steps, idx : Nat]
    /\ synths \in 0..MaxSynths

\* Where synthesize is, and the thread it is on.
OnThread ==
    /\ at.step = "thread" => at.idx \in 1..threads
    /\ at.step \in {"globals", "apply"} =>
         /\ at.idx >= 1
         /\ current \in 1..threads /\ bench.thread = current

\* The variables placed so far lie below the displacement, one after another.
Under(b, a, v) == a[v] \in Int /\ a[v] + Size[v] <= b.displacement
Apart(a, v, w) == a[v] + Size[v] <= a[w] \/ a[w] + Size[w] <= a[v]
Stacked ==
    /\ IsBench(bench) /\ bench.displacement \in Nat
    /\ \A v \in placed : Under(bench, addr, v)
    /\ \A v, w \in placed : v # w => Apart(addr, v, w)

SynthInv == TypeInv /\ OnThread /\ Stacked

-----------------------------------------------------------------------------
\* The place of a variable is at or above the displacement.
LEMMA AlignedAbove ==
  ASSUME NEW d \in Nat, NEW v \in Vars
  PROVE  Aligned(d, v) \in Nat /\ Aligned(d, v) >= d
<1>1. Align[v] \in Nat \ {0} /\ DataSegment \in Nat
  BY ConstantsAssumption
<1>2. (d + DataSegment) % Align[v] \in 0..(Align[v] - 1)
  BY <1>1
<1> QED BY <1>1, <1>2 DEF Aligned

\* Registering a variable keeps everything but the list of variables, or
\* places it and moves the displacement past it.
LEMMA RegisterVarPlaces ==
  ASSUME NEW b, IsBench(b), b.displacement \in Nat,
         NEW a \in [Vars -> Int \cup {NoAddress}], NEW v \in Vars
  PROVE  LET r == RegisterVar(b, a, v)
         IN  /\ IsBench(r.bench) /\ r.bench.displacement \in Nat
             /\ r.bench.thread = b.thread
             /\ r.addr \in [Vars -> Int \cup {NoAddress}]
             /\ \/ r.addr = a /\ r.bench.displacement = b.displacement
                \/ /\ a[v] = NoAddress /\ r.addr[v] \in Int
                   /\ r.addr[v] >= b.displacement
                   /\ r.bench.displacement = r.addr[v] + Size[v]
                   /\ \A w \in Vars : w # v => r.addr[w] = a[w]
<1> DEFINE known == [b EXCEPT !.globals[b.thread] = Append(@, v)]
           d == Aligned(b.displacement, v)
<1>1. /\ IsBench(known) /\ known.displacement = b.displacement
      /\ known.thread = b.thread
  BY DEF IsBench
<1>2. CASE symbolic \/ a[v] # NoAddress
  <2>1. RegisterVar(b, a, v) = [bench |-> known, addr |-> a]
    BY <1>2 DEF RegisterVar
  <2> HIDE DEF known
  <2> DEFINE r == RegisterVar(b, a, v)
  <2>2. r.bench = known /\ r.addr = a
    BY <2>1
  <2> HIDE DEF r
  <2> QED BY <1>1, <2>2 DEF r
<1>3. CASE ~(symbolic \/ a[v] # NoAddress)
  <2>1. RegisterVar(b, a, v) =
          [bench |-> [known EXCEPT !.displacement = d + Size[v]],
           addr |-> [a EXCEPT ![v] = d]]
    BY <1>3 DEF RegisterVar
  <2>2. d \in Nat /\ d >= b.displacement
    BY AlignedAbove
  <2>3. Size[v] \in Nat
    BY ConstantsAssumption
  <2>4. LET k == [known EXCEPT !.displacement = d + Size[v]]
        IN  IsBench(k) /\ k.displacement = d + Size[v] /\ k.thread = b.thread
    <3> HIDE DEF known
    <3> QED BY <1>1 DEF IsBench
  <2> DEFINE r == RegisterVar(b, a, v)
             k == [known EXCEPT !.displacement = d + Size[v]]
  <2>5. r.bench = k /\ r.addr = [a EXCEPT ![v] = d]
    BY <2>1
  <2>6. IsBench(k) /\ k.displacement = d + Size[v] /\ k.thread = b.thread
    BY <2>4
  <2> HIDE DEF known, d, r, k
  <2>7. /\ r.addr \in [Vars -> Int \cup {NoAddress}] /\ r.addr[v] = d
        /\ \A w \in Vars : w # v => r.addr[w] = a[w]
    BY <2>2, <2>5
  <2> QED BY <1>3, <2>2, <2>3, <2>5, <2>6, <2>7 DEF r
<1> QED BY <1>2, <1>3

\* Registering a variable leaves what is placed stacked, the variable with it
\* if it was given an address.
LEMMA RegisterVarStacks ==
  ASSUME NEW b, IsBench(b), b.displacement \in Nat,
         NEW a \in [Vars -> Int \cup {NoAddress}], NEW v \in Vars,
         NEW S \in SUBSET Vars,
         \A x \in S : Under(b, a, x),
         \A x, y \in S : x # y => Apart(a, x, y)
  PROVE  LET r == RegisterVar(b, a, v)
             T == IF r.addr = a THEN S ELSE S \cup {v}
         IN  /\ \A x \in T : Under(r.bench, r.addr, x)
             /\ \A x, y \in T : x # y => Apart(r.addr, x, y)
<1> DEFINE r == RegisterVar(b, a, v)
<1>1. /\ r.bench.displacement \in Nat
      /\ \/ r.addr = a /\ r.bench.displacement = b.displacement
         \/ /\ a[v] = NoAddress /\ r.addr[v] \in Int
            /\ r.addr[v] >= b.displacement
            /\ r.bench.displacement = r.addr[v] + Size[v]
            /\ \A w \in Vars : w # v => r.addr[w] = a[w]
  BY RegisterVarPlaces
<1>2. \A x \in Vars : Size[x] \in Nat
  BY ConstantsAssumption
<1>3. NoAddress \notin Int
  BY ConstantsAssumption
<1> HIDE DEF r
<1>4. CASE r.addr = a /\ r.bench.displacement = b.displacement
  <2>1. \A x \in S : Under(r.bench, r.addr, x)
    BY <1>4 DEF Under
  <2>2. \A x, y \in S : x # y => Apart(r.addr, x, y)
    BY <1>4
  <2> QED BY <1>4, <2>1, <2>2 DEF r
<1>5. CASE /\ a[v] = NoAddress /\ r.addr[v] \in Int
           /\ r.addr[v] >= b.displacement
           /\ r.bench.displacement = r.addr[v] + Size[v]
           /\ \A w \in Vars : w # v => r.addr[w] = a[w]
  <2>1. v \notin S
    BY <1>3, <1>5 DEF Under
  <2>2. \A x \in S : /\ x # v /\ r.addr[x] = a[x] /\ r.addr[x] \in Int
                     /\ r.addr[x] + Size[x] <= r.addr[v]
    BY <1>2, <1>5, <2>1 DEF Under
  <2>3. \A x \in S \cup {v} : Under(r.bench, r.addr, x)
    BY <1>1, <1>2, <1>5, <2>2 DEF Under
  <2>4. ASSUME NEW x \in S \cup {v}, NEW y \in S \cup {v}, x # y
        PROVE  Apart(r.addr, x, y)
    <3>1. CASE x \in S /\ y \in S
      <4>1. Apart(a, x, y) /\ r.addr[x] = a[x] /\ r.addr[y] = a[y]
        BY <2>2, <2>4, <3>1
      <4> QED BY <4>1 DEF Apart
    <3>2. CASE x = v \/ y = v
      BY <2>2, <2>4, <3>2 DEF Apart
    <3> QED BY <3>1, <3>2
  <2>5. r.addr # a
    BY <1>3, <1>5
  <2> QED BY <2>3, <2>4, <2>5 DEF r
<1> QED BY <1>1, <1>4, <1>5

-----------------------------------------------------------------------------
LEMMA InitInv == Init => SynthInv
<1> SUFFICES ASSUME Init PROVE SynthInv
  OBVIOUS
<1> USE ConstantsAssumption
<1>1. TypeInv
  BY DEF Init, TypeInv, Idle, Steps
<1>2. OnThread
  BY DEF Init, OnThread, Idle
<1>3. Stacked
  BY DEF Init, Stacked, IsBench, NewBenchmark
<1> QED BY <1>1, <1>2, <1>3 DEF SynthInv

\* The benchmark after a pass that changes one field other than the
\* displacement and the thread.
SameStack(b, d) == IsBench(d) /\ d.displacement = b.displacement

LEMMA StillStacked ==
  ASSUME Stacked, SameStack(bench, bench'), UNCHANGED <<addr, placed>>
  PROVE  Stacked'
BY DEF Stacked, SameStack, Under, Apart

\* A pass of the current thread that leaves the variables alone keeps
\* everything, whether it is applied or raises.
LEMMA ApplyKeeps ==
  ASSUME SynthInv, at.step = "apply",
         UNCHANGED <<caller, current, synths, addr, placed>>,
         SameStack(bench, bench'), bench'.thread = bench.thread,
         used' \in SUBSET Passes,
         Applied \/ Raised(current, at.idx)
  PROVE  SynthInv'
<1>1. /\ at \in [step : Steps, idx : Nat]
      /\ \/ at' = [at EXCEPT !.idx = @ + 1] \/ at' = Idle
  BY DEF SynthInv, TypeInv, Applied, Raised
<1>2. TypeInv'
  BY <1>1 DEF SynthInv, TypeInv, caller, Idle, Steps
<1>3. OnThread'
  BY <1>1 DEF SynthInv, OnThread, caller, Idle
<1>4. Stacked'
  BY StillStacked DEF SynthInv
<1> QED BY <1>2, <1>3, <1>4 DEF SynthInv

\* What a new context leaves as it was.
LEMMA FreshFields ==
  ASSUME IsBench(bench), NEW t
  PROVE  LET b == FreshContext(bench, t)
         IN  /\ IsBench(b) /\ b.thread = t /\ b.reserved = {}
             /\ b.displacement = bench.displacement
             /\ b.globals = bench.globals
             /\ b.init = bench.init /\ b.fini = bench.fini
<1> DEFINE c == [bench EXCEPT !.thread = t]
           b == FreshContext(bench, t)
<1>1. /\ IsBench(c) /\ c.thread = t /\ c.displacement = bench.displacement
      /\ c.globals = bench.globals
      /\ c.init = bench.init /\ c.fini = bench.fini
  BY DEF IsBench
<1>2. b = [c EXCEPT !.reserved = {}]
  BY DEF FreshContext
<1> HIDE DEF b, c
<1> QED BY <1>1, <1>2 DEF IsBench, b

\* What adding an instruction leaves as it was.
LEMMA AddFields ==
  ASSUME IsBench(bench), NEW p
  PROVE  /\ LET b == AddInit(bench, p)
            IN  /\ IsBench(b) /\ b.displacement = bench.displacement
                /\ b.thread = bench.thread /\ b.reserved = bench.reserved
                /\ b.globals = bench.globals /\ b.fini = bench.fini
                /\ b.init = Append(bench.init, <<bench.thread, p>>)
         /\ LET b == AddFini(bench, p)
            IN  /\ IsBench(b) /\ b.displacement = bench.displacement
                /\ b.thread = bench.thread /\ b.reserved = bench.reserved
                /\ b.globals = bench.globals /\ b.init = bench.init
                /\ b.fini = Append(bench.fini, <<bench.thread, p>>)
<1>0. PICK i, f : /\ i = Append(bench.init, <<bench.thread, p>>)
                  /\ f = Append(bench.fini, <<bench.thread, p>>)
  OBVIOUS
<1> DEFINE c == [bench EXCEPT !.init = i]
           d == [bench EXCEPT !.fini = f]
<1>1. /\ IsBench(c) /\ c.displacement = bench.displacement
      /\ c.thread = bench.thread /\ c.reserved = bench.reserved
      /\ c.globals = bench.globals /\ c.fini = bench.fini
      /\ c.init = i
  BY DEF IsBench
<1>2. /\ IsBench(d) /\ d.displacement = bench.displacement
      /\ d.thread = bench.thread /\ d.reserved = bench.reserved
      /\ d.globals = bench.globals /\ d.init = bench.init
      /\ d.fini = f
  BY DEF IsBench
<1>3. AddInit(bench, p) = c /\ AddFini(bench, p) = d
  BY <1>0 DEF AddInit, AddFini
<1> HIDE DEF c, d
<1> QED BY <1>0, <1>1, <1>2, <1>3

LEMMA InvStep == SynthInv /\ [Next]_vars => SynthInv'
<1> SUFFICES ASSUME SynthInv, [Next]_vars PROVE SynthInv'
  OBVIOUS
<1>a. /\ TypeInv /\ OnThread /\ Stacked
      /\ IsBench(bench) /\ bench.displacement \in Nat
  BY DEF SynthInv, Stacked
<1>b. SameStack(bench, bench)
  BY <1>a DEF SameStack
<1>c. /\ MaxThreads \in Nat /\ MaxSynths \in Nat /\ DataSegment \in Nat
      /\ NoAddress \notin Int
  BY ConstantsAssumption
<1>1. CASE UNCHANGED vars
  BY <1>1 DEF SynthInv, TypeInv, OnThread, Stacked, Under, Apart, vars, caller
<1>2. ASSUME NEW t \in 0..(MaxThreads + 1), SetCurrentThread(t)
      PROVE  SynthInv'
  <2>1. TypeInv' /\ OnThread'
    BY <1>a, <1>2 DEF SetCurrentThread, TypeInv, OnThread, caller, Idle
  <2>2. Stacked'
    BY <1>a, <1>b, <1>2, StillStacked DEF SetCurrentThread
  <2> QED BY <2>1, <2>2 DEF SynthInv
<1>3. ASSUME NEW p \in Passes, NEW given \in 0..MaxThreads, AddPass(p, given)
      PROVE  SynthInv'
  <2>1. PICK t \in 1..threads : passes' = [passes EXCEPT ![t] = Append(@, p)]
    BY <1>3 DEF AddPass
  <2>2. passes' \in [1..threads -> Seq(Passes)]
    BY <1>a, <2>1 DEF TypeInv
  <2>3. UNCHANGED <<threads, symbolic, current, addr, used, at, bench, placed,
                    synths>>
    BY <1>3 DEF AddPass
  <2>4. TypeInv' /\ OnThread'
    BY <1>a, <2>2, <2>3 DEF TypeInv, OnThread
  <2>5. Stacked'
    BY <1>a, <1>b, <2>3, StillStacked
  <2> QED BY <2>4, <2>5 DEF SynthInv
<1>4. CASE Synthesize
  <2>1. /\ synths' \in 0..MaxSynths /\ placed' = {}
        /\ bench' = NewBenchmark(threads) /\ at' = [step |-> "thread", idx |-> 1]
        /\ UNCHANGED <<caller, current, addr, used>>
    BY <1>a, <1>c, <1>4 DEF Synthesize, TypeInv
  <2>2. TypeInv'
    BY <1>a, <2>1 DEF TypeInv, caller, Steps
  <2>3. OnThread'
    BY <1>a, <2>1 DEF OnThread, TypeInv, caller
  <2>4. Stacked'
    BY <2>1 DEF Stacked, NewBenchmark, IsBench
  <2> QED BY <2>2, <2>3, <2>4 DEF SynthInv
<1>5. CASE StartThread
  <2>1. /\ bench' = FreshContext(bench, at.idx) /\ at.step = "thread"
        /\ current' = at.idx /\ at' = [step |-> "globals", idx |-> 1]
        /\ UNCHANGED <<caller, addr, used, placed, synths>>
    BY <1>5 DEF StartThread
  <2>2. SameStack(bench, bench') /\ bench'.thread = at.idx
    <3>1. IsBench(FreshContext(bench, at.idx))
      BY <1>a, FreshFields
    <3> QED BY <1>a, <2>1, <3>1, FreshFields DEF SameStack
  <2>3. TypeInv' /\ OnThread'
    BY <1>a, <1>c, <2>1, <2>2 DEF TypeInv, OnThread, caller, Steps
  <2>4. Stacked'
    BY <1>a, <2>1, <2>2, StillStacked
  <2> QED BY <2>3, <2>4 DEF SynthInv
<1>15. CASE RegisterBasic
  <2>1. /\ at.step = "globals" /\ at' = [at EXCEPT !.idx = @ + 1]
        /\ at.idx <= Len(BasicVars)
        /\ UNCHANGED <<caller, current, used, synths>>
    BY <1>15 DEF RegisterBasic
  <2>2. /\ at \in [step : Steps, idx : Nat] /\ at.idx >= 1
        /\ addr \in [Vars -> Int \cup {NoAddress}] /\ placed \in SUBSET Vars
    BY <1>a, <2>1 DEF TypeInv, OnThread
  <2>3. PICK v \in Vars : v = BasicVars[at.idx]
    <3>1. BasicVars \in Seq(Vars) /\ Len(BasicVars) \in Nat
      BY BasicVarsAssumption
    <3>2. at.idx \in 1..Len(BasicVars)
      BY <2>1, <2>2, <3>1
    <3> QED BY <3>1, <3>2
  <2> DEFINE r == RegisterVar(bench, addr, v)
  <2>10. /\ bench' = r.bench /\ addr' = r.addr
         /\ placed' = IF r.addr = addr THEN placed ELSE placed \cup {v}
    BY <1>15, <2>3 DEF RegisterBasic
  <2>4. /\ IsBench(r.bench) /\ r.bench.displacement \in Nat
        /\ r.bench.thread = bench.thread
        /\ r.addr \in [Vars -> Int \cup {NoAddress}]
    BY <1>a, <2>2, RegisterVarPlaces
  <2>5. /\ \A x \in placed : Under(bench, addr, x)
        /\ \A x, y \in placed : x # y => Apart(addr, x, y)
    BY <1>a DEF Stacked
  <2>6. /\ \A x \in placed' : Under(r.bench, r.addr, x)
        /\ \A x, y \in placed' : x # y => Apart(r.addr, x, y)
    BY <1>a, <2>2, <2>5, <2>10, RegisterVarStacks
  <2> HIDE DEF r
  <2>7. TypeInv'
    BY <1>a, <2>1, <2>2, <2>4, <2>10 DEF TypeInv, caller
  <2>8. OnThread'
    BY <1>a, <2>1, <2>2, <2>4, <2>10 DEF OnThread, caller
  <2>9. Stacked'
    BY <2>4, <2>6, <2>10 DEF Stacked, Under, Apart
  <2> QED BY <2>7, <2>8, <2>9 DEF SynthInv
<1>16. CASE ReserveBasic
  <2>1. SameStack(bench, bench') /\ bench'.thread = bench.thread
    BY <1>a, <1>16 DEF ReserveBasic, SameStack, IsBench
  <2>2. /\ at.step = "globals" /\ at' = [step |-> "apply", idx |-> 1]
        /\ UNCHANGED <<caller, current, addr, used, placed, synths>>
    BY <1>16 DEF ReserveBasic
  <2>3. TypeInv' /\ OnThread'
    BY <1>a, <2>1, <2>2 DEF TypeInv, OnThread, caller, Steps
  <2>4. Stacked'
    BY <1>a, <2>1, <2>2, StillStacked
  <2> QED BY <2>3, <2>4 DEF SynthInv
<1>6. CASE ApplyBlock
  <2>1. SameStack(bench, bench') /\ bench'.thread = bench.thread
    BY <1>a, <1>6 DEF ApplyBlock, SameStack, IsBench
  <2> QED BY <1>a, <1>6, <2>1, ApplyKeeps DEF ApplyBlock, Applying, TypeInv
<1>7. CASE ApplyReserve
  <2>1. SameStack(bench, bench') /\ bench'.thread = bench.thread
    BY <1>a, <1>7 DEF ApplyReserve, SameStack, IsBench
  <2> QED BY <1>a, <1>7, <2>1, ApplyKeeps DEF ApplyReserve, Applying, TypeInv
<1>8. CASE ApplyUnReserve
  <2>1. SameStack(bench, bench') /\ bench'.thread = bench.thread
    BY <1>a, <1>8 DEF ApplyUnReserve, SameStack, IsBench
  <2> QED BY <1>a, <1>8, <2>1, ApplyKeeps DEF ApplyUnReserve, Applying, TypeInv
<1>9. CASE ApplyDeclare
  <2> DEFINE v == Subject[Pass]
             shifted == ~symbolic /\ addr[v] # NoAddress
             a == IF shifted THEN [addr EXCEPT ![v] = @ - DataSegment] ELSE addr
             S == IF shifted THEN placed \ {v} ELSE placed
             r == RegisterVar(bench, a, v)
             T == IF r.addr = a THEN S ELSE S \cup {v}
  <2>1. v \in Vars
    <3>1. current \in 1..threads /\ at.idx \in 1..Len(passes[current])
      BY <1>a, <1>9 DEF ApplyDeclare, Applying, OnThread, TypeInv
    <3>2. Pass \in Passes
      BY <1>a, <3>1 DEF TypeInv, Pass
    <3>3. Kind[Pass] = "declare"
      BY <1>9 DEF ApplyDeclare, Applying
    <3> QED BY <3>2, <3>3, ConstantsAssumption
  <2>2. /\ at.step = "apply" /\ UNCHANGED <<caller, current, synths, used>>
        /\ \/ addr' = a /\ placed' = S /\ bench' = bench
           \/ /\ bench' = r.bench /\ addr' = r.addr
              /\ placed' = IF shifted THEN S
                           ELSE IF r.addr = a THEN placed ELSE placed \cup {v}
        /\ Applied \/ Raised(current, at.idx)
    BY <1>9 DEF ApplyDeclare, Applying
  <2>3. /\ a \in [Vars -> Int \cup {NoAddress}]
        /\ \A x \in Vars \ {v} : a[x] = addr[x]
        /\ shifted => a[v] # NoAddress
        /\ ~shifted => a = addr
    <3>1. CASE shifted
      <4>1. addr \in [Vars -> Int \cup {NoAddress}] /\ addr[v] \in Int
        BY <1>a, <2>1, <3>1 DEF TypeInv
      <4>2. a = [addr EXCEPT ![v] = @ - DataSegment]
        BY <3>1
      <4>3. a[v] = addr[v] - DataSegment /\ addr[v] - DataSegment \in Int
        BY <1>c, <2>1, <4>1, <4>2
      <4> QED BY <1>c, <2>1, <3>1, <4>1, <4>2, <4>3
    <3>2. CASE ~shifted
      BY <1>a, <3>2 DEF TypeInv
    <3> QED BY <3>1, <3>2
  <2>4. S \in SUBSET Vars /\ S \subseteq placed /\ (shifted => v \notin S)
    BY <1>a DEF TypeInv
  <2> HIDE DEF v, a, S, shifted
  <2>5. /\ \A x \in S : Under(bench, a, x)
        /\ \A x, y \in S : x # y => Apart(a, x, y)
    <3>1. \A x \in S : a[x] = addr[x]
      BY <2>3, <2>4
    <3> QED BY <1>a, <2>4, <3>1 DEF Stacked, Under, Apart
  <2>6. /\ IsBench(r.bench) /\ r.bench.displacement \in Nat
        /\ r.bench.thread = bench.thread
        /\ r.addr \in [Vars -> Int \cup {NoAddress}]
        /\ shifted => r.addr = a
    BY <1>a, <2>1, <2>3, RegisterVarPlaces
  <2>7. /\ \A x \in T : Under(r.bench, r.addr, x)
        /\ \A x, y \in T : x # y => Apart(r.addr, x, y)
    BY <1>a, <2>1, <2>3, <2>4, <2>5, RegisterVarStacks
  <2>8. T \in SUBSET Vars
    BY <2>1, <2>4
  <2> HIDE DEF r
  <2>9. \/ addr' = a /\ placed' = S /\ bench' = bench
        \/ bench' = r.bench /\ addr' = r.addr /\ placed' = T
    <3>1. ~shifted => S = placed
      BY DEF S
    <3> QED BY <2>2, <2>6, <3>1
  <2> HIDE DEF T
  <2>10. /\ addr' \in [Vars -> Int \cup {NoAddress}] /\ placed' \in SUBSET Vars
         /\ bench'.thread = bench.thread
    BY <2>3, <2>4, <2>6, <2>8, <2>9
  <2>11. /\ at \in [step : Steps, idx : Nat]
         /\ \/ at' = [at EXCEPT !.idx = @ + 1] \/ at' = Idle
    BY <1>a, <2>2 DEF TypeInv, Applied, Raised
  <2>12. TypeInv'
    BY <1>a, <2>2, <2>10, <2>11 DEF TypeInv, caller, Idle, Steps
  <2>13. OnThread'
    BY <1>a, <2>2, <2>10, <2>11 DEF OnThread, caller, Idle
  <2>14. Stacked'
    <3>1. CASE addr' = a /\ placed' = S /\ bench' = bench
      BY <1>a, <2>5, <3>1 DEF Stacked, Under, Apart
    <3>2. CASE bench' = r.bench /\ addr' = r.addr /\ placed' = T
      BY <2>6, <2>7, <3>2 DEF Stacked, Under, Apart
    <3> QED BY <2>9, <3>1, <3>2
  <2> QED BY <2>12, <2>13, <2>14 DEF SynthInv
<1>10. CASE ApplyInit
  <2>1. SameStack(bench, AddInit(bench, Pass)) /\ AddInit(bench, Pass).thread = bench.thread
    BY <1>a, AddFields DEF SameStack
  <2>2. \/ bench' = bench /\ Raised(current, at.idx)
        \/ bench' = AddInit(bench, Pass) /\ Applied
    BY <1>10 DEF ApplyInit
  <2>3. /\ SameStack(bench, bench') /\ bench'.thread = bench.thread
        /\ Applied \/ Raised(current, at.idx)
    BY <1>b, <2>1, <2>2
  <2> QED BY <1>a, <1>10, <2>3, ApplyKeeps DEF ApplyInit, Applying, TypeInv
<1>11. CASE ApplyFini
  <2>1. SameStack(bench, AddFini(bench, Pass)) /\ AddFini(bench, Pass).thread = bench.thread
    BY <1>a, AddFields DEF SameStack
  <2>2. \/ bench' = bench /\ Raised(current, at.idx)
        \/ bench' = AddFini(bench, Pass) /\ Applied
    BY <1>11 DEF ApplyFini
  <2>3. /\ SameStack(bench, bench') /\ bench'.thread = bench.thread
        /\ Applied \/ Raised(current, at.idx)
    BY <1>b, <2>1, <2>2
  <2> QED BY <1>a, <1>11, <2>3, ApplyKeeps DEF ApplyFini, Applying, TypeInv
<1>12. CASE ApplyFix
  <2>1. bench'.thread = bench.thread /\ SameStack(bench, bench')
    BY <1>b, <1>12 DEF ApplyFix
  <2>2. Pass \in Passes
    <3>1. current \in 1..threads /\ at.idx \in 1..Len(passes[current])
      BY <1>a, <1>12 DEF ApplyFix, Applying, OnThread, TypeInv
    <3> QED BY <1>a, <3>1 DEF TypeInv, Pass
  <2>3. used' \in SUBSET Passes
    BY <1>a, <1>12, <2>2 DEF ApplyFix, TypeInv
  <2> QED BY <1>12, <2>1, <2>3, ApplyKeeps DEF ApplyFix, Applying
<1>13. CASE CheckPasses
  <2>1. SameStack(bench, bench') /\ bench'.thread = bench.thread
    BY <1>a, <1>13 DEF CheckPasses, SameStack, IsBench
  <2>2. /\ at.step = "apply" /\ UNCHANGED <<caller, current, addr, used, placed,
                                            synths>>
        /\ \/ current < threads /\ at' = [step |-> "thread", idx |-> current + 1]
           \/ at' = Idle
    BY <1>13 DEF CheckPasses
  <2>3. TypeInv'
    BY <1>a, <2>2 DEF TypeInv, OnThread, caller, Idle, Steps
  <2>4. OnThread'
    BY <1>a, <2>2 DEF TypeInv, OnThread, caller, Idle
  <2>5. Stacked'
    BY <1>a, <2>1, <2>2, StillStacked
  <2> QED BY <2>3, <2>4, <2>5 DEF SynthInv
<1>14. CASE Save
  <2>1. /\ UNCHANGED <<caller, addr, used, at, placed, synths>> /\ at = Idle
        /\ current' \in 1..threads
        /\ \E t \in 1..threads : bench' = [bench EXCEPT !.thread = t]
    <3>1. /\ UNCHANGED <<caller, addr, used, at, placed, synths>> /\ at = Idle
          /\ \/ current' = 1 /\ bench' = [bench EXCEPT !.thread = threads]
             \/ \E t \in {x \in 1..threads : bench.code[x] = <<>>} :
                  current' = t /\ bench' = [bench EXCEPT !.thread = t]
      BY <1>14 DEF Save, Complete
    <3>2. 1 \in 1..threads /\ threads \in 1..threads
      BY <1>a DEF TypeInv
    <3> QED BY <3>1, <3>2
  <2>2. SameStack(bench, bench')
    BY <1>a, <2>1 DEF SameStack, IsBench
  <2>3. TypeInv' /\ OnThread'
    <3>1. OnThread'
      BY <2>1 DEF OnThread, Idle
    <3>2. threads' = threads /\ symbolic' = symbolic /\ passes' = passes
      BY <2>1 DEF caller
    <3>3. current' \in 0..(MaxThreads + 1)
      <4>1. threads \in 1..MaxThreads
        BY <1>a DEF TypeInv
      <4>2. current' \in 1..threads
        BY <2>1
      <4> QED BY <1>c, <4>1, <4>2
    <3> QED BY <1>a, <2>1, <3>1, <3>2, <3>3 DEF TypeInv
  <2>4. Stacked'
    BY <1>a, <2>1, <2>2, StillStacked
  <2> QED BY <2>3, <2>4 DEF SynthInv
<1> QED
  BY <1>1, <1>2, <1>3, <1>4, <1>5, <1>6, <1>7, <1>8, <1>9, <1>10, <1>11, <1>12,
     <1>13, <1>14, <1>15, <1>16 DEF Next

LEMMA InvAlways == Spec => []SynthInv
BY InitInv, InvStep, PTL DEF Spec

\* The state keeps its types, and the benchmark is on the thread that is being
\* built, for any number of threads, passes, variables and syntheses.
THEOREM TypeCorrect == Spec => []TypeOK
<1>1. SynthInv => TypeOK
  BY DEF SynthInv, TypeInv, OnThread, TypeOK
<1> QED BY <1>1, InvAlways, PTL

\* Variables that one synthesis places do not overlap, whichever threads and
\* passes register them (Benchmark.register_var).
THEOREM PlacedApart == Spec => []PlacedDisjoint
<1>1. SynthInv => PlacedDisjoint
  <2> SUFFICES ASSUME SynthInv, NEW v \in placed, NEW w \in placed, v # w,
                      Bytes(v) \cap Bytes(w) # {}
               PROVE  FALSE
    BY DEF PlacedDisjoint
  <2>1. /\ v \in Vars /\ w \in Vars /\ addr[v] \in Int /\ addr[w] \in Int
        /\ Apart(addr, v, w)
    BY DEF SynthInv, TypeInv, Stacked, Under
  <2>2. Size[v] \in Nat /\ Size[w] \in Nat
    BY <2>1, ConstantsAssumption
  <2>3. PICK n \in Bytes(v) : n \in Bytes(w)
    OBVIOUS
  <2> QED BY <2>1, <2>2, <2>3 DEF Bytes, Apart
<1> QED BY <1>1, InvAlways, PTL

-----------------------------------------------------------------------------
(* A thread's context and its failures. Every pass of the thread so far is  *)
(* accounted for in the reserved registers, every variable registered is    *)
(* one that every thread has or was declared by one of them, and every      *)
(* start and end instruction was made by a pass applied before.             *)

ContextInv ==
    /\ at.step = "globals" => bench.reserved = {}
    /\ at.step = "apply" =>
         /\ at.idx <= Len(passes[current]) + 1
         /\ bench.reserved = ReservedAfter(current, at.idx - 1)

Basic == ToSet(BasicVars)
Declared(t, n, v) == \E i \in 1..n : Does(t, i, "declare", v)
Accounted(v) == v \in Basic \/ Declared(current, at.idx - 1, v)

GlobalsInv ==
    /\ bench.globals \in [1..threads -> Seq(Vars)]
    /\ at.step = "thread" => \A t \in at.idx..threads : bench.globals[t] = <<>>
    /\ at.step \in {"globals", "apply"} =>
         \A t \in (current + 1)..threads : bench.globals[t] = <<>>
    /\ at.step = "globals" =>
         \A k \in 1..Len(bench.globals[current]) :
              bench.globals[current][k] \in Basic
    /\ at.step = "apply" =>
         \A k \in 1..Len(bench.globals[current]) :
              Accounted(bench.globals[current][k])

\* The i-th pass of a thread has been applied.
Past(u, i) ==
    IF at.step = "thread" THEN u < at.idx
    ELSE IF at.step = "globals" THEN u < current
    ELSE u < current \/ (u = current /\ i < at.idx)

Instructions == (1..threads) \X Passes
Comes(instr) ==
    /\ instr \in Instructions
    /\ \E i \in 1..Len(passes[instr[1]]) :
         /\ passes[instr[1]][i] = instr[2]
         /\ Kind[instr[2]] \in {"init", "fini"}
         /\ Past(instr[1], i)
OriginInv ==
    at.step # "idle" =>
        /\ \A k \in 1..Len(bench.init) : Comes(bench.init[k])
        /\ \A k \in 1..Len(bench.fini) : Comes(bench.fini[k])
        /\ bench.init \in Seq(Instructions) /\ bench.fini \in Seq(Instructions)

FaultInv ==
    fault # NoFault =>
        /\ fault.thread \in 1..threads
        /\ fault.idx \in 1..Len(passes[fault.thread])
        /\ FaultsExplained

ThreadInv == ContextInv /\ GlobalsInv /\ FaultInv /\ OriginInv

\* A thread begins with what the environment reserves.
LEMMA ReservedFirst ==
  ASSUME NEW t
  PROVE  ReservedAfter(t, 0) = EnvReserved
<1>1. \A r \in Registers :
        (\E i \in 0..0 :
            /\ IF i = 0 THEN r \in EnvReserved ELSE Does(t, i, "reserve", r)
            /\ \A j \in (i + 1)..0 : ~Does(t, j, "unreserve", r))
        <=> r \in EnvReserved
  OBVIOUS
<1> QED BY <1>1 DEF ReservedAfter, Registers

\* A further pass adds or removes its register, or nothing.
LEMMA ReservedNext ==
  ASSUME NEW t, NEW n \in Nat, NEW p \in Passes, p = passes[t][n + 1]
  PROVE  ReservedAfter(t, n + 1) =
           IF Kind[p] = "reserve" THEN ReservedAfter(t, n) \cup {Subject[p]}
           ELSE IF Kind[p] = "unreserve" THEN ReservedAfter(t, n) \ {Subject[p]}
           ELSE ReservedAfter(t, n)
<1> DEFINE Since(r, i) ==
             IF i = 0 THEN r \in EnvReserved ELSE Does(t, i, "reserve", r)
<1>1. \A r \in Registers :
        (r \in ReservedAfter(t, n)) <=>
          \E i \in 0..n : Since(r, i) /\ \A j \in (i + 1)..n : ~Does(t, j, "unreserve", r)
  BY DEF ReservedAfter
<1>2. \A r \in Registers :
        (r \in ReservedAfter(t, n + 1)) <=>
          \E i \in 0..(n + 1) :
             Since(r, i) /\ \A j \in (i + 1)..(n + 1) : ~Does(t, j, "unreserve", r)
  BY DEF ReservedAfter
<1>3. \A r \in Registers : Since(r, n + 1) <=> Does(t, n + 1, "reserve", r)
  OBVIOUS
<1> HIDE DEF Since
<1>4. ASSUME NEW r \in Registers
      PROVE  r \in ReservedAfter(t, n + 1) <=>
               \/ Does(t, n + 1, "reserve", r)
               \/ r \in ReservedAfter(t, n) /\ ~Does(t, n + 1, "unreserve", r)
  <2>1. ASSUME r \in ReservedAfter(t, n + 1), ~Does(t, n + 1, "reserve", r)
        PROVE  r \in ReservedAfter(t, n) /\ ~Does(t, n + 1, "unreserve", r)
    <3>1. PICK i \in 0..(n + 1) :
             Since(r, i) /\ \A j \in (i + 1)..(n + 1) : ~Does(t, j, "unreserve", r)
      BY <1>2, <2>1
    <3>2. i # n + 1
      BY <1>3, <2>1, <3>1
    <3> QED BY <1>1, <3>1, <3>2
  <2>2. ASSUME Does(t, n + 1, "reserve", r)
        PROVE  r \in ReservedAfter(t, n + 1)
    <3>1. Since(r, n + 1) /\ n + 1 \in 0..(n + 1)
      BY <1>3, <2>2
    <3>2. \A j \in ((n + 1) + 1)..(n + 1) : ~Does(t, j, "unreserve", r)
      OBVIOUS
    <3> QED BY <1>2, <3>1, <3>2
  <2>3. ASSUME r \in ReservedAfter(t, n), ~Does(t, n + 1, "unreserve", r)
        PROVE  r \in ReservedAfter(t, n + 1)
    <3>1. PICK i \in 0..n :
             Since(r, i) /\ \A j \in (i + 1)..n : ~Does(t, j, "unreserve", r)
      BY <1>1, <2>3
    <3>2. \A j \in (i + 1)..(n + 1) : ~Does(t, j, "unreserve", r)
      BY <2>3, <3>1
    <3> QED BY <1>2, <3>1, <3>2
  <2> QED BY <2>1, <2>2, <2>3
<1>5. /\ ReservedAfter(t, n) \subseteq Registers
      /\ ReservedAfter(t, n + 1) \subseteq Registers
      /\ Subject[p] \in Registers
  BY DEF ReservedAfter, Registers
<1>6. \A k, r : Does(t, n + 1, k, r) <=> Kind[p] = k /\ Subject[p] = r
  BY DEF Does
<1> QED BY <1>4, <1>5, <1>6

\* What a thread's first passes reserve depends on these passes only.
LEMMA ReservedSame ==
  ASSUME NEW t, NEW n \in Nat, \A i \in 1..n : passes'[t][i] = passes[t][i]
  PROVE  ReservedAfter(t, n)' = ReservedAfter(t, n)
<1>1. \A i \in 1..n : \A k, r : Does(t, i, k, r)' <=> Does(t, i, k, r)
  BY DEF Does
<1>2. \A i \in 0..n : \A j \in (i + 1)..n : j \in 1..n
  OBVIOUS
<1> QED BY <1>1, <1>2 DEF ReservedAfter, Registers

\* An explained failure stays explained while passes are only added.
LEMMA FaultKept ==
  ASSUME SynthInv, FaultInv, UNCHANGED <<fault, threads>>, used \subseteq used',
         \A t \in 1..threads :
            /\ passes[t] \in Seq(Passes) /\ passes'[t] \in Seq(Passes)
            /\ Len(passes[t]) <= Len(passes'[t])
            /\ \A i \in 1..Len(passes[t]) : passes'[t][i] = passes[t][i]
  PROVE  FaultInv'
<1> SUFFICES ASSUME fault # NoFault PROVE FaultInv'
  BY DEF FaultInv, NoFault
<1> DEFINE t == fault.thread
           n == fault.idx
<1>1. /\ t \in 1..threads /\ n \in 1..Len(passes[t]) /\ FaultsExplained
  BY DEF FaultInv
<1>2. /\ passes[t] \in Seq(Passes) /\ passes'[t] \in Seq(Passes)
      /\ Len(passes[t]) \in Nat /\ Len(passes'[t]) \in Nat
      /\ Len(passes[t]) <= Len(passes'[t])
      /\ \A i \in 1..Len(passes[t]) : passes'[t][i] = passes[t][i]
  BY <1>1
<1>3. n \in 1..Len(passes'[t]) /\ passes'[t][n] = passes[t][n]
  BY <1>1, <1>2
<1>4. \A i \in 1..(n - 1) : passes'[t][i] = passes[t][i]
  BY <1>1, <1>2
<1>5. n - 1 \in Nat
  BY <1>1, <1>2
<1>6. ReservedAfter(t, n - 1)' = ReservedAfter(t, n - 1)
  <2> HIDE DEF t, n
  <2>1. \A u, m : m \in Nat /\ (\A i \in 1..m : passes'[u][i] = passes[u][i])
            => ReservedAfter(u, m)' = ReservedAfter(u, m)
    BY ReservedSame
  <2>2. fault' = fault
    OBVIOUS
  <2> QED BY <1>4, <1>5, <2>1, <2>2 DEF t, n
<1>7. ASSUME NEW x, LabelTaken(t, n, x) PROVE LabelTaken(t, n, x)'
  <2>1. CASE x \in ToSet(BasicVars)
    BY <2>1 DEF LabelTaken
  <2>2. CASE \E i \in 1..(n - 1) : Does(t, i, "declare", x)
    BY <1>4, <2>2 DEF LabelTaken, Does
  <2>3. CASE \E u \in 1..t : \E i \in 1..Len(passes[u]) :
               /\ (u = t => i < n)
               /\ \E kind \in {"init", "fini"} : Does(u, i, kind, x)
    <3>0. PICK u \in 1..t : \E i \in 1..Len(passes[u]) :
            /\ (u = t => i < n)
            /\ \E kind \in {"init", "fini"} : Does(u, i, kind, x)
      BY <2>3
    <3>1. PICK i \in 1..Len(passes[u]) :
            /\ (u = t => i < n)
            /\ \E kind \in {"init", "fini"} : Does(u, i, kind, x)
      BY <3>0
    <3>2. u \in 1..threads
      <4>1. threads \in Nat
        BY DEF SynthInv, TypeInv
      <4> QED BY <1>1, <4>1
    <3>3. i \in 1..Len(passes'[u]) /\ passes'[u][i] = passes[u][i]
      BY <3>2
    <3>4. \E kind \in {"init", "fini"} : Does(u, i, kind, x)'
      BY <3>1, <3>3 DEF Does
    <3> QED BY <3>1, <3>3, <3>4 DEF LabelTaken
  <2> QED BY <1>7, <2>1, <2>2, <2>3 DEF LabelTaken
<1>8. FaultsExplained'
  <2> DEFINE p == passes[t][n]
  <2>1. (passes[fault.thread][fault.idx])' = p
    BY <1>3
  <2>2. (ReservedAfter(fault.thread, fault.idx - 1))' = ReservedAfter(t, n - 1)
    BY <1>6
  <2>3. CASE Kind[p] \in {"init", "fini"} /\ Subject[p] # NoLabel
             /\ LabelTaken(t, n, Subject[p])
    <3>0. PICK x : x = Subject[p]
      OBVIOUS
    <3>1. LabelTaken(fault.thread, fault.idx, x)'
      BY <1>7, <2>3, <3>0
    <3> QED BY <2>1, <2>3, <3>0, <3>1 DEF FaultsExplained
  <2>4. CASE Kind[p] = "declare"
             /\ \/ Subject[p] \in ToSet(BasicVars)
                \/ \E i \in 1..(n - 1) : Does(t, i, "declare", Subject[p])
    <3>0. PICK x : x = Subject[p]
      OBVIOUS
    <3>1. (\E i \in 1..(fault.idx - 1) : Does(fault.thread, i, "declare", x))'
            <=> \E i \in 1..(n - 1) : Does(t, i, "declare", x)
      BY <1>4 DEF Does
    <3> QED BY <2>1, <2>4, <3>0, <3>1 DEF FaultsExplained
  <2>5. CASE \/ Kind[p] = "reserve" /\ Subject[p] \in ReservedAfter(t, n - 1)
             \/ Kind[p] = "unreserve" /\ Subject[p] \notin ReservedAfter(t, n - 1)
             \/ Kind[p] = "fix" /\ p \in used
    BY <2>1, <2>2, <2>5 DEF FaultsExplained
  <2> QED BY <1>1, <2>3, <2>4, <2>5 DEF FaultsExplained
<1> QED BY <1>1, <1>3, <1>8 DEF FaultInv

\* Registering a variable leaves the reserved registers alone and adds it to
\* the current thread's variables.
LEMMA RegisterVarAdds ==
  ASSUME NEW b, IsBench(b), NEW a, NEW v
  PROVE  LET d == RegisterVar(b, a, v).bench
         IN  /\ d.reserved = b.reserved
             /\ d.globals = [b.globals EXCEPT ![b.thread] = Append(@, v)]
<1> DEFINE g == [b.globals EXCEPT ![b.thread] = Append(@, v)]
           known == [b EXCEPT !.globals[b.thread] = Append(@, v)]
           d == RegisterVar(b, a, v).bench
           e == Aligned(b.displacement, v) + Size[v]
<1>1. IsBench(known) /\ known.reserved = b.reserved /\ known.globals = g
  BY DEF IsBench
<1>2. d = known \/ d = [known EXCEPT !.displacement = e]
  BY DEF RegisterVar
<1> HIDE DEF known, d, g, e
<1>3. d.reserved = known.reserved /\ d.globals = known.globals
  BY <1>1, <1>2 DEF IsBench
<1> QED BY <1>1, <1>3 DEF d, g

\* Registering a variable is no matter of the instructions.
LEMMA RegisterVarMakesNone ==
  ASSUME NEW b, IsBench(b), NEW a, NEW v
  PROVE  LET r == RegisterVar(b, a, v)
         IN  r.bench.init = b.init /\ r.bench.fini = b.fini
<1> DEFINE known == [b EXCEPT !.globals[b.thread] = Append(@, v)]
           d == Aligned(b.displacement, v)
           moved == [known EXCEPT !.displacement = d + Size[v]]
<1>1. known.init = b.init /\ known.fini = b.fini /\ IsBench(known)
  BY DEF IsBench
<1> HIDE DEF known, d
<1>2. moved.init = known.init /\ moved.fini = known.fini
  BY <1>1 DEF IsBench
<1> HIDE DEF moved
<1>3. RegisterVar(b, a, v).bench \in {known, moved}
  BY DEF RegisterVar, known, moved, d
<1> QED BY <1>1, <1>2, <1>3

\* What has become of a variable list one variable was added to.
LEMMA Added ==
  ASSUME NEW g \in [1..threads -> Seq(Vars)], NEW t \in 1..threads,
         NEW v \in Vars, NEW h, h = [g EXCEPT ![t] = Append(@, v)]
  PROVE  /\ h \in [1..threads -> Seq(Vars)]
         /\ \A u \in 1..threads : u # t => h[u] = g[u]
         /\ Len(h[t]) = Len(g[t]) + 1 /\ h[t][Len(g[t]) + 1] = v
         /\ \A k \in 1..Len(g[t]) : h[t][k] = g[t][k]
<1>1. h[t] = Append(g[t], v) /\ g[t] \in Seq(Vars)
  OBVIOUS
<1>2. h \in [1..threads -> Seq(Vars)] /\ \A u \in 1..threads : u # t => h[u] = g[u]
  BY <1>1
<1> QED BY <1>1, <1>2

\* The pass that is applied, and the passes as they were.
LEMMA PassOfThread ==
  ASSUME SynthInv, at.step = "apply", at.idx <= Len(passes[current])
  PROVE  /\ current \in 1..threads /\ bench.thread = current
         /\ at.idx \in Nat /\ at.idx >= 1
         /\ passes[current] \in Seq(Passes) /\ Len(passes[current]) \in Nat
         /\ at.idx \in 1..Len(passes[current])
         /\ Pass \in Passes /\ Pass = passes[current][at.idx]
<1>1. /\ current \in 1..threads /\ bench.thread = current
      /\ at.idx \in Nat /\ at.idx >= 1
      /\ passes \in [1..threads -> Seq(Passes)]
  BY DEF SynthInv, OnThread, TypeInv
<1>2. passes[current] \in Seq(Passes)
  BY <1>1
<1>3. Len(passes[current]) \in Nat /\ at.idx \in 1..Len(passes[current])
  BY <1>1, <1>2
<1>4. passes[current][at.idx] \in Passes
  BY <1>2, <1>3
<1> QED BY <1>1, <1>2, <1>3, <1>4 DEF Pass

\* A pass that is applied keeps the account of the reserved registers when it
\* does to them what its class says.
LEMMA ContextStep ==
  ASSUME SynthInv, ContextInv, at.step = "apply",
         at.idx <= Len(passes[current]), UNCHANGED <<caller, current>>,
         \/ at' = Idle
         \/ /\ at' = [at EXCEPT !.idx = @ + 1]
            /\ bench'.reserved =
                 IF Kind[Pass] = "reserve"
                 THEN bench.reserved \cup {Subject[Pass]}
                 ELSE IF Kind[Pass] = "unreserve"
                 THEN bench.reserved \ {Subject[Pass]}
                 ELSE bench.reserved
  PROVE  ContextInv'
<1>1. CASE at' = Idle
  BY <1>1 DEF ContextInv, Idle
<1>2. CASE at' # Idle
  <2>1. /\ current \in 1..threads /\ at.idx \in Nat /\ at.idx >= 1
        /\ Len(passes[current]) \in Nat
        /\ Pass \in Passes /\ Pass = passes[current][at.idx]
    BY PassOfThread
  <2>2. /\ at'.step = "apply" /\ at'.idx = at.idx + 1
        /\ passes' = passes /\ current' = current
    <3>1. at \in [step : Steps, idx : Nat]
      BY DEF SynthInv, TypeInv
    <3> QED BY <1>2, <3>1 DEF caller
  <2>3. PICK n \in Nat : n + 1 = at.idx
    <3>1. at.idx - 1 \in Nat /\ (at.idx - 1) + 1 = at.idx
      BY <2>1
    <3> QED BY <3>1
  <2>4. bench.reserved = ReservedAfter(current, n)
    <3>1. at.idx - 1 = n
      BY <2>1, <2>3
    <3> QED BY <3>1 DEF ContextInv
  <2>5. Pass = passes[current][n + 1]
    BY <2>1, <2>3
  <2>6. ReservedAfter(current, n + 1) = bench'.reserved
    <3> DEFINE p == Pass
               t == current
    <3>1. \A m \in Nat : \A q \in Passes : q = passes[t][m + 1] =>
             ReservedAfter(t, m + 1) =
               IF Kind[q] = "reserve" THEN ReservedAfter(t, m) \cup {Subject[q]}
               ELSE IF Kind[q] = "unreserve" THEN ReservedAfter(t, m) \ {Subject[q]}
               ELSE ReservedAfter(t, m)
      BY ReservedNext
    <3> QED BY <1>2, <2>1, <2>3, <2>4, <2>5, <3>1
  <2>7. ReservedAfter(current, n + 1)' = ReservedAfter(current, n + 1)
    <3>1. \A u, m : m \in Nat /\ (\A i \in 1..m : passes'[u][i] = passes[u][i])
            => ReservedAfter(u, m)' = ReservedAfter(u, m)
      BY ReservedSame
    <3> QED BY <2>2, <2>3, <3>1
  <2>8. at'.idx - 1 = n + 1 /\ at'.idx <= Len(passes'[current']) + 1
    BY <2>1, <2>2, <2>3
  <2> QED BY <2>2, <2>6, <2>7, <2>8 DEF ContextInv
<1> QED BY <1>1, <1>2

\* A pass that registers nothing keeps the account of the variables.
LEMMA GlobalsStep ==
  ASSUME SynthInv, GlobalsInv, at.step = "apply",
         UNCHANGED <<caller, current>>, bench'.globals = bench.globals,
         at' = Idle \/ at' = [at EXCEPT !.idx = @ + 1]
  PROVE  GlobalsInv'
<1>1. /\ at \in [step : Steps, idx : Nat]
      /\ threads' = threads /\ passes' = passes /\ current' = current
  BY DEF SynthInv, TypeInv, caller
<1>2. bench'.globals \in [1..threads' -> Seq(Vars)]
  BY <1>1 DEF GlobalsInv
<1>3. CASE at' = Idle
  BY <1>2, <1>3 DEF GlobalsInv, Idle
<1>4. CASE at' = [at EXCEPT !.idx = @ + 1]
  <2>1. at'.step = "apply" /\ at'.idx = at.idx + 1 /\ at.idx \in Nat
    BY <1>1, <1>4
  <2>2. \A v : Accounted(v) => Accounted(v)'
    <3>1. \A i \in 1..(at.idx - 1) : i \in 1..(at'.idx - 1)
      BY <2>1
    <3> QED BY <1>1, <3>1 DEF Accounted, Declared, Does, Basic
  <2> QED BY <1>1, <1>2, <2>1, <2>2 DEF GlobalsInv
<1> QED BY <1>3, <1>4

\* A pass that raises for a reason of its own thread is an explained failure.
LEMMA FaultStep ==
  ASSUME SynthInv, at.step = "apply", at.idx <= Len(passes[current]),
         UNCHANGED caller, used \subseteq used', Raised(current, at.idx),
         \/ /\ Kind[Pass] = "reserve"
            /\ Subject[Pass] \in ReservedAfter(current, at.idx - 1)
         \/ /\ Kind[Pass] = "unreserve"
            /\ Subject[Pass] \notin ReservedAfter(current, at.idx - 1)
         \/ Kind[Pass] = "declare" /\ Accounted(Subject[Pass])
         \/ Kind[Pass] = "fix" /\ Pass \in used
         \/ /\ Kind[Pass] \in {"init", "fini"} /\ Subject[Pass] # NoLabel
            /\ LabelTaken(current, at.idx, Subject[Pass])
  PROVE  FaultInv'
<1>1. /\ current \in 1..threads
      /\ at.idx \in Nat /\ at.idx >= 1 /\ at.idx \in 1..Len(passes[current])
      /\ Pass = passes[current][at.idx]
  BY PassOfThread
<1>2. /\ fault'.thread = current /\ fault'.idx = at.idx
      /\ threads' = threads /\ passes' = passes
  BY DEF Raised, caller
<1>3. PICK t \in 1..threads, n \in Nat :
         /\ t = current /\ n + 1 = at.idx /\ n = at.idx - 1
  <2>1. at.idx - 1 \in Nat /\ (at.idx - 1) + 1 = at.idx
    BY <1>1
  <2> QED BY <1>1, <2>1
<1>4. ReservedAfter(t, n)' = ReservedAfter(t, n)
  <2>1. \A i \in 1..n : passes'[t][i] = passes[t][i]
    BY <1>2
  <2> QED BY <2>1, ReservedSame
<1>5. fault'.thread = t /\ fault'.idx - 1 = n
  BY <1>2, <1>3
<1>6. PICK p \in Passes : p = Pass /\ p = passes'[fault'.thread][fault'.idx]
  BY <1>1, <1>2, PassOfThread
<1>7. (\E i \in 1..n : Does(t, i, "declare", Subject[p]))'
        <=> \E i \in 1..n : Does(t, i, "declare", Subject[p])
  BY <1>2 DEF Does
<1>8. \/ Kind[p] = "reserve" /\ Subject[p] \in ReservedAfter(t, n)
      \/ Kind[p] = "unreserve" /\ Subject[p] \notin ReservedAfter(t, n)
      \/ /\ Kind[p] = "declare"
         /\ \/ Subject[p] \in ToSet(BasicVars)
            \/ \E i \in 1..n : Does(t, i, "declare", Subject[p])
      \/ Kind[p] = "fix" /\ p \in used'
      \/ /\ Kind[p] \in {"init", "fini"} /\ Subject[p] # NoLabel
         /\ LabelTaken(current, at.idx, Subject[p])
  BY <1>3, <1>6 DEF Accounted, Declared, Basic
<1>10. LabelTaken(current, at.idx, Subject[p])
         => LabelTaken(fault.thread, fault.idx, Subject[p])'
  <2>1. \A u, i, k, x : Does(u, i, k, x)' <=> Does(u, i, k, x)
    BY <1>2 DEF Does
  <2> QED BY <1>2, <2>1 DEF LabelTaken
<1>9. FaultsExplained'
  BY <1>4, <1>5, <1>6, <1>7, <1>8, <1>10 DEF FaultsExplained
<1> QED BY <1>1, <1>2, <1>9 DEF FaultInv

\* What a pass adds to the benchmark for the thread it is applied to: the
\* instruction of a start or end pass.
Extends(b, d, u, p) ==
    /\ d.init = IF Kind[p] = "init" THEN Append(b.init, <<u, p>>) ELSE b.init
    /\ d.fini = IF Kind[p] = "fini" THEN Append(b.fini, <<u, p>>) ELSE b.fini

\* The instructions come from where they came as long as no pass is undone.
LEMMA OriginStays ==
  ASSUME OriginInv, at.step # "idle", UNCHANGED <<threads, passes>>,
         bench'.init = bench.init, bench'.fini = bench.fini,
         \A u \in 1..threads : \A i \in 1..Len(passes[u]) :
            Past(u, i) => Past(u, i)'
  PROVE  OriginInv'
<1>1. \A x : Comes(x) => Comes(x)'
  <2> SUFFICES ASSUME NEW x, Comes(x) PROVE Comes(x)'
    OBVIOUS
  <2>1. x \in Instructions /\ x[1] \in 1..threads
    BY DEF Comes, Instructions
  <2>2. PICK i \in 1..Len(passes[x[1]]) :
           /\ passes[x[1]][i] = x[2] /\ Kind[x[2]] \in {"init", "fini"}
           /\ Past(x[1], i)
    BY DEF Comes
  <2>3. Past(x[1], i)'
    BY <2>1, <2>2
  <2> QED BY <2>1, <2>2, <2>3 DEF Comes, Instructions
<1> QED BY <1>1 DEF OriginInv, Instructions

\* A pass that is applied is the origin of the instruction it makes.
LEMMA OriginNext ==
  ASSUME SynthInv, OriginInv, at.step = "apply", at.idx <= Len(passes[current]),
         UNCHANGED <<caller, current>>, Applied,
         Extends(bench, bench', bench.thread, Pass)
  PROVE  OriginInv'
<1>1. /\ current \in 1..threads /\ bench.thread = current
      /\ at.idx \in 1..Len(passes[current])
      /\ Pass \in Passes /\ Pass = passes[current][at.idx]
      /\ at \in [step : Steps, idx : Nat] /\ threads \in Nat
  BY PassOfThread DEF SynthInv, TypeInv
<1>2. /\ at'.step = "apply" /\ at'.idx = at.idx + 1 /\ at.idx \in Nat
      /\ threads' = threads /\ passes' = passes /\ current' = current
  BY <1>1 DEF Applied, caller
<1>3. \A u, i : Past(u, i) /\ i \in Nat => Past(u, i)'
  BY <1>1, <1>2 DEF Past
<1>4. ASSUME NEW x, Comes(x) PROVE Comes(x)'
  <2>1. x \in Instructions /\ x[1] \in 1..threads
    BY <1>4 DEF Comes, Instructions
  <2>2. PICK i \in 1..Len(passes[x[1]]) :
           /\ passes[x[1]][i] = x[2] /\ Kind[x[2]] \in {"init", "fini"}
           /\ Past(x[1], i)
    BY <1>4 DEF Comes
  <2>3. Past(x[1], i)'
    BY <1>3, <2>2
  <2> QED BY <1>2, <2>1, <2>2, <2>3 DEF Comes, Instructions
<1>5. PICK x : /\ x = <<current, Pass>> /\ x \in Instructions
              /\ (Kind[Pass] \in {"init", "fini"} => Comes(x)')
  <2>1. PICK u, i, q, x :
          /\ u = current /\ i = at.idx /\ q = Pass /\ x = <<u, q>>
    OBVIOUS
  <2>2. x \in Instructions /\ x[1] = u /\ x[2] = q
    BY <1>1, <2>1 DEF Instructions
  <2>3. Past(u, i)'
    BY <1>1, <1>2, <2>1 DEF Past
  <2>4. i \in 1..Len(passes'[u]) /\ passes'[u][i] = q
    BY <1>1, <1>2, <2>1
  <2>5. x \in Instructions'
    BY <1>2, <2>2 DEF Instructions
  <2>6. Kind[q] \in {"init", "fini"} => Comes(x)'
    BY <2>2, <2>3, <2>4, <2>5 DEF Comes
  <2> QED BY <2>1, <2>2, <2>6
<1>6. ASSUME NEW s \in Seq(Instructions), NEW t, NEW kind \in {"init", "fini"},
             \A k \in 1..Len(s) : Comes(s[k]),
             t = IF Kind[Pass] = kind THEN Append(s, <<current, Pass>>) ELSE s
      PROVE  t \in Seq(Instructions) /\ \A k \in 1..Len(t) : Comes(t[k])'
  <2>1. CASE Kind[Pass] # kind
    BY <1>4, <1>6, <2>1
  <2>2. CASE Kind[Pass] = kind
    <3>0. Kind[Pass] \in {"init", "fini"}
      BY <2>2
    <3>1. x \in Instructions /\ x = <<current, Pass>> /\ Comes(x)'
      BY <1>5, <3>0
    <3>2. /\ t \in Seq(Instructions) /\ Len(t) = Len(s) + 1 /\ Len(s) \in Nat
          /\ \A k \in 1..Len(t) : t[k] = IF k = Len(s) + 1 THEN x ELSE s[k]
      BY <1>6, <2>2, <3>1
    <3>3. ASSUME NEW k \in 1..Len(t) PROVE Comes(t[k])'
      <4>1. CASE k = Len(s) + 1
        <5>1. t[k] = x
          BY <3>2, <4>1
        <5> QED BY <3>1, <5>1
      <4>2. CASE k # Len(s) + 1
        <5>1. k \in 1..Len(s) /\ t[k] = s[k]
          BY <3>2, <4>2
        <5>2. PICK y : y = s[k] /\ Comes(y)'
          BY <1>4, <1>6, <5>1
        <5> QED BY <5>1, <5>2
      <4> QED BY <4>1, <4>2
    <3> QED BY <3>2, <3>3
  <2> QED BY <2>1, <2>2
<1>7. /\ bench'.init \in Seq(Instructions)
      /\ \A k \in 1..Len(bench'.init) : Comes(bench.init[k])'
  <2>1. PICK s, t :
          /\ s \in Seq(Instructions) /\ s = bench.init /\ \A k \in 1..Len(s) : Comes(s[k])
          /\ t = bench'.init
          /\ t = IF Kind[Pass] = "init" THEN Append(s, <<current, Pass>>) ELSE s
    BY <1>1 DEF OriginInv, Extends
  <2>2. t \in Seq(Instructions) /\ \A k \in 1..Len(t) : Comes(t[k])'
    BY <1>6, <2>1
  <2>3. \A k \in 1..Len(t) : Comes(bench.init[k])'
    <3>1. \A k : t[k] = bench'.init[k]
      BY <2>1
    <3> QED BY <2>2, <3>1 DEF Comes
  <2> QED BY <2>1, <2>2, <2>3
<1>8. /\ bench'.fini \in Seq(Instructions)
      /\ \A k \in 1..Len(bench'.fini) : Comes(bench.fini[k])'
  <2>1. PICK s, t :
          /\ s \in Seq(Instructions) /\ s = bench.fini /\ \A k \in 1..Len(s) : Comes(s[k])
          /\ t = bench'.fini
          /\ t = IF Kind[Pass] = "fini" THEN Append(s, <<current, Pass>>) ELSE s
    BY <1>1 DEF OriginInv, Extends
  <2>2. t \in Seq(Instructions) /\ \A k \in 1..Len(t) : Comes(t[k])'
    BY <1>6, <2>1
  <2>3. \A k \in 1..Len(t) : Comes(bench.fini[k])'
    <3>1. \A k : t[k] = bench'.fini[k]
      BY <2>1
    <3> QED BY <2>2, <3>1 DEF Comes
  <2> QED BY <2>1, <2>2, <2>3
<1> QED BY <1>2, <1>7, <1>8 DEF OriginInv, Instructions

\* A label that is found defined is a variable every thread has or the thread
\* declared, or comes from a start or end pass applied before.
LEMMA LabelFault ==
  ASSUME SynthInv, ThreadInv, at.step = "apply", at.idx <= Len(passes[current]),
         DefinedTwice
  PROVE  /\ Subject[Pass] # NoLabel
         /\ LabelTaken(current, at.idx, Subject[Pass])
<1> DEFINE x == Subject[Pass]
<1>1. /\ current \in 1..threads /\ bench.thread = current /\ at.idx \in Nat
  BY PassOfThread
<1>2. /\ x # NoLabel
      /\ \/ x \in ToSet(bench.globals[current])
         \/ \E i \in ToSet(bench.init) \cup ToSet(bench.fini) : x = Subject[i[2]]
  BY <1>1 DEF DefinedTwice, Labels
<1> HIDE DEF x
<1>3. CASE x \in ToSet(bench.globals[current])
  <2>1. bench.globals[current] \in Seq(Vars)
    BY <1>1 DEF ThreadInv, GlobalsInv
  <2>2. PICK k \in 1..Len(bench.globals[current]) : bench.globals[current][k] = x
    BY <1>3, <2>1 DEF ToSet
  <2>3. Accounted(x)
    BY <2>2 DEF ThreadInv, GlobalsInv
  <2>4. LabelTaken(current, at.idx, x)
    BY <2>3 DEF Accounted, Declared, Basic, LabelTaken
  <2> QED BY <1>2, <2>4 DEF x
<1>4. CASE \E i \in ToSet(bench.init) \cup ToSet(bench.fini) : x = Subject[i[2]]
  <2>1. PICK i \in ToSet(bench.init) \cup ToSet(bench.fini) : x = Subject[i[2]]
    BY <1>4
  <2>2. /\ bench.init \in Seq(Instructions) /\ bench.fini \in Seq(Instructions)
        /\ \A k \in 1..Len(bench.init) : Comes(bench.init[k])
        /\ \A k \in 1..Len(bench.fini) : Comes(bench.fini[k])
    BY DEF ThreadInv, OriginInv
  <2>3. Comes(i)
    <3>1. CASE i \in ToSet(bench.init)
      <4>1. PICK k \in 1..Len(bench.init) : bench.init[k] = i
        BY <2>2, <3>1 DEF ToSet
      <4> QED BY <2>2, <4>1
    <3>2. CASE i \in ToSet(bench.fini)
      <4>1. PICK k \in 1..Len(bench.fini) : bench.fini[k] = i
        BY <2>2, <3>2 DEF ToSet
      <4> QED BY <2>2, <4>1
    <3> QED BY <2>1, <3>1, <3>2
  <2>4. PICK j \in 1..Len(passes[i[1]]) :
           /\ passes[i[1]][j] = i[2] /\ Kind[i[2]] \in {"init", "fini"}
           /\ i[1] < current \/ (i[1] = current /\ j < at.idx)
    BY <2>3 DEF Comes, Past
  <2>5. i[1] \in 1..threads
    BY <2>3 DEF Comes, Instructions
  <2>6. i[1] \in 1..current /\ (i[1] = current => j < at.idx)
    BY <1>1, <2>4, <2>5
  <2>7. Does(i[1], j, Kind[i[2]], x)
    BY <2>1, <2>4 DEF Does
  <2>8. LabelTaken(current, at.idx, x)
    BY <2>4, <2>6, <2>7 DEF LabelTaken
  <2> QED BY <1>2, <2>8 DEF x
<1> QED BY <1>2, <1>3, <1>4

LEMMA ThreadInit == Init => ThreadInv
BY DEF Init, ThreadInv, ContextInv, GlobalsInv, FaultInv, OriginInv, Idle,
       NewBenchmark

\* Outside of a synthesis only the failure has to be remembered.
LEMMA IdleStep ==
  ASSUME ThreadInv, at'.step = "idle", FaultInv',
         bench'.globals = bench.globals, UNCHANGED threads
  PROVE  ThreadInv'
BY DEF ThreadInv, ContextInv, GlobalsInv, OriginInv

\* A pass that registers nothing, applied or raised for a reason.
LEMMA PassStep ==
  ASSUME SynthInv, ThreadInv, at.step = "apply", at.idx <= Len(passes[current]),
         UNCHANGED <<caller, current>>, used \subseteq used',
         bench'.globals = bench.globals,
         \/ /\ Applied /\ Extends(bench, bench', bench.thread, Pass)
            /\ bench'.reserved =
                 IF Kind[Pass] = "reserve"
                 THEN bench.reserved \cup {Subject[Pass]}
                 ELSE IF Kind[Pass] = "unreserve"
                 THEN bench.reserved \ {Subject[Pass]}
                 ELSE bench.reserved
         \/ /\ Raised(current, at.idx)
            /\ \/ /\ Kind[Pass] = "reserve"
                  /\ Subject[Pass] \in bench.reserved
               \/ /\ Kind[Pass] = "unreserve"
                  /\ Subject[Pass] \notin bench.reserved
               \/ Kind[Pass] = "declare" /\ Accounted(Subject[Pass])
               \/ Kind[Pass] = "fix" /\ Pass \in used
               \/ Kind[Pass] \in {"init", "fini"} /\ DefinedTwice
  PROVE  ThreadInv'
<1>1. ContextInv /\ GlobalsInv /\ FaultInv /\ OriginInv
  BY DEF ThreadInv
<1>2. ContextInv'
  BY <1>1, ContextStep DEF Applied, Raised
<1>3. GlobalsInv'
  BY <1>1, GlobalsStep DEF Applied, Raised
<1>4. CASE Applied /\ Extends(bench, bench', bench.thread, Pass)
  <2>1. \A t \in 1..threads : passes[t] \in Seq(Passes) /\ Len(passes[t]) \in Nat
    BY DEF SynthInv, TypeInv
  <2>2. FaultInv'
    BY <1>1, <1>4, <2>1, FaultKept DEF Applied, caller
  <2>3. OriginInv'
    BY <1>1, <1>4, OriginNext
  <2> QED BY <1>2, <1>3, <2>2, <2>3 DEF ThreadInv
<1>5. CASE ~(Applied /\ Extends(bench, bench', bench.thread, Pass))
  <2>1. bench.reserved = ReservedAfter(current, at.idx - 1)
    BY <1>1 DEF ContextInv
  <2>2. FaultInv'
    BY <1>5, <2>1, FaultStep, LabelFault
  <2>3. OriginInv'
    BY <1>5 DEF OriginInv, Raised, Idle
  <2> QED BY <1>2, <1>3, <2>2, <2>3 DEF ThreadInv
<1> QED BY <1>4, <1>5

\* The start of a thread: it has an empty context and no variables.
LEMMA StartStep ==
  ASSUME SynthInv, ThreadInv, StartThread
  PROVE  ThreadInv'
<1>1. /\ at.step = "thread" /\ current' = at.idx
      /\ bench' = FreshContext(bench, at.idx)
      /\ at' = [step |-> "globals", idx |-> 1]
      /\ UNCHANGED <<caller, used, fault>>
  BY DEF StartThread
<1>2. /\ at.idx \in 1..threads /\ threads \in Nat /\ threads' = threads
      /\ passes' = passes
      /\ bench.globals \in [1..threads -> Seq(Vars)]
      /\ \A t \in at.idx..threads : bench.globals[t] = <<>>
  BY <1>1 DEF SynthInv, OnThread, TypeInv, ThreadInv, GlobalsInv, caller
<1>3. /\ bench'.reserved = {} /\ bench'.globals = bench.globals
      /\ bench'.init = bench.init /\ bench'.fini = bench.fini
  <2>1. IsBench(bench)
    BY DEF SynthInv, Stacked
  <2> QED BY <1>1, <2>1, FreshFields
<1>4. ContextInv'
  BY <1>1, <1>3 DEF ContextInv
<1>5. GlobalsInv'
  <2>1. bench.globals[at.idx] = <<>> /\ Len(bench.globals[at.idx]) = 0
    <3>1. at.idx \in at.idx..threads
      BY <1>2
    <3> QED BY <1>2, <3>1
  <2>2. \A t \in (at.idx + 1)..threads : bench.globals[t] = <<>>
    BY <1>2
  <2> QED BY <1>1, <1>2, <1>3, <2>1, <2>2 DEF GlobalsInv
<1>6. FaultInv'
  <2>1. \A t \in 1..threads : passes[t] \in Seq(Passes) /\ Len(passes[t]) \in Nat
    BY DEF SynthInv, TypeInv
  <2>2. FaultInv
    BY DEF ThreadInv
  <2> QED BY <1>1, <2>1, <2>2, FaultKept DEF caller
<1>7. OriginInv'
  <2>1. \A u \in 1..threads : \A i \in 1..Len(passes[u]) :
           Past(u, i) => Past(u, i)'
    BY <1>1 DEF Past
  <2> QED BY <1>1, <1>2, <1>3, <2>1, OriginStays DEF ThreadInv
<1> QED BY <1>4, <1>5, <1>6, <1>7 DEF ThreadInv

\* One of the variables every thread gets joins the thread's variables.
LEMMA BasicStep ==
  ASSUME SynthInv, ThreadInv, RegisterBasic
  PROVE  ThreadInv'
<1> DEFINE v == BasicVars[at.idx]
           d == RegisterVar(bench, addr, v).bench
<1>1. /\ at.step = "globals" /\ at.idx <= Len(BasicVars) /\ bench' = d
      /\ at' = [at EXCEPT !.idx = @ + 1]
      /\ UNCHANGED <<caller, current, used, fault>>
  BY DEF RegisterBasic
<1>2. /\ current \in 1..threads /\ bench.thread = current /\ threads \in Nat
      /\ at \in [step : Steps, idx : Nat] /\ at.idx >= 1
      /\ IsBench(bench)
  BY <1>1 DEF SynthInv, TypeInv, OnThread, Stacked
<1>3. v \in Vars /\ v \in Basic
  <2>1. BasicVars \in Seq(Vars) /\ Len(BasicVars) \in Nat
    BY BasicVarsAssumption
  <2>2. at.idx \in 1..Len(BasicVars)
    BY <1>1, <1>2, <2>1
  <2> QED BY <2>1, <2>2 DEF Basic, ToSet
<1> HIDE DEF v
<1>4. /\ d.reserved = bench.reserved
      /\ d.globals = [bench.globals EXCEPT ![bench.thread] = Append(@, v)]
      /\ d.init = bench.init /\ d.fini = bench.fini
  <2>1. /\ d.reserved = bench.reserved
        /\ d.globals = [bench.globals EXCEPT ![bench.thread] = Append(@, v)]
    BY <1>2, RegisterVarAdds
  <2>2. d.init = bench.init /\ d.fini = bench.fini
    BY <1>2, RegisterVarMakesNone
  <2> QED BY <2>1, <2>2
<1> HIDE DEF d
<1>5. /\ at'.step = "globals" /\ threads' = threads /\ passes' = passes
      /\ current' = current
  BY <1>1, <1>2 DEF caller
<1>6. ContextInv'
  BY <1>1, <1>4, <1>5 DEF ContextInv, ThreadInv
<1>7. GlobalsInv'
  <2>1. PICK g \in [1..threads -> Seq(Vars)], t \in 1..threads :
           g = bench.globals /\ t = current
    BY <1>2 DEF ThreadInv, GlobalsInv
  <2>2. PICK h : h = [g EXCEPT ![t] = Append(@, v)]
    OBVIOUS
  <2>3. /\ h \in [1..threads -> Seq(Vars)]
        /\ \A u \in 1..threads : u # t => h[u] = g[u]
        /\ Len(h[t]) = Len(g[t]) + 1 /\ h[t][Len(g[t]) + 1] = v
        /\ \A k \in 1..Len(g[t]) : h[t][k] = g[t][k]
    BY <1>3, <2>2, Added
  <2>4. bench'.globals = h /\ Len(g[t]) \in Nat
    BY <1>1, <1>2, <1>4, <2>1, <2>2
  <2>5. /\ \A u \in (current + 1)..threads : g[u] = <<>>
        /\ \A k \in 1..Len(g[t]) : g[t][k] \in Basic
    BY <1>1, <2>1 DEF ThreadInv, GlobalsInv
  <2>6. \A u \in (current + 1)..threads : h[u] = <<>>
    <3>1. \A u \in (current + 1)..threads : u \in 1..threads /\ u # t
      BY <1>2, <2>1
    <3> QED BY <2>3, <2>5, <3>1
  <2>7. \A k \in 1..Len(h[t]) : h[t][k] \in Basic
    <3>1. \A k \in 1..Len(h[t]) : k \in 1..Len(g[t]) \/ k = Len(g[t]) + 1
      BY <2>3, <2>4
    <3> QED BY <1>3, <2>3, <2>5, <3>1
  <2>8. /\ \A u \in (current' + 1)..threads' : bench'.globals[u] = <<>>
        /\ \A k \in 1..Len(bench'.globals[current']) :
              bench'.globals[current'][k] \in Basic
    BY <1>5, <2>1, <2>4, <2>6, <2>7
  <2> QED BY <1>5, <2>1, <2>3, <2>4, <2>8 DEF GlobalsInv, Basic
<1>8. FaultInv'
  <2>1. \A t \in 1..threads : passes[t] \in Seq(Passes) /\ Len(passes[t]) \in Nat
    BY DEF SynthInv, TypeInv
  <2>2. FaultInv
    BY DEF ThreadInv
  <2> QED BY <1>1, <2>1, <2>2, FaultKept DEF caller
<1>9. OriginInv'
  <2>1. \A u \in 1..threads : \A i \in 1..Len(passes[u]) :
           Past(u, i) => Past(u, i)'
    BY <1>1, <1>5 DEF Past
  <2> QED BY <1>1, <1>4, <1>5, <2>1, OriginStays DEF ThreadInv
<1> QED BY <1>6, <1>7, <1>8, <1>9 DEF ThreadInv

\* The basic registers are reserved: the context is the environment's.
LEMMA ReserveStep ==
  ASSUME SynthInv, ThreadInv, ReserveBasic
  PROVE  ThreadInv'
<1>1. /\ at.step = "globals" /\ at' = [step |-> "apply", idx |-> 1]
      /\ UNCHANGED <<caller, current, used, fault>>
  BY DEF ReserveBasic
<1>2. /\ bench'.reserved = bench.reserved \cup EnvReserved
      /\ bench'.globals = bench.globals
      /\ bench'.init = bench.init /\ bench'.fini = bench.fini
  BY DEF ReserveBasic, SynthInv, Stacked, IsBench
<1>3. /\ current \in 1..threads /\ threads \in Nat
      /\ passes \in [1..threads -> Seq(Passes)]
      /\ threads' = threads /\ passes' = passes /\ current' = current
  BY <1>1 DEF SynthInv, OnThread, TypeInv, caller
<1>4. ContextInv'
  <2>1. ReservedAfter(current, 0) = EnvReserved
    <3>1. \A t : ReservedAfter(t, 0) = EnvReserved
      BY ReservedFirst
    <3> QED BY <3>1
  <2>2. \A t : ReservedAfter(t, 0)' = ReservedAfter(t, 0)
    <3>1. \A t : \A i \in 1..0 : passes'[t][i] = passes[t][i]
      OBVIOUS
    <3> QED BY <3>1, ReservedSame
  <2>3. at'.idx - 1 = 0 /\ at'.idx = 1 /\ Len(passes'[current']) \in Nat
    BY <1>1, <1>3
  <2>4. bench.reserved = {}
    BY <1>1 DEF ThreadInv, ContextInv
  <2> QED BY <1>1, <1>2, <1>3, <2>1, <2>2, <2>3, <2>4 DEF ContextInv
<1>5. GlobalsInv'
  BY <1>1, <1>2, <1>3 DEF ThreadInv, GlobalsInv, Accounted, Basic
<1>6. FaultInv'
  <2>1. \A t \in 1..threads : passes[t] \in Seq(Passes) /\ Len(passes[t]) \in Nat
    BY <1>3
  <2>2. FaultInv
    BY DEF ThreadInv
  <2> QED BY <1>1, <2>1, <2>2, FaultKept DEF caller
<1>7. OriginInv'
  <2>1. \A u \in 1..threads : \A i \in 1..Len(passes[u]) :
           Past(u, i) => Past(u, i)'
    BY <1>1, <1>3 DEF Past
  <2> QED BY <1>1, <1>2, <1>3, <2>1, OriginStays DEF ThreadInv
<1> QED BY <1>4, <1>5, <1>6, <1>7 DEF ThreadInv

\* A variable is declared: it joins the thread's variables and is accounted
\* for by the pass, or it was among them before.
LEMMA DeclareStep ==
  ASSUME SynthInv, ThreadInv, ApplyDeclare
  PROVE  ThreadInv'
<1>1. /\ at.step = "apply" /\ at.idx <= Len(passes[current])
      /\ Kind[Pass] = "declare" /\ UNCHANGED <<caller, current, used>>
  BY DEF ApplyDeclare, Applying
<1>2. /\ current \in 1..threads /\ bench.thread = current
      /\ at.idx \in Nat /\ at.idx >= 1
      /\ Pass \in Passes /\ Pass = passes[current][at.idx]
  BY <1>1, PassOfThread
<1>v. PICK v \in Vars : /\ v = Subject[Pass]
                       /\ \E a : \/ /\ Registered(bench, v)
                                   /\ Raised(current, at.idx) /\ bench' = bench
                                \/ /\ Applied
                                   /\ bench' = RegisterVar(bench, a, v).bench
  <2>1. Subject[Pass] \in Vars
    BY <1>1, <1>2, ConstantsAssumption
  <2> QED BY <2>1 DEF ApplyDeclare
<1>3. PICK a : /\ v \in Vars /\ v = Subject[Pass]
               /\ \/ /\ Registered(bench, v)
                     /\ Raised(current, at.idx) /\ bench' = bench
                  \/ /\ Applied
                     /\ bench' = RegisterVar(bench, a, v).bench
  BY <1>v
<1>4. CASE Registered(bench, v) /\ Raised(current, at.idx) /\ bench' = bench
  <2>1. PICK k \in 1..Len(bench.globals[current]) : bench.globals[current][k] = v
    BY <1>2, <1>4 DEF Registered, Contains
  <2>2. Accounted(v)
    BY <1>1, <2>1 DEF ThreadInv, GlobalsInv
  <2> QED BY <1>1, <1>3, <1>4, <2>2, PassStep
<1>5. CASE Applied /\ bench' = RegisterVar(bench, a, v).bench
  <2>1. /\ bench'.reserved = bench.reserved
        /\ bench'.globals = [bench.globals EXCEPT ![current] = Append(@, v)]
    <3> DEFINE d == RegisterVar(bench, a, v).bench
    <3>1. /\ d.reserved = bench.reserved
          /\ d.globals = [bench.globals EXCEPT ![bench.thread] = Append(@, v)]
      <4>1. IsBench(bench)
        BY DEF SynthInv, Stacked
      <4> QED BY <4>1, RegisterVarAdds
    <3>2. bench' = d
      BY <1>5
    <3> HIDE DEF d
    <3> QED BY <1>2, <3>1, <3>2
  <2>2. ContextInv'
    BY <1>1, <1>5, <2>1, ContextStep DEF Applied, ThreadInv
  <2>3. FaultInv'
    <3>1. \A t \in 1..threads : passes[t] \in Seq(Passes) /\ Len(passes[t]) \in Nat
      BY DEF SynthInv, TypeInv
    <3>2. FaultInv
      BY DEF ThreadInv
    <3> QED BY <1>1, <1>5, <3>1, <3>2, FaultKept DEF Applied, caller
  <2>4. PICK g \in [1..threads -> Seq(Vars)], t \in 1..threads :
           g = bench.globals /\ t = current
    BY <1>2 DEF ThreadInv, GlobalsInv
  <2>5. PICK h : h = [g EXCEPT ![t] = Append(@, v)]
    OBVIOUS
  <2>6. /\ h \in [1..threads -> Seq(Vars)]
        /\ \A u \in 1..threads : u # t => h[u] = g[u]
        /\ Len(h[t]) = Len(g[t]) + 1 /\ h[t][Len(g[t]) + 1] = v
        /\ \A k \in 1..Len(g[t]) : h[t][k] = g[t][k]
    BY <2>5, Added
  <2>7. bench'.globals = h /\ Len(g[t]) \in Nat
    BY <2>1, <2>4, <2>5
  <2>8. /\ at'.step = "apply" /\ at'.idx = at.idx + 1
        /\ threads' = threads /\ current' = current /\ passes' = passes
    <3>1. at \in [step : Steps, idx : Nat]
      BY DEF SynthInv, TypeInv
    <3> QED BY <1>1, <1>5, <3>1 DEF Applied, caller
  <2>9. \A u \in (current + 1)..threads : h[u] = <<>>
    <3>1. \A u \in (current + 1)..threads : u \in 1..threads /\ u # t
      BY <1>2, <2>4
    <3> QED BY <1>1, <2>4, <2>6, <3>1 DEF ThreadInv, GlobalsInv
  <2>10. \A k \in 1..Len(h[t]) : Accounted(h[t][k])'
    <3>1. \A w : Accounted(w) => Accounted(w)'
      <4>1. \A i \in 1..(at.idx - 1) : i \in 1..(at'.idx - 1)
        BY <1>2, <2>8
      <4> QED BY <2>8, <4>1 DEF Accounted, Declared, Does, Basic
    <3>2. Accounted(v)'
      <4>1. at.idx \in 1..(at'.idx - 1)
        BY <1>2, <2>8
      <4> QED BY <1>1, <1>2, <1>3, <2>8, <4>1 DEF Accounted, Declared, Does
    <3>3. \A k \in 1..Len(g[t]) : Accounted(g[t][k])
      BY <1>1, <2>4 DEF ThreadInv, GlobalsInv
    <3>4. \A k \in 1..Len(h[t]) : k \in 1..Len(g[t]) \/ k = Len(g[t]) + 1
      BY <2>6, <2>7
    <3> QED BY <2>6, <3>1, <3>2, <3>3, <3>4
  <2>11. GlobalsInv'
    BY <2>4, <2>6, <2>7, <2>8, <2>9, <2>10 DEF GlobalsInv
  <2>12. OriginInv'
    <3>1. bench'.init = bench.init /\ bench'.fini = bench.fini
      <4>1. IsBench(bench)
        BY DEF SynthInv, Stacked
      <4> QED BY <1>5, <4>1, RegisterVarMakesNone
    <3>2. at.idx \in Nat
      BY <1>2
    <3>3. \A u \in 1..threads : \A i \in 1..Len(passes[u]) :
             Past(u, i) => Past(u, i)'
      BY <1>1, <2>8, <3>2 DEF Past
    <3> QED BY <1>1, <2>8, <3>1, <3>3, OriginStays DEF ThreadInv
  <2> QED BY <2>2, <2>3, <2>11, <2>12 DEF ThreadInv
<1> QED BY <1>3, <1>4, <1>5

\* The end of a thread's passes: the next thread has no variables yet.
LEMMA CheckStep ==
  ASSUME SynthInv, ThreadInv, CheckPasses
  PROVE  ThreadInv'
<1>1. /\ at.step = "apply" /\ UNCHANGED <<caller, current, fault, used>>
      /\ \/ current < threads /\ at' = [step |-> "thread", idx |-> current + 1]
         \/ at' = Idle
  BY DEF CheckPasses
<1>2. bench'.globals = bench.globals
  BY DEF CheckPasses, SynthInv, Stacked, IsBench
<1>3. FaultInv'
  <2>1. \A t \in 1..threads : passes[t] \in Seq(Passes) /\ Len(passes[t]) \in Nat
    BY DEF SynthInv, TypeInv
  <2>2. FaultInv
    BY DEF ThreadInv
  <2> QED BY <1>1, <2>1, <2>2, FaultKept DEF caller
<1>4. ContextInv'
  BY <1>1 DEF ContextInv, Idle
<1>5. GlobalsInv'
  BY <1>1, <1>2 DEF ThreadInv, GlobalsInv, Idle, caller
<1>6. OriginInv'
  <2>1. CASE at' = Idle
    BY <2>1 DEF OriginInv, Idle
  <2>2. CASE at' = [step |-> "thread", idx |-> current + 1]
    <3>1. bench'.init = bench.init /\ bench'.fini = bench.fini
      BY DEF CheckPasses, SynthInv, Stacked, IsBench
    <3>2. current \in Nat /\ threads \in Nat
      BY <1>1 DEF SynthInv, OnThread, TypeInv
    <3>3. \A u \in 1..threads : \A i \in 1..Len(passes[u]) :
             Past(u, i) => Past(u, i)'
      BY <1>1, <2>2, <3>2 DEF Past
    <3> QED BY <1>1, <3>1, <3>3, OriginStays DEF ThreadInv, caller
  <2> QED BY <1>1, <2>1, <2>2
<1> QED BY <1>3, <1>4, <1>5, <1>6 DEF ThreadInv

LEMMA ThreadStep == SynthInv /\ ThreadInv /\ [Next]_vars => ThreadInv'
<1> SUFFICES ASSUME SynthInv, ThreadInv, [Next]_vars PROVE ThreadInv'
  OBVIOUS
<1>v. \A t \in 1..threads : passes[t] \in Seq(Passes) /\ Len(passes[t]) \in Nat
  BY DEF SynthInv, TypeInv
<1>b. FaultInv /\ IsBench(bench)
  BY DEF ThreadInv, SynthInv, Stacked
<1>1. CASE UNCHANGED vars
  <2>1. FaultInv'
    BY <1>v, <1>b, <1>1, FaultKept DEF vars, caller
  <2>2. ContextInv'
    BY <1>1 DEF ThreadInv, ContextInv, ReservedAfter, Does, Registers, vars, caller
  <2>3. GlobalsInv'
    BY <1>1 DEF ThreadInv, GlobalsInv, Accounted, Declared, Basic, Does, vars, caller
  <2>4. OriginInv'
    BY <1>1 DEF ThreadInv, OriginInv, Comes, Past, Instructions, vars, caller
  <2> QED BY <2>1, <2>2, <2>3, <2>4 DEF ThreadInv
<1>2. ASSUME NEW t \in 0..(MaxThreads + 1), SetCurrentThread(t)
      PROVE  ThreadInv'
  <2>1. FaultInv'
    BY <1>v, <1>b, <1>2, FaultKept DEF SetCurrentThread, caller
  <2> QED BY <1>2, <2>1, IdleStep DEF SetCurrentThread, Idle, caller
<1>3. ASSUME NEW p \in Passes, NEW given \in 0..MaxThreads, AddPass(p, given)
      PROVE  ThreadInv'
  <2>1. PICK t \in 1..threads : passes' = [passes EXCEPT ![t] = Append(@, p)]
    BY <1>3 DEF AddPass
  <2>2. /\ at = Idle
        /\ UNCHANGED <<threads, at, used, bench, fault>>
    BY <1>3 DEF AddPass
  <2>3. ASSUME NEW u \in 1..threads
        PROVE  /\ passes'[u] \in Seq(Passes)
               /\ Len(passes[u]) <= Len(passes'[u])
               /\ \A i \in 1..Len(passes[u]) : passes'[u][i] = passes[u][i]
    <3>1. passes \in [1..threads -> Seq(Passes)]
      BY DEF SynthInv, TypeInv
    <3>2. CASE u = t
      <4>1. passes'[u] = Append(passes[u], p)
        BY <2>1, <3>1, <3>2
      <4> QED BY <1>v, <4>1
    <3>3. CASE u # t
      <4>1. passes'[u] = passes[u]
        BY <2>1, <3>1, <3>3
      <4> QED BY <1>v, <4>1
    <3> QED BY <3>2, <3>3
  <2>4. FaultInv'
    BY <1>v, <1>b, <2>2, <2>3, FaultKept
  <2> QED BY <2>2, <2>4, IdleStep DEF Idle
<1>4. CASE Synthesize
  <2>1. /\ at' = [step |-> "thread", idx |-> 1] /\ fault' = NoFault
        /\ bench'.globals = [t \in 1..threads |-> <<>>] /\ threads' = threads
        /\ bench'.init = <<>> /\ bench'.fini = <<>>
    BY <1>4 DEF Synthesize, NewBenchmark, caller
  <2> QED BY <2>1 DEF ThreadInv, ContextInv, GlobalsInv, FaultInv, OriginInv
<1>5. CASE StartThread
  BY <1>5, StartStep
<1>15. CASE RegisterBasic
  BY <1>15, BasicStep
<1>16. CASE ReserveBasic
  BY <1>16, ReserveStep
<1>6. CASE ApplyBlock
  <2>1. /\ bench'.globals = bench.globals /\ bench'.reserved = bench.reserved
        /\ bench'.init = bench.init /\ bench'.fini = bench.fini
    BY <1>b, <1>6 DEF ApplyBlock, IsBench
  <2> QED BY <1>6, <2>1, PassStep DEF ApplyBlock, Applying, Extends
<1>7. CASE ApplyReserve
  <2>1. CASE Subject[Pass] \in bench.reserved
    BY <1>7, <2>1, PassStep DEF ApplyReserve, Applying
  <2>2. CASE Subject[Pass] \notin bench.reserved
    <3>1. bench' = [bench EXCEPT !.reserved = @ \cup {Subject[Pass]}] /\ Applied
      BY <1>7, <2>2 DEF ApplyReserve
    <3>2. /\ bench'.globals = bench.globals
          /\ bench'.reserved = bench.reserved \cup {Subject[Pass]}
          /\ bench'.init = bench.init /\ bench'.fini = bench.fini
      BY <1>b, <3>1 DEF IsBench
    <3> QED BY <1>7, <3>1, <3>2, PassStep DEF ApplyReserve, Applying, Extends
  <2> QED BY <2>1, <2>2
<1>8. CASE ApplyUnReserve
  <2>1. CASE Subject[Pass] \notin bench.reserved
    BY <1>8, <2>1, PassStep DEF ApplyUnReserve, Applying
  <2>2. CASE Subject[Pass] \in bench.reserved
    <3>1. bench' = [bench EXCEPT !.reserved = @ \ {Subject[Pass]}] /\ Applied
      BY <1>8, <2>2 DEF ApplyUnReserve
    <3>2. /\ bench'.globals = bench.globals
          /\ bench'.reserved = bench.reserved \ {Subject[Pass]}
          /\ bench'.init = bench.init /\ bench'.fini = bench.fini
      BY <1>b, <3>1 DEF IsBench
    <3> QED BY <1>8, <3>1, <3>2, PassStep DEF ApplyUnReserve, Applying, Extends
  <2> QED BY <2>1, <2>2
<1>9. CASE ApplyDeclare
  BY <1>9, DeclareStep
<1>10. CASE ApplyInit
  <2>1. CASE DefinedTwice
    BY <1>10, <2>1, PassStep DEF ApplyInit, Applying
  <2>2. CASE ~DefinedTwice
    <3>1. bench' = AddInit(bench, Pass) /\ Applied
      BY <1>10, <2>2 DEF ApplyInit
    <3>2. Kind[Pass] = "init"
      BY <1>10 DEF ApplyInit, Applying
    <3>3. /\ bench'.globals = bench.globals /\ bench'.reserved = bench.reserved
          /\ Extends(bench, bench', bench.thread, Pass)
      BY <1>b, <3>1, <3>2, AddFields DEF Extends
    <3> QED BY <1>10, <3>1, <3>2, <3>3, PassStep DEF ApplyInit, Applying
  <2> QED BY <2>1, <2>2
<1>11. CASE ApplyFini
  <2>1. CASE DefinedTwice
    BY <1>11, <2>1, PassStep DEF ApplyFini, Applying
  <2>2. CASE ~DefinedTwice
    <3>1. bench' = AddFini(bench, Pass) /\ Applied
      BY <1>11, <2>2 DEF ApplyFini
    <3>2. Kind[Pass] = "fini"
      BY <1>11 DEF ApplyFini, Applying
    <3>3. /\ bench'.globals = bench.globals /\ bench'.reserved = bench.reserved
          /\ Extends(bench, bench', bench.thread, Pass)
      BY <1>b, <3>1, <3>2, AddFields DEF Extends
    <3> QED BY <1>11, <3>1, <3>2, <3>3, PassStep DEF ApplyFini, Applying
  <2> QED BY <2>1, <2>2
<1>12. CASE ApplyFix
  BY <1>12, PassStep DEF ApplyFix, Applying, Extends
<1>13. CASE CheckPasses
  BY <1>13, CheckStep
<1>14. CASE Save
  <2>1. bench'.globals = bench.globals
    <3>1. \E t : bench' = [bench EXCEPT !.thread = t]
      BY <1>14 DEF Save
    <3> QED BY <1>b, <3>1 DEF IsBench
  <2>2. FaultInv'
    BY <1>v, <1>b, <1>14, FaultKept DEF Save, caller
  <2> QED BY <1>14, <2>1, <2>2, IdleStep DEF Save, Complete, Idle, caller
<1> QED
  BY <1>1, <1>2, <1>3, <1>4, <1>5, <1>6, <1>7, <1>8, <1>9, <1>10, <1>11, <1>12,
     <1>13, <1>14, <1>15, <1>16 DEF Next

LEMMA ThreadAlways == Spec => [](SynthInv /\ ThreadInv)
BY InitInv, InvStep, ThreadInit, ThreadStep, PTL DEF Spec

\* The passes of a thread work on exactly the registers the environment and
\* the passes before them reserved, whatever other threads and earlier
\* syntheses, complete or failed, have left (Synthesizer.synthesize).
THEOREM ContextFresh == Spec => []ContextOfThread
<1>1. ThreadInv => ContextOfThread
  BY DEF ThreadInv, ContextInv, ContextOfThread
<1> QED BY <1>1, ThreadAlways, PTL

\* A synthesis fails only for a reason the failing thread's own passes give,
\* because a FixRegistersPass object is applied again, or because start or end
\* code defines a label that is a variable of the thread or that start or end
\* code of this or of an earlier thread has defined.
THEOREM FailuresExplained == Spec => []FaultsExplained
<1>1. ThreadInv => FaultsExplained
  BY DEF ThreadInv, FaultInv, FaultsExplained
<1> QED BY <1>1, ThreadAlways, PTL

-----------------------------------------------------------------------------
(* Selected, whose value is read off a function defined by recursion.       *)

\* A function that selects step by step.
Selecting(f, s, N, T) ==
    /\ f[0] = <<>>
    /\ \A n \in 1..N :
         f[n] = IF s[n] \in T THEN Append(f[n - 1], s[n]) ELSE f[n - 1]
    /\ Selected(s, T) = f[N]

\* The function a selection is read off, for every prefix of the sequence.
LEMMA SelectedFrom ==
  ASSUME NEW S, NEW s \in Seq(S), NEW T
  PROVE  \E f \in [0..Len(s) -> Seq(S)] : Selecting(f, s, Len(s), T)
<1> DEFINE N == Len(s)
           Is(f) == f = [n \in 0..N |->
                           IF n = 0 THEN <<>>
                           ELSE IF s[n] \in T THEN Append(f[n - 1], s[n])
                           ELSE f[n - 1]]
           step == [n \in 1..N |-> [r \in Seq(S) |->
                      IF s[n] \in T THEN Append(r, s[n]) ELSE r]]
           g == CHOOSE f : Is(f)
<1>1. N \in Nat /\ \A n \in 1..N : s[n] \in S
  OBVIOUS
<1>2. step \in [1..N -> [Seq(S) -> Seq(S)]] /\ <<>> \in Seq(S)
  BY <1>1
<1>3. \A n \in 1..N, r \in Seq(S) :
        step[n][r] = IF s[n] \in T THEN Append(r, s[n]) ELSE r
  OBVIOUS
<1> HIDE DEF step, N
<1>4. PICK f \in [0..N -> Seq(S)] : Unrolls(f, N, <<>>, step)
  <2>1. StepsInto(step, N, Seq(S))
    BY <1>2 DEF StepsInto
  <2> QED BY <1>1, <1>2, <2>1, RecursiveFunction
<1>5. \A n \in 0..N : n # 0 => n \in 1..N /\ n - 1 \in 0..N
  BY <1>1
<1>6. Is(f)
  <2>1. ASSUME NEW n \in 0..N, n # 0
        PROVE  step[n][f[n - 1]] = IF s[n] \in T THEN Append(f[n - 1], s[n])
                                   ELSE f[n - 1]
    BY <1>3, <1>5, <2>1
  <2>2. \A n \in 0..N : f[n] = IF n = 0 THEN <<>>
                              ELSE IF s[n] \in T THEN Append(f[n - 1], s[n])
                              ELSE f[n - 1]
    BY <1>4, <1>5, <2>1 DEF Unrolls
  <2> QED BY <2>2
<1>7. Is(g)
  BY <1>6
<1>8. Selected(s, T) = g[N]
  BY DEF Selected, N
<1> HIDE DEF g
<1>9. \A n \in 0..N : g[n] = f[n]
  <2> DEFINE E == {n \in 0..N : g[n] = f[n]}
  <2>1. 0 \in E
    BY <1>1, <1>6, <1>7
  <2>2. ASSUME NEW n \in 1..N, n - 1 \in E PROVE n \in E
    <3>1. n \in 0..N /\ n # 0 /\ g[n - 1] = f[n - 1]
      BY <1>1, <2>2
    <3> QED BY <1>6, <1>7, <3>1
  <2> HIDE DEF E
  <2>3. 0..N \subseteq E
    BY <1>1, <2>1, <2>2, SetInductionUpTo
  <2> QED BY <2>3 DEF E
<1>10. g = f
  BY <1>6, <1>7, <1>9
<1>11. ASSUME NEW n \in 1..N
       PROVE  f[n] = IF s[n] \in T THEN Append(f[n - 1], s[n]) ELSE f[n - 1]
  <2>1. n \in 0..N /\ n - 1 \in 0..N /\ f[n - 1] \in Seq(S)
    BY <1>1
  <2> QED BY <1>3, <1>4, <2>1 DEF Unrolls
<1> QED BY <1>4, <1>8, <1>10, <1>11 DEF N, Unrolls, Selecting

LEMMA SelectedType ==
  ASSUME NEW S, NEW s \in Seq(S), NEW T
  PROVE  Selected(s, T) \in Seq(S)
<1>1. PICK f \in [0..Len(s) -> Seq(S)] : Selected(s, T) = f[Len(s)]
  BY SelectedFrom DEF Selecting
<1>2. Len(s) \in 0..Len(s)
  OBVIOUS
<1> QED BY <1>1, <1>2

LEMMA SelectedEmpty ==
  ASSUME NEW T
  PROVE  Selected(<<>>, T) = <<>>
<1>1. <<>> \in Seq({}) /\ Len(<<>>) = 0
  OBVIOUS
<1>2. \E f \in [0..Len(<<>>) -> Seq({})] :
        f[0] = <<>> /\ Selected(<<>>, T) = f[Len(<<>>)]
  <2> DEFINE s == <<>>
  <2>1. s \in Seq({})
    OBVIOUS
  <2>2. \E f \in [0..Len(s) -> Seq({})] : f[0] = <<>> /\ Selected(s, T) = f[Len(s)]
    <3> HIDE DEF s
    <3> QED BY <2>1, SelectedFrom DEF Selecting
  <2> QED BY <2>2
<1> QED BY <1>2

LEMMA SelectedAppend ==
  ASSUME NEW S, NEW s \in Seq(S), NEW x \in S, NEW T
  PROVE  Selected(Append(s, x), T) =
           IF x \in T THEN Append(Selected(s, T), x) ELSE Selected(s, T)
<1> DEFINE t == Append(s, x)
           N == Len(s)
<1>1. t \in Seq(S) /\ Len(t) = N + 1 /\ N \in Nat
  OBVIOUS
<1>2. \A n \in 1..N : t[n] = s[n]
  OBVIOUS
<1>3. t[N + 1] = x
  OBVIOUS
<1> HIDE DEF t, N
<1>4. PICK f : Selecting(f, s, N, T)
  BY SelectedFrom DEF N
<1>5. PICK g : Selecting(g, t, N + 1, T)
  <2>1. \E g \in [0..Len(t) -> Seq(S)] : Selecting(g, t, Len(t), T)
    <3>1. t \in Seq(S)
      BY <1>1
    <3> QED BY <3>1, SelectedFrom
  <2> QED BY <1>1, <2>1
<1>6. 0..N \subseteq {n \in 0..N : g[n] = f[n]}
  <2> DEFINE E == {n \in 0..N : g[n] = f[n]}
  <2>1. 0 \in E
    BY <1>1, <1>4, <1>5 DEF Selecting
  <2>2. ASSUME NEW n \in 1..N, n - 1 \in E PROVE n \in E
    <3>1. n \in 0..N /\ g[n - 1] = f[n - 1] /\ n \in 1..(N + 1)
      BY <1>1, <2>2
    <3> QED BY <1>2, <1>4, <1>5, <3>1 DEF Selecting
  <2> HIDE DEF E
  <2>3. 0..N \subseteq E
    BY <1>1, <2>1, <2>2, SetInductionUpTo
  <2> QED BY <2>3 DEF E
<1>7. g[N] = f[N]
  BY <1>1, <1>6
<1>8. g[N + 1] = IF x \in T THEN Append(g[N], x) ELSE g[N]
  <2>1. N + 1 \in 1..(N + 1) /\ (N + 1) - 1 = N
    BY <1>1
  <2> QED BY <1>3, <1>5, <2>1 DEF Selecting
<1> QED BY <1>4, <1>5, <1>7, <1>8 DEF t, Selecting

-----------------------------------------------------------------------------
(* The start and end instructions. The benchmark has, for every thread, the *)
(* instructions of the passes applied to it so far, keeps them while the    *)
(* other threads are built, and has them thread after thread.               *)

InOrder(s) == \A i, j \in 1..Len(s) : i < j => s[i][1] <= s[j][1]

Holds(b, t, seq) ==
    /\ OwnInstrs(t, b.init) = Made(t, seq, "init")
    /\ OwnInstrs(t, b.fini) = Made(t, seq, "fini")

\* The passes that have been applied to a thread.
Through(t) ==
    IF at.step = "thread" THEN IF t < at.idx THEN passes[t] ELSE <<>>
    ELSE IF t < current THEN passes[t]
    ELSE IF at.step = "apply" /\ t = current
         THEN SubSeq(passes[t], 1, at.idx - 1) ELSE <<>>

PrologueInv ==
    /\ bench.init \in Seq(Instructions) /\ bench.fini \in Seq(Instructions)
    /\ InOrder(bench.init) /\ InOrder(bench.fini)
    /\ at.step # "idle" => /\ output = [t \in 1..threads |-> <<>>]
                           /\ \A t \in 1..threads : Holds(bench, t, Through(t))
    /\ Complete => \A t \in 1..threads : Holds(bench, t, built[t])
    /\ PrologueComplete

\* A further pass makes its instruction, if it is one of the class.
LEMMA MadeNext ==
  ASSUME NEW t, NEW s \in Seq(Passes), NEW p \in Passes, NEW kind
  PROVE  Made(t, Append(s, p), kind) =
           IF Kind[p] = kind THEN Append(Made(t, s, kind), <<t, p>>)
           ELSE Made(t, s, kind)
<1> DEFINE T == {q \in Passes : Kind[q] = kind}
           own == Selected(s, T)
           more == Selected(Append(s, p), T)
<1>1. more = IF p \in T THEN Append(own, p) ELSE own
  BY SelectedAppend
<1>2. own \in Seq(Passes)
  BY SelectedType
<1>3. p \in T <=> Kind[p] = kind
  OBVIOUS
<1>4. /\ Made(t, s, kind) = [i \in 1..Len(own) |-> <<t, own[i]>>]
      /\ Made(t, Append(s, p), kind) = [i \in 1..Len(more) |-> <<t, more[i]>>]
  BY DEF Made
<1> HIDE DEF own, more, T
<1>5. CASE Kind[p] = kind
  <2>1. more = Append(own, p)
    BY <1>1, <1>3, <1>5
  <2>2. [i \in 1..Len(Append(own, p)) |-> <<t, Append(own, p)[i]>>]
          = Append([i \in 1..Len(own) |-> <<t, own[i]>>], <<t, p>>)
    <3> DEFINE N == Len(own)
               few == [i \in 1..N |-> <<t, own[i]>>]
               all == [i \in 1..(N + 1) |-> <<t, Append(own, p)[i]>>]
    <3>1. /\ N \in Nat /\ Len(Append(own, p)) = N + 1
          /\ Append(own, p)[N + 1] = p
          /\ \A i \in 1..N : Append(own, p)[i] = own[i] /\ own[i] \in Passes
      BY <1>2
    <3> HIDE DEF N
    <3>2. few \in Seq({t} \X Passes) /\ Len(few) = N
      BY <3>1
    <3>3. all \in Seq({t} \X Passes) /\ Len(all) = N + 1
      BY <3>1
    <3>4. /\ Append(few, <<t, p>>) \in Seq({t} \X Passes)
          /\ Len(Append(few, <<t, p>>)) = N + 1
          /\ \A i \in 1..(N + 1) : Append(few, <<t, p>>)[i]
                                    = IF i = N + 1 THEN <<t, p>> ELSE few[i]
      <4> HIDE DEF few
      <4> QED BY <3>1, <3>2
    <3>5. \A i \in 1..(N + 1) : all[i] = Append(few, <<t, p>>)[i]
      BY <3>1, <3>4
    <3> HIDE DEF few, all
    <3>6. all = Append(few, <<t, p>>)
      BY <3>3, <3>4, <3>5, SeqEqual
    <3> QED BY <3>1, <3>6 DEF few, all, N
  <2> QED BY <1>4, <1>5, <2>1, <2>2
<1>6. CASE Kind[p] # kind
  BY <1>1, <1>3, <1>4, <1>6
<1> QED BY <1>5, <1>6

\* What a further instruction adds to the thread it was made for.
LEMMA OwnNext ==
  ASSUME NEW s \in Seq(Instructions), NEW u \in 1..threads, NEW p \in Passes,
         NEW t
  PROVE  OwnInstrs(t, Append(s, <<u, p>>)) =
           IF u = t THEN Append(OwnInstrs(t, s), <<u, p>>) ELSE OwnInstrs(t, s)
<1>1. <<u, p>> \in Instructions /\ (<<u, p>> \in {t} \X Passes <=> u = t)
  BY DEF Instructions
<1> QED BY <1>1, SelectedAppend DEF OwnInstrs

LEMMA HoldsNothing ==
  ASSUME NEW b, b.init = <<>>, b.fini = <<>>, NEW t
  PROVE  Holds(b, t, <<>>)
<1>1. \A T : Selected(<<>>, T) = <<>>
  BY SelectedEmpty
<1>2. Len(<<>>) = 0 /\ [i \in 1..0 |-> <<t, << >>[i]>>] = <<>>
  OBVIOUS
<1> QED BY <1>1, <1>2 DEF Holds, OwnInstrs, Made

LEMMA HoldsNext ==
  ASSUME NEW b, NEW d, NEW u \in 1..threads, NEW p \in Passes,
         b.init \in Seq(Instructions), b.fini \in Seq(Instructions),
         Extends(b, d, u, p)
  PROVE  /\ d.init \in Seq(Instructions) /\ d.fini \in Seq(Instructions)
         /\ \A s \in Seq(Passes) : Holds(b, u, s) => Holds(d, u, Append(s, p))
         /\ \A t, s : t # u /\ Holds(b, t, s) => Holds(d, t, s)
<1>1. <<u, p>> \in Instructions
  BY DEF Instructions
<1>2. d.init \in Seq(Instructions) /\ d.fini \in Seq(Instructions)
  BY <1>1 DEF Extends
<1>3. ASSUME NEW s \in Seq(Passes), Holds(b, u, s)
      PROVE  Holds(d, u, Append(s, p))
  <2>1. /\ Made(u, Append(s, p), "init") =
             IF Kind[p] = "init" THEN Append(Made(u, s, "init"), <<u, p>>)
             ELSE Made(u, s, "init")
        /\ Made(u, Append(s, p), "fini") =
             IF Kind[p] = "fini" THEN Append(Made(u, s, "fini"), <<u, p>>)
             ELSE Made(u, s, "fini")
    BY MadeNext
  <2>2. /\ OwnInstrs(u, Append(b.init, <<u, p>>))
             = Append(OwnInstrs(u, b.init), <<u, p>>)
        /\ OwnInstrs(u, Append(b.fini, <<u, p>>))
             = Append(OwnInstrs(u, b.fini), <<u, p>>)
    BY OwnNext
  <2> QED BY <1>3, <2>1, <2>2 DEF Holds, Extends
<1>4. ASSUME NEW t, NEW s, t # u, Holds(b, t, s)
      PROVE  Holds(d, t, s)
  <2>1. /\ OwnInstrs(t, Append(b.init, <<u, p>>)) = OwnInstrs(t, b.init)
        /\ OwnInstrs(t, Append(b.fini, <<u, p>>)) = OwnInstrs(t, b.fini)
    BY <1>4, OwnNext
  <2> QED BY <1>4, <2>1 DEF Holds, Extends
<1> QED BY <1>2, <1>3, <1>4

\* The applied passes of a thread, one more.
LEMMA ThroughNext ==
  ASSUME SynthInv, at.step = "apply", at.idx <= Len(passes[current]),
         UNCHANGED <<caller, current>>, at' = [at EXCEPT !.idx = @ + 1]
  PROVE  /\ Through(current) \in Seq(Passes)
         /\ Through(current)' = Append(Through(current), Pass)
         /\ \A t \in 1..threads : t # current => Through(t)' = Through(t)
<1>1. /\ current \in 1..threads /\ at.idx \in 1..Len(passes[current])
      /\ Pass = passes[current][at.idx] /\ passes[current] \in Seq(Passes)
      /\ at \in [step : Steps, idx : Nat] /\ threads \in Nat
  BY PassOfThread DEF SynthInv, TypeInv
<1>2. /\ at'.step = "apply" /\ at'.idx = at.idx + 1 /\ at.idx \in Nat
      /\ passes' = passes /\ current' = current /\ threads' = threads
  BY <1>1 DEF caller
<1>3. /\ Through(current) = SubSeq(passes[current], 1, at.idx - 1)
      /\ Through(current)' = SubSeq(passes[current], 1, at.idx)
  BY <1>1, <1>2 DEF Through
<1>4. ASSUME NEW s \in Seq(Passes), NEW n \in 1..Len(s)
      PROVE  /\ SubSeq(s, 1, n - 1) \in Seq(Passes)
             /\ SubSeq(s, 1, n) = Append(SubSeq(s, 1, n - 1), s[n])
  <2> DEFINE a == SubSeq(s, 1, n)
             b == SubSeq(s, 1, n - 1)
             c == Append(b, s[n])
  <2>1. n \in Int /\ 1 \in Int /\ n - 1 \in Int /\ 1 <= n
        /\ \A i \in 1..n : s[i] \in Passes
    OBVIOUS
  <2>2. a \in Seq(Passes) /\ Len(a) = n /\ \A i \in 1..n : a[i] = s[i]
    <3>1. /\ a \in Seq(Passes) /\ Len(a) = IF 1 <= n THEN n - 1 + 1 ELSE 0
          /\ \A i \in 1..(n - 1 + 1) : a[i] = s[1 + i - 1]
      BY <2>1, SubSeqProperties
    <3> HIDE DEF a
    <3>2. n - 1 + 1 = n /\ \A i \in 1..n : 1 + i - 1 = i
      BY <2>1
    <3> QED BY <2>1, <3>1, <3>2
  <2>3. /\ b \in Seq(Passes) /\ Len(b) = n - 1
        /\ \A i \in 1..(n - 1) : b[i] = s[i]
    OBVIOUS
  <2> HIDE DEF a, b
  <2>4. c \in Seq(Passes) /\ Len(c) = n /\ \A i \in 1..n : c[i] = s[i]
    BY <2>1, <2>3
  <2> HIDE DEF c
  <2>5. a = c
    BY <2>2, <2>4, SeqEqual
  <2> QED BY <2>3, <2>5 DEF a, b, c
<1>5. \A t \in 1..threads : t # current => Through(t)' = Through(t)
  BY <1>1, <1>2 DEF Through
<1> QED BY <1>1, <1>3, <1>4, <1>5

\* What was written stays complete while the passes it was made of are kept.
LEMMA WrittenStays ==
  ASSUME PrologueInv, UNCHANGED <<threads, output>>,
         built' = built \/ output = [t \in 1..threads |-> <<>>]
  PROVE  PrologueComplete'
<1>1. CASE built' = built
  <2>1. PICK o, b, n : o = output /\ b = built /\ n = threads
    OBVIOUS
  <2>2. o = output' /\ b = built' /\ n = threads'
    BY <1>1, <2>1
  <2>3. ASSUME NEW s, NEW kind, MadeBy(s, kind) PROVE MadeBy(s, kind)'
    <3>1. /\ s \in Seq((1..n) \X Passes)
          /\ \A i, j \in 1..Len(s) : i < j => s[i][1] <= s[j][1]
          /\ \A t \in 1..n : OwnInstrs(t, s) = Made(t, b[t], kind)
      BY <2>1, <2>3 DEF MadeBy
    <3>2. s \in Seq((1..threads') \X Passes)
      BY <2>2, <3>1
    <3>3. \A t \in 1..threads' : OwnInstrs(t, s) = Made(t, built'[t], kind)
      BY <2>2, <3>1
    <3> QED BY <3>1, <3>2, <3>3 DEF MadeBy
  <2>4. ASSUME NEW t \in 1..n, o[t] # <<>>
        PROVE  MadeBy(o[t][1], "init")' /\ MadeBy(o[t][3], "fini")'
    <3>1. MadeBy(o[t][1], "init") /\ MadeBy(o[t][3], "fini")
      BY <2>1, <2>4 DEF PrologueInv, PrologueComplete
    <3> QED BY <2>3, <3>1
  <2> QED BY <2>2, <2>4 DEF PrologueComplete, MadeBy
<1>2. CASE output = [t \in 1..threads |-> <<>>]
  BY <1>2 DEF PrologueComplete
<1> QED BY <1>1, <1>2

\* Start and end instructions stay in the order of their threads, because those
\* made before are of the current or an earlier thread.
LEMMA InOrderNext ==
  ASSUME NEW s \in Seq(Instructions), InOrder(s), NEW t \in 1..threads,
         NEW p \in Passes, \A k \in 1..Len(s) : s[k][1] <= t
  PROVE  InOrder(Append(s, <<t, p>>))
<1>1. PICK x \in Instructions : x = <<t, p>> /\ x[1] = t
  <2>1. <<t, p>> \in Instructions /\ <<t, p>>[1] = t
    BY DEF Instructions
  <2> QED BY <2>1
<1> DEFINE r == Append(s, x)
<1>2. /\ Len(r) = Len(s) + 1 /\ Len(s) \in Nat
      /\ \A k \in 1..Len(r) : r[k] = IF k = Len(s) + 1 THEN x ELSE s[k]
  OBVIOUS
<1> HIDE DEF r
<1>3. ASSUME NEW i \in 1..Len(r), NEW j \in 1..Len(r), i < j
      PROVE  r[i][1] <= r[j][1]
  <2>1. i \in 1..Len(s) /\ r[i] = s[i]
    BY <1>2, <1>3
  <2>2. CASE j = Len(s) + 1
    <3>1. r[j][1] = t
      BY <1>1, <1>2, <2>2
    <3> QED BY <2>1, <3>1
  <2>3. CASE j # Len(s) + 1
    <3>1. j \in 1..Len(s) /\ r[j] = s[j]
      BY <1>2, <2>3
    <3> QED BY <1>3, <2>1, <3>1 DEF InOrder
  <2> QED BY <2>2, <2>3
<1> QED BY <1>1, <1>3 DEF InOrder, r

\* A pass that ends: it raised, or the benchmark has its instruction.
LEMMA PassMakes ==
  ASSUME SynthInv, OriginInv, PrologueInv, at.step = "apply", at.idx <= Len(passes[current]),
         UNCHANGED <<caller, current, output, built, synths>>,
         \/ Applied /\ Extends(bench, bench', bench.thread, Pass)
         \/ /\ Raised(current, at.idx)
            /\ bench'.init = bench.init /\ bench'.fini = bench.fini
  PROVE  PrologueInv'
<1>1. /\ current \in 1..threads /\ bench.thread = current /\ Pass \in Passes
      /\ at \in [step : Steps, idx : Nat]
      /\ threads' = threads /\ passes' = passes /\ current' = current
      /\ bench.init \in Seq(Instructions) /\ bench.fini \in Seq(Instructions)
      /\ output' = [t \in 1..threads' |-> <<>>]
  BY PassOfThread DEF SynthInv, TypeInv, OnThread, caller, PrologueInv
<1>2. PrologueComplete'
  BY WrittenStays DEF caller
<1>3. CASE /\ Raised(current, at.idx)
           /\ bench'.init = bench.init /\ bench'.fini = bench.fini
  <2>1. at' = Idle /\ fault' # NoFault
    BY <1>1, <1>3 DEF Raised, NoFault
  <2> QED BY <1>1, <1>2, <1>3, <2>1
          DEF PrologueInv, Complete, Idle, Instructions, InOrder
<1>4. CASE Applied /\ Extends(bench, bench', bench.thread, Pass)
  <2>1. /\ bench'.init \in Seq(Instructions) /\ bench'.fini \in Seq(Instructions)
        /\ \A s \in Seq(Passes) :
             Holds(bench, current, s) => Holds(bench', current, Append(s, Pass))
        /\ \A t, s : t # current /\ Holds(bench, t, s) => Holds(bench', t, s)
    BY <1>1, <1>4, HoldsNext
  <2>2. at' = [at EXCEPT !.idx = @ + 1]
    BY <1>4 DEF Applied
  <2>3. /\ Through(current) \in Seq(Passes)
        /\ Through(current)' = Append(Through(current), Pass)
        /\ \A t \in 1..threads : t # current => Through(t)' = Through(t)
    BY <2>2, ThroughNext
  <2>4. \A t \in 1..threads : Holds(bench, t, Through(t))
    BY DEF PrologueInv
  <2>5. \A t \in 1..threads : Holds(bench', t, Through(t)')
    BY <1>1, <2>1, <2>3, <2>4
  <2>6. at'.step = "apply"
    BY <1>1, <2>2
  <2>7. \A t \in 1..threads' : Holds(bench, t, Through(t))'
    BY <1>1, <2>5 DEF Holds, OwnInstrs, Made
  <2>8. ASSUME NEW x, Comes(x) PROVE x[1] <= current
    <3>1. PICK i \in 1..Len(passes[x[1]]) : Past(x[1], i)
      BY <2>8 DEF Comes
    <3>2. x[1] \in 1..threads /\ threads \in Nat
      BY <2>8 DEF Comes, Instructions, SynthInv, TypeInv
    <3> QED BY <1>1, <3>1, <3>2 DEF Past
  <2>9. /\ \A k \in 1..Len(bench.init) : bench.init[k][1] <= current
        /\ \A k \in 1..Len(bench.fini) : bench.fini[k][1] <= current
    BY <2>8 DEF OriginInv
  <2>10. InOrder(bench'.init) /\ InOrder(bench'.fini)
    <3>1. /\ InOrder(Append(bench.init, <<current, Pass>>))
          /\ InOrder(Append(bench.fini, <<current, Pass>>))
      <4>1. InOrder(bench.init) /\ InOrder(bench.fini)
        BY DEF PrologueInv
      <4> QED BY <1>1, <2>9, <4>1, InOrderNext
    <3> QED BY <1>1, <1>4, <3>1 DEF Extends, PrologueInv
  <2>11. InOrder(bench.init)' /\ InOrder(bench.fini)'
    BY <2>10 DEF InOrder
  <2> QED BY <1>1, <1>2, <2>1, <2>6, <2>7, <2>11
          DEF PrologueInv, Complete, Idle, Instructions
<1> QED BY <1>3, <1>4

\* A step outside of a synthesis that leaves the benchmark's instructions.
LEMMA IdleMakes ==
  ASSUME PrologueInv, at = Idle, at' = Idle,
         UNCHANGED <<threads, output, built, fault, synths>>,
         bench'.init = bench.init, bench'.fini = bench.fini
  PROVE  PrologueInv'
<1>1. PrologueComplete'
  BY WrittenStays
<1> QED BY <1>1 DEF PrologueInv, Complete, Idle, Instructions, InOrder, Holds,
                    OwnInstrs, Made

\* All passes of a thread are applied when its checks begin.
LEMMA ThroughAll ==
  ASSUME SynthInv, ContextInv, at.step = "apply", at.idx > Len(passes[current])
  PROVE  Through(current) = passes[current]
<1>1. /\ current \in 1..threads /\ passes[current] \in Seq(Passes)
      /\ at.idx \in Nat /\ at.idx <= Len(passes[current]) + 1
      /\ threads \in Nat
  BY DEF SynthInv, TypeInv, OnThread, ContextInv
<1>2. at.idx - 1 = Len(passes[current])
  BY <1>1
<1>3. SubSeq(passes[current], 1, Len(passes[current])) = passes[current]
  BY <1>1, SubSeqFull
<1> QED BY <1>1, <1>2, <1>3 DEF Through

LEMMA PrologueStep ==
  SynthInv /\ ThreadInv /\ PrologueInv /\ [Next]_vars => PrologueInv'
<1> SUFFICES ASSUME SynthInv, ContextInv, OriginInv, PrologueInv, [Next]_vars
             PROVE  PrologueInv'
  BY DEF ThreadInv
<1>a. /\ TypeInv /\ OnThread /\ IsBench(bench)
      /\ bench.init \in Seq(Instructions) /\ bench.fini \in Seq(Instructions)
  BY DEF SynthInv, Stacked, PrologueInv
<1>1. CASE UNCHANGED vars
  <2>1. PrologueComplete'
    BY <1>1, WrittenStays DEF vars, caller
  <2>2. /\ UNCHANGED <<bench, at, threads, passes, current, built, output>>
        /\ Complete' = Complete
    BY <1>1 DEF vars, caller, Complete
  <2>3. \A t : Through(t)' = Through(t)
    BY <2>2 DEF Through
  <2>5. /\ \A t : Holds(bench, t, Through(t))' <=> Holds(bench, t, Through(t))
        /\ \A t : Holds(bench, t, built[t])' <=> Holds(bench, t, built[t])
    BY <2>2, <2>3 DEF Holds, OwnInstrs, Made
  <2> QED BY <2>1, <2>2, <2>5 DEF PrologueInv, Instructions, InOrder
<1>2. CASE \E t \in 0..(MaxThreads + 1) : SetCurrentThread(t)
  BY <1>2, IdleMakes DEF SetCurrentThread, caller
<1>3. CASE \E p \in Passes, given \in 0..MaxThreads : AddPass(p, given)
  BY <1>3, IdleMakes DEF AddPass
<1>4. CASE Synthesize
  <2>1. /\ bench'.init = <<>> /\ bench'.fini = <<>>
        /\ at' = [step |-> "thread", idx |-> 1]
        /\ threads' = threads /\ passes' = passes
        /\ output' = [t \in 1..threads' |-> <<>>] /\ threads \in Nat
    BY <1>4, <1>a DEF Synthesize, NewBenchmark, caller, TypeInv
  <2>2. \A t \in 1..threads' : Through(t)' = <<>>
    BY <2>1 DEF Through
  <2>3. \A t \in 1..threads' : Holds(bench', t, <<>>)
    BY <2>1, HoldsNothing
  <2>4. \A t \in 1..threads' : Holds(bench, t, Through(t))'
    BY <2>2, <2>3 DEF Holds, OwnInstrs, Made
  <2> QED BY <2>1, <2>4
          DEF PrologueInv, PrologueComplete, Complete, Idle, InOrder
<1>5. CASE StartThread \/ RegisterBasic \/ ReserveBasic
  <2>1. bench'.init = bench.init /\ bench'.fini = bench.fini
    <3>1. CASE StartThread
      BY <1>a, <3>1, FreshFields DEF StartThread
    <3>2. CASE RegisterBasic
      BY <1>a, <3>2, RegisterVarMakesNone DEF RegisterBasic
    <3>3. CASE ReserveBasic
      BY <1>a, <3>3 DEF ReserveBasic, IsBench
    <3> QED BY <1>5, <3>1, <3>2, <3>3
  <2>2. /\ at.step \in {"thread", "globals"} /\ at \in [step : Steps, idx : Nat]
        /\ UNCHANGED <<caller, output, built>>
        /\ \/ /\ at.step = "thread" /\ current' = at.idx
              /\ at' = [step |-> "globals", idx |-> 1]
           \/ /\ at.step = "globals" /\ current' = current
              /\ at'.step = "globals"
           \/ /\ at.step = "globals" /\ current' = current
              /\ at' = [step |-> "apply", idx |-> 1]
    <3>1. at \in [step : Steps, idx : Nat]
      BY <1>a DEF TypeInv
    <3> QED BY <1>5, <3>1 DEF StartThread, RegisterBasic, ReserveBasic
  <2>3. threads \in Nat /\ threads' = threads /\ passes' = passes
    BY <1>a, <2>2 DEF TypeInv, caller
  <2>4. \A t \in 1..threads : Through(t)' = Through(t)
    <3>1. \A s : SubSeq(s, 1, 1 - 1) = <<>>
      BY SubSeqEmpty
    <3>2. CASE /\ at.step = "thread" /\ current' = at.idx
               /\ at' = [step |-> "globals", idx |-> 1]
      BY <2>3, <3>2 DEF Through
    <3>3. CASE /\ at.step = "globals" /\ current' = current
               /\ at'.step = "globals"
      BY <2>3, <3>3 DEF Through
    <3>4. CASE /\ at.step = "globals" /\ current' = current
               /\ at' = [step |-> "apply", idx |-> 1]
      <4>1. at'.step = "apply" /\ at'.idx = 1
        BY <3>4
      <4>2. ASSUME NEW t \in 1..threads
            PROVE  Through(t)' = IF t < current THEN passes[t] ELSE <<>>
        BY <2>3, <3>1, <3>4, <4>1 DEF Through
      <4> QED BY <3>4, <4>2 DEF Through
    <3> QED BY <2>2, <3>2, <3>3, <3>4
  <2>6. \A t \in 1..threads' : Holds(bench, t, Through(t))'
    <3>1. \A t \in 1..threads : Holds(bench, t, Through(t))
      BY <2>2 DEF PrologueInv
    <3> QED BY <2>1, <2>3, <2>4, <3>1 DEF Holds, OwnInstrs, Made
  <2>7. PrologueComplete'
    BY <2>2, WrittenStays DEF caller
  <2>8. at'.step # "idle" /\ at.step # "idle"
    BY <2>2
  <2> QED BY <1>a, <2>1, <2>2, <2>3, <2>6, <2>7, <2>8
          DEF PrologueInv, Complete, Idle, Instructions, InOrder
<1>6. CASE ApplyBlock \/ ApplyReserve \/ ApplyUnReserve \/ ApplyFix
  <2>1. /\ Kind[Pass] \notin {"init", "fini"}
        /\ bench'.init = bench.init /\ bench'.fini = bench.fini
    BY <1>a, <1>6 DEF ApplyBlock, ApplyReserve, ApplyUnReserve, ApplyFix,
                      Applying, IsBench
  <2> QED BY <1>6, <2>1, PassMakes DEF ApplyBlock, ApplyReserve, ApplyUnReserve,
                                     ApplyFix, Applying, Extends
<1>7. CASE ApplyDeclare
  <2>1. bench'.init = bench.init /\ bench'.fini = bench.fini
    <3>1. \/ bench' = bench
          \/ \E a : bench' = RegisterVar(bench, a, Subject[Pass]).bench
      BY <1>7 DEF ApplyDeclare
    <3> QED BY <1>a, <3>1, RegisterVarMakesNone
  <2>2. Kind[Pass] = "declare" /\ (Applied \/ Raised(current, at.idx))
    BY <1>7 DEF ApplyDeclare, Applying
  <2> QED BY <1>7, <2>1, <2>2, PassMakes DEF ApplyDeclare, Applying, Extends
<1>8. CASE ApplyInit
  <2>1. \/ Raised(current, at.idx) /\ bench' = bench
        \/ Applied /\ bench' = AddInit(bench, Pass)
    BY <1>8 DEF ApplyInit
  <2>2. Kind[Pass] = "init"
    BY <1>8 DEF ApplyInit, Applying
  <2>3. Extends(bench, AddInit(bench, Pass), bench.thread, Pass)
    BY <1>a, <2>2, AddFields DEF Extends
  <2> QED BY <1>8, <2>1, <2>3, PassMakes DEF ApplyInit, Applying
<1>9. CASE ApplyFini
  <2>1. \/ Raised(current, at.idx) /\ bench' = bench
        \/ Applied /\ bench' = AddFini(bench, Pass)
    BY <1>9 DEF ApplyFini
  <2>2. Kind[Pass] = "fini"
    BY <1>9 DEF ApplyFini, Applying
  <2>3. Extends(bench, AddFini(bench, Pass), bench.thread, Pass)
    BY <1>a, <2>2, AddFields DEF Extends
  <2> QED BY <1>9, <2>1, <2>3, PassMakes DEF ApplyFini, Applying
<1>10. CASE CheckPasses
  <2>1. /\ at.step = "apply" /\ at.idx > Len(passes[current])
        /\ bench'.init = bench.init /\ bench'.fini = bench.fini
        /\ UNCHANGED <<caller, current, output, fault>>
        /\ at' = IF current < threads
                 THEN [step |-> "thread", idx |-> current + 1] ELSE Idle
        /\ built' = IF current < threads THEN built ELSE passes
    BY <1>a, <1>10 DEF CheckPasses, IsBench
  <2>2. current \in 1..threads /\ threads \in Nat
    BY <1>a, <2>1 DEF OnThread, TypeInv
  <2>3. /\ \A t \in 1..threads : Holds(bench, t, Through(t))
        /\ output = [t \in 1..threads |-> <<>>]
    BY <2>1 DEF PrologueInv
  <2>4. \A t \in 1..current : Through(t) = passes[t]
    BY <2>1, <2>2, ThroughAll DEF Through
  <2>5. PrologueComplete'
    BY <2>1, <2>3, WrittenStays DEF caller
  <2>6. CASE current < threads
    <3>1. at'.step = "thread" /\ at'.idx = current + 1
      BY <2>1, <2>6
    <3>2. \A t \in 1..threads : Through(t)' = Through(t)
      BY <2>1, <2>2, <2>4, <3>1 DEF Through, caller
    <3>3. \A t \in 1..threads' : Holds(bench, t, Through(t))'
      BY <2>1, <2>3, <3>2 DEF Holds, OwnInstrs, Made, caller
    <3> QED BY <1>a, <2>1, <2>3, <2>5, <3>1, <3>3
            DEF PrologueInv, Complete, Idle, Instructions, InOrder, caller
  <2>7. CASE ~(current < threads)
    <3>1. at' = Idle /\ built' = passes /\ threads' = threads
      BY <2>1, <2>7 DEF caller
    <3>2. \A t \in 1..threads : Holds(bench, t, passes[t])
      BY <2>2, <2>3, <2>4, <2>7
    <3>3. \A t \in 1..threads' : Holds(bench, t, built[t])'
      BY <2>1, <3>1, <3>2 DEF Holds, OwnInstrs, Made
    <3>4. InOrder(bench.init)' /\ InOrder(bench.fini)'
      BY <2>1 DEF PrologueInv, InOrder
    <3> QED BY <1>a, <2>1, <2>5, <3>1, <3>3, <3>4
            DEF PrologueInv, Idle, Instructions
  <2> QED BY <2>6, <2>7
<1>11. CASE Save
  <2>1. /\ Complete /\ at' = at /\ fault' = fault /\ built' = built
        /\ synths' = synths /\ threads' = threads
        /\ bench'.init = bench.init /\ bench'.fini = bench.fini
        /\ \/ output' = output
           \/ output' = [t \in 1..threads |->
                          << bench.init, bench.code[t], bench.fini >>]
    BY <1>a, <1>11 DEF Save, IsBench, caller
  <2>2. \A t \in 1..threads : Holds(bench, t, built[t])
    BY <2>1 DEF PrologueInv
  <2>3. \A t \in 1..threads' : Holds(bench, t, built[t])'
    BY <2>1, <2>2 DEF Holds, OwnInstrs, Made
  <2>4. CASE output' = output
    <3>1. PrologueComplete'
      BY <2>1, <2>4, WrittenStays
    <3> QED BY <1>a, <2>1, <2>3, <3>1
            DEF PrologueInv, Complete, Idle, Instructions, InOrder
  <2>5. CASE output' = [t \in 1..threads |->
                          << bench.init, bench.code[t], bench.fini >>]
    <3>1. PrologueComplete'
      <4>1. /\ bench.init \in Seq(Instructions) /\ InOrder(bench.init)
            /\ bench.fini \in Seq(Instructions) /\ InOrder(bench.fini)
        BY DEF PrologueInv
      <4>2. \A t \in 1..threads :
              output'[t][1] = bench.init /\ output'[t][3] = bench.fini
        BY <2>5
      <4> QED BY <2>1, <2>2, <4>1, <4>2
              DEF PrologueComplete, MadeBy, Holds, OwnInstrs, Made, InOrder,
                  Instructions
    <3> QED BY <1>a, <2>1, <2>3, <3>1
            DEF PrologueInv, Complete, Idle, Instructions, InOrder
  <2> QED BY <2>1, <2>4, <2>5
<1> QED BY <1>1, <1>2, <1>3, <1>4, <1>5, <1>6, <1>7, <1>8, <1>9, <1>10, <1>11
        DEF Next

\* The file of every thread starts and ends with exactly the instructions that
\* the passes of all threads made, thread after thread and in the order of the
\* passes, for any threads and passes.
THEOREM PrologueKept == Spec => []PrologueComplete
<1>1. Init => PrologueInv
  BY DEF Init, PrologueInv, PrologueComplete, Complete, NewBenchmark, Idle, InOrder
<1>2. SynthInv /\ ThreadInv /\ PrologueInv /\ [Next]_vars => PrologueInv'
  BY PrologueStep
<1>3. PrologueInv => PrologueComplete
  BY DEF PrologueInv
<1> QED BY <1>1, <1>2, <1>3, ThreadAlways, PTL DEF Spec

-----------------------------------------------------------------------------
(* The four invariants of ExecContext, for any registers, numbers, types,  *)
(* addresses and lengths. The register half and the memory half of the     *)
(* context do not read each other, so that each invariant is inductive     *)
(* together with the types of its own half.                                *)

\* The types of the two halves of the context.
RegisterTypes ==
    /\ registerValues \in [Regs -> Value \cup {NoValue}]
    /\ DOMAIN valueRegisters \in SUBSET Numbers
    /\ valueRegisters \in [DOMAIN valueRegisters ->
                             [type : Types, regs : SUBSET Regs]]
MemoryTypes ==
    /\ memoryValues \in SUBSET MemoryValue
    /\ DOMAIN valueMemorys \in SUBSET Numbers
    /\ valueMemorys \in [DOMAIN valueMemorys -> SUBSET MemoryValue]

RegisterInv == RegisterTypes /\ InverseExact
MemoryInv == MemoryTypes /\ MemoryDisjoint /\ MemoryInverseSound

\* A step of one half leaves the other half alone.
LEMMA HalvesApart ==
  ASSUME [ContextNext]_contextVars
  PROVE  /\ \/ UNCHANGED registerVars
            \/ \E r \in Regs : UnsetRegister(r)
            \/ \E r \in Regs, v \in Value : SetRegisterValue(r, v)
         /\ \/ UNCHANGED memoryVars
            \/ \E a \in Address, length \in 1..MaxLength : UnsetMemory(a, length)
            \/ \E mem \in MemoryValue : SetMemoryValue(mem)
  BY DEF ContextNext, contextVars, registerVars, memoryVars, AddReserved, RemoveReserved,
         UnsetRegister, SetRegisterValue, UnsetMemory, SetMemoryValue

----------------------------------------------------------------------------
\* Taking register r out of the inverse table leaves, under every number, the
\* other registers that hold it, and no number without a register.
LEMMA DroppedExact ==
  ASSUME RegisterInv, NEW r \in Regs, registerValues[r] # NoValue
  PROVE  LET table == Dropped(valueRegisters, r, registerValues[r])
         IN  /\ DOMAIN table \in SUBSET Numbers
             /\ table \in [DOMAIN table -> [type : Types, regs : SUBSET Regs]]
             /\ \A n \in DOMAIN table :
                  table[n].regs = Holders(n) \ {r} /\ table[n].regs # {}
             /\ \A n \in Numbers :
                  Holders(n) \ {r} # {} => n \in DOMAIN table
<1> DEFINE v == registerValues[r]
           left == valueRegisters[v.num].regs \ {r}
           table == Dropped(valueRegisters, r, v)
<1>1. /\ v \in Value /\ v.num \in Numbers
      /\ v.num \in DOMAIN valueRegisters /\ r \in Holders(v.num)
  BY DEF RegisterInv, RegisterTypes, InverseExact, Holders, Value
<1>2. \A n \in Numbers : n # v.num => r \notin Holders(n)
  BY DEF Holders
<1>3. /\ DOMAIN table = IF left = {} THEN DOMAIN valueRegisters \ {v.num}
                        ELSE DOMAIN valueRegisters
      /\ \A n \in DOMAIN table :
           table[n] = IF n = v.num THEN [valueRegisters[n] EXCEPT !.regs = left]
                      ELSE valueRegisters[n]
  BY DEF Dropped
<1>4. \A n \in DOMAIN valueRegisters :
        /\ n \in Numbers
        /\ valueRegisters[n] \in [type : Types, regs : SUBSET Regs]
        /\ valueRegisters[n].regs = Holders(n) /\ Holders(n) # {}
  BY DEF RegisterInv, RegisterTypes, InverseExact
<1>5. DOMAIN table \in SUBSET Numbers
  BY <1>3, <1>4
<1>6. ASSUME NEW n \in DOMAIN table
      PROVE  /\ table[n] \in [type : Types, regs : SUBSET Regs]
             /\ table[n].regs = Holders(n) \ {r} /\ table[n].regs # {}
  <2>0. /\ n \in DOMAIN valueRegisters
        /\ n = v.num => left # {}
        /\ left = Holders(v.num) \ {r}
    BY <1>1, <1>3, <1>4
  <2>1. CASE n = v.num
    <3>1. table[n] = [valueRegisters[n] EXCEPT !.regs = left]
      BY <2>1, <1>3
    <3>2. left \in SUBSET Regs /\ left = Holders(n) \ {r} /\ left # {}
      BY <2>0, <2>1 DEF Holders
    <3>3. valueRegisters[n] \in [type : Types, regs : SUBSET Regs]
      BY <2>0, <1>4
    <3> HIDE DEF table, left
    <3> QED BY <3>1, <3>2, <3>3
  <2>2. CASE n # v.num
    <3>1. table[n] = valueRegisters[n]
      BY <2>2, <1>3
    <3>2. /\ n \in Numbers
          /\ valueRegisters[n] \in [type : Types, regs : SUBSET Regs]
          /\ valueRegisters[n].regs = Holders(n) /\ Holders(n) # {}
      BY <2>0, <1>4
    <3>3. r \notin Holders(n)
      BY <2>2, <3>2, <1>2
    <3> HIDE DEF table, left
    <3> QED BY <3>1, <3>2, <3>3
  <2> QED BY <2>1, <2>2
<1>7. table \in [DOMAIN table -> [type : Types, regs : SUBSET Regs]]
  BY <1>6 DEF Dropped
<1>8. \A n \in Numbers : Holders(n) # {} => n \in DOMAIN valueRegisters
  BY DEF RegisterInv, InverseExact, Holders
<1>9. \A n \in Numbers : Holders(n) \ {r} # {} => n \in DOMAIN table
  BY <1>1, <1>3, <1>4, <1>8
<1> QED BY <1>5, <1>6, <1>7, <1>9

\* The table once the register is unset, whether it had a value or not.
LEMMA UnlistedExact ==
  ASSUME RegisterInv, NEW r \in Regs
  PROVE  LET table == Unlisted(r)
         IN  /\ DOMAIN table \in SUBSET Numbers
             /\ table \in [DOMAIN table -> [type : Types, regs : SUBSET Regs]]
             /\ \A n \in DOMAIN table :
                  table[n].regs = Holders(n) \ {r} /\ table[n].regs # {}
             /\ \A n \in Numbers :
                  Holders(n) \ {r} # {} => n \in DOMAIN table
<1>1. CASE registerValues[r] # NoValue
  BY <1>1, DroppedExact DEF Unlisted
<1>2. CASE registerValues[r] = NoValue
  <2>1. \A n : Holders(n) \ {r} = Holders(n)
    BY <1>2 DEF Holders
  <2>2. \A n \in Numbers : Holders(n) # {} => n \in DOMAIN valueRegisters
    BY DEF RegisterInv, InverseExact, Holders
  <2> QED BY <1>2, <2>1, <2>2
          DEF Unlisted, RegisterInv, RegisterTypes, InverseExact
<1> QED BY <1>1, <1>2

----------------------------------------------------------------------------
\* The register half is an invariant.
LEMMA RegisterInvHolds == ContextSpec => []RegisterInv
<1>1. ContextInit => RegisterInv
  BY DEF ContextInit, RegisterInv, RegisterTypes, InverseExact, Holders
<1>2. RegisterInv /\ [ContextNext]_contextVars => RegisterInv'
  <2> SUFFICES ASSUME RegisterInv, [ContextNext]_contextVars PROVE RegisterInv'
    OBVIOUS
  <2>1. CASE UNCHANGED registerVars
    BY <2>1 DEF RegisterInv, RegisterTypes, InverseExact, Holders, registerVars
  <2>2. ASSUME NEW r \in Regs, UnsetRegister(r) PROVE RegisterInv'
    <3>1. \A n : Holders(n)' = Holders(n) \ {r}
      BY <2>2, ContextAssumption
      DEF UnsetRegister, Holders, RegisterInv, RegisterTypes
    <3>2. RegisterTypes'
      BY <2>2, UnlistedExact
      DEF UnsetRegister, RegisterInv, RegisterTypes
    <3>3. \A n \in DOMAIN valueRegisters' :
            /\ valueRegisters'[n].regs = Holders(n)' /\ Holders(n)' # {}
      BY <2>2, <3>1, UnlistedExact DEF UnsetRegister
    <3>4. \A n \in Numbers : Holders(n)' # {} => n \in DOMAIN valueRegisters'
      BY <2>2, <3>1, UnlistedExact DEF UnsetRegister
    <3>5. ASSUME NEW s \in Regs, registerValues'[s] # NoValue
          PROVE  registerValues'[s].num \in DOMAIN valueRegisters'
      <4>1. PICK n \in Numbers : n = registerValues'[s].num
        BY <3>5, <3>2 DEF RegisterTypes, Value
      <4>2. s \in Holders(n)'
        BY <3>5, <4>1 DEF Holders
      <4> QED BY <4>1, <4>2, <3>4
    <3>6. InverseExact'
      BY <3>3, <3>5 DEF InverseExact
    <3> QED BY <3>2, <3>6 DEF RegisterInv
  <2>3. ASSUME NEW r \in Regs, NEW v \in Value, SetRegisterValue(r, v)
        PROVE  RegisterInv'
    <3> DEFINE table == Unlisted(r)
    <3>0. v.num \in Numbers /\ v.type \in Types /\ v # NoValue
      BY ContextAssumption DEF Value
    <3>1. \A n : Holders(n)' = (Holders(n) \ {r})
                               \cup (IF n = v.num THEN {r} ELSE {})
      BY <2>3, <3>0 DEF SetRegisterValue, Holders, RegisterInv, RegisterTypes
    <3>2. /\ DOMAIN table \in SUBSET Numbers
          /\ \A n \in DOMAIN table :
               /\ table[n] \in [type : Types, regs : SUBSET Regs]
               /\ table[n].regs = Holders(n) \ {r} /\ table[n].regs # {}
          /\ \A n \in Numbers : Holders(n) \ {r} # {} => n \in DOMAIN table
      BY UnlistedExact
    <3> HIDE DEF table
    <3>3. /\ DOMAIN valueRegisters' = DOMAIN table \cup {v.num}
          /\ \A n \in DOMAIN table \cup {v.num} : valueRegisters'[n] =
               IF n # v.num THEN table[n]
               ELSE IF n \in DOMAIN table
                    THEN [table[n] EXCEPT !.regs = table[n].regs \cup {r}]
                    ELSE [type |-> v.type, regs |-> {r}]
          /\ valueRegisters' = [n \in DOMAIN valueRegisters' |->
                                  valueRegisters'[n]]
      BY <2>3 DEF SetRegisterValue, Recorded, table
    <3>4. ASSUME NEW n \in DOMAIN valueRegisters'
          PROVE  /\ valueRegisters'[n] \in [type : Types, regs : SUBSET Regs]
                 /\ valueRegisters'[n].regs = Holders(n)' /\ Holders(n)' # {}
      <4>1. CASE n # v.num
        <5>1. n \in DOMAIN table /\ valueRegisters'[n] = table[n]
          BY <4>1, <3>3
        <5>2. Holders(n)' = Holders(n) \ {r}
          BY <4>1, <3>1
        <5> QED BY <5>1, <5>2, <3>2
      <4>2. CASE n = v.num /\ n \in DOMAIN table
        <5>1. valueRegisters'[n] =
                [table[n] EXCEPT !.regs = table[n].regs \cup {r}]
          BY <4>2, <3>3
        <5>2. Holders(n)' = (Holders(n) \ {r}) \cup {r}
          BY <4>2, <3>1
        <5> QED BY <5>1, <5>2, <4>2, <3>2
      <4>3. CASE n = v.num /\ n \notin DOMAIN table
        <5>1. Holders(n) \ {r} = {}
          BY <4>3, <3>0, <3>2
        <5>2. valueRegisters'[n] = [type |-> v.type, regs |-> {r}]
          BY <4>3, <3>3
        <5>3. Holders(n)' = {r}
          BY <5>1, <4>3, <3>1
        <5> QED BY <5>2, <5>3, <3>0
      <4> QED BY <4>1, <4>2, <4>3
    <3>5. \A n \in Numbers : Holders(n)' # {} => n \in DOMAIN valueRegisters'
      BY <3>1, <3>2, <3>3
    <3>6. RegisterTypes'
      <4>1. DOMAIN valueRegisters' \in SUBSET Numbers
        BY <3>0, <3>2, <3>3
      <4>2. valueRegisters' \in [DOMAIN valueRegisters' ->
                                   [type : Types, regs : SUBSET Regs]]
        BY <3>3, <3>4
      <4>3. registerValues' \in [Regs -> Value \cup {NoValue}]
        BY <2>3 DEF SetRegisterValue, RegisterInv, RegisterTypes
      <4> QED BY <4>1, <4>2, <4>3 DEF RegisterTypes
    <3>7. ASSUME NEW s \in Regs, registerValues'[s] # NoValue
          PROVE  registerValues'[s].num \in DOMAIN valueRegisters'
      <4>1. PICK n \in Numbers : n = registerValues'[s].num
        BY <3>7, <3>6 DEF RegisterTypes, Value
      <4>2. s \in Holders(n)'
        BY <3>7, <4>1 DEF Holders
      <4> QED BY <4>1, <4>2, <3>5
    <3>8. InverseExact'
      BY <3>4, <3>7 DEF InverseExact
    <3> QED BY <3>6, <3>8 DEF RegisterInv
  <2> QED BY <2>1, <2>2, <2>3, HalvesApart
<1> QED BY <1>1, <1>2, PTL DEF ContextSpec

----------------------------------------------------------------------------
\* Dropping the regions that overlap a new one keeps the rest disjoint from
\* each other and from it, and keeps the inverse table sound.
LEMMA KeptSound ==
  ASSUME MemoryInv, NEW a \in Address, NEW length \in 1..MaxLength
  PROVE  /\ Kept(a, length) \in SUBSET memoryValues
         /\ \A m \in Kept(a, length) :
              m.address.base = a.base
                => \/ m.address.disp + m.length <= a.disp
                   \/ a.disp + length <= m.address.disp
         /\ DOMAIN KeptInverse(a, length) = DOMAIN valueMemorys
         /\ \A n \in DOMAIN valueMemorys : \A m \in KeptInverse(a, length)[n] :
              m \in Kept(a, length) /\ m.value = n
<1>1. \A m \in memoryValues :
        m.address.disp \in Nat /\ m.length \in Nat
  BY ContextAssumption DEF MemoryInv, MemoryTypes, MemoryValue, Address
<1>2. a.disp \in Nat /\ length \in Nat
  BY ContextAssumption DEF Address
<1>3. \A m \in Kept(a, length) :
        m.address.base = a.base
          => \/ m.address.disp + m.length <= a.disp
             \/ a.disp + length <= m.address.disp
  BY <1>1, <1>2 DEF Kept, Overlaps
<1>4. \A n \in DOMAIN valueMemorys : \A m \in KeptInverse(a, length)[n] :
        m \in Kept(a, length) /\ m.value = n
  BY DEF KeptInverse, Kept, MemoryInv, MemoryInverseSound
<1> QED BY <1>3, <1>4 DEF Kept, KeptInverse

\* The memory half is an invariant.
LEMMA MemoryInvHolds == ContextSpec => []MemoryInv
<1>1. ContextInit => MemoryInv
  BY DEF ContextInit, MemoryInv, MemoryTypes, MemoryDisjoint, MemoryInverseSound
<1>2. MemoryInv /\ [ContextNext]_contextVars => MemoryInv'
  <2> SUFFICES ASSUME MemoryInv, [ContextNext]_contextVars PROVE MemoryInv'
    OBVIOUS
  <2> USE DEF MemoryInv
  <2>1. CASE UNCHANGED memoryVars
    BY <2>1 DEF MemoryTypes, MemoryDisjoint, MemoryInverseSound, memoryVars
  <2>2. ASSUME NEW a \in Address, NEW length \in 1..MaxLength,
               UnsetMemory(a, length)
        PROVE  MemoryInv'
    <3>1. MemoryTypes'
      BY <2>2, KeptSound DEF UnsetMemory, MemoryTypes, KeptInverse
    <3>2. MemoryDisjoint'
      BY <2>2, KeptSound DEF UnsetMemory, MemoryDisjoint
    <3>3. MemoryInverseSound'
      BY <2>2, KeptSound DEF UnsetMemory, MemoryInverseSound
    <3> QED BY <3>1, <3>2, <3>3
  <2>3. ASSUME NEW mem \in MemoryValue, SetMemoryValue(mem)
        PROVE  MemoryInv'
    <3> DEFINE a == mem.address
               inverse == KeptInverse(a, mem.length)
    <3>0. a \in Address /\ mem.length \in 1..MaxLength /\ mem.value \in Numbers
      BY DEF MemoryValue
    <3>1. /\ memoryValues' = Kept(a, mem.length) \cup {mem}
          /\ DOMAIN valueMemorys' = DOMAIN valueMemorys \cup {mem.value}
          /\ \A n \in DOMAIN valueMemorys \cup {mem.value} : valueMemorys'[n] =
               IF n = mem.value THEN {mem} ELSE inverse[n]
          /\ valueMemorys' = [n \in DOMAIN valueMemorys' |-> valueMemorys'[n]]
      BY <2>3 DEF SetMemoryValue, KeptInverse
    <3>2. /\ Kept(a, mem.length) \in SUBSET memoryValues
          /\ \A m \in Kept(a, mem.length) :
               m.address.base = a.base
                 => \/ m.address.disp + m.length <= a.disp
                    \/ a.disp + mem.length <= m.address.disp
          /\ \A n \in DOMAIN valueMemorys : \A m \in inverse[n] :
               m \in Kept(a, mem.length) /\ m.value = n
      BY <3>0, KeptSound
    <3> HIDE DEF inverse
    <3>3. MemoryInverseSound'
      BY <3>1, <3>2 DEF MemoryInverseSound
    <3>4. MemoryDisjoint'
      BY <3>1, <3>2 DEF MemoryDisjoint
    <3>5. MemoryTypes'
      <4>1. memoryValues' \in SUBSET MemoryValue
        BY <3>1, <3>2 DEF MemoryTypes
      <4>2. DOMAIN valueMemorys' \in SUBSET Numbers
        BY <3>0, <3>1 DEF MemoryTypes
      <4>3. \A n \in DOMAIN valueMemorys' : valueMemorys'[n] \in SUBSET MemoryValue
        BY <3>3, <4>1 DEF MemoryInverseSound
      <4> QED BY <3>1, <4>1, <4>2, <4>3 DEF MemoryTypes
    <3> QED BY <3>3, <3>4, <3>5
  <2> QED BY <2>1, <2>2, <2>3, HalvesApart
<1> QED BY <1>1, <1>2, PTL DEF ContextSpec

----------------------------------------------------------------------------
\* The state of a context keeps its types under every call.
THEOREM ContextTypeCorrect == ContextSpec => []ContextTypeOK
<1>1. ContextInit => reserved \in SUBSET Regs
  BY DEF ContextInit
<1>2. reserved \in SUBSET Regs /\ [ContextNext]_contextVars => (reserved \in SUBSET Regs)'
  BY DEF ContextNext, contextVars, AddReserved, RemoveReserved, UnsetRegister,
         SetRegisterValue, UnsetMemory, SetMemoryValue
<1>3. RegisterInv /\ MemoryInv /\ reserved \in SUBSET Regs => ContextTypeOK
  BY DEF RegisterInv, RegisterTypes, MemoryInv, MemoryTypes, ContextTypeOK
<1> QED BY <1>1, <1>2, <1>3, RegisterInvHolds, MemoryInvHolds, PTL DEF ContextSpec

\* set_register_value and unset_register keep the register table and its
\* inverse in step, whatever the types of the values (context.py 133-165 and
\* 316-332).
THEOREM InverseIsExact == ContextSpec => []InverseExact
<1>1. RegisterInv => InverseExact
  BY DEF RegisterInv
<1> QED BY <1>1, RegisterInvHolds, PTL

\* set_memory_value and unset_memory never let two recorded regions share a
\* byte (context.py 334-366 and 381-417).
THEOREM RegionsDisjoint == ContextSpec => []MemoryDisjoint
<1>1. MemoryInv => MemoryDisjoint
  BY DEF MemoryInv
<1> QED BY <1>1, MemoryInvHolds, PTL

\* What the inverse table of the memory lists is recorded, although the table
\* forgets regions (context.py 346-364 and 414-415).
THEOREM InverseOfMemorySound == ContextSpec => []MemoryInverseSound
<1>1. MemoryInv => MemoryInverseSound
  BY DEF MemoryInv
<1> QED BY <1>1, MemoryInvHolds, PTL
=============================================================================
