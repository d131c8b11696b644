---------------------------- MODULE BranchProofs ----------------------------
(***************************************************************************)
(* BranchPasses keeps its types, and where no pass braids the targets of   *)
(* branches agree, for every program, list of passes, chunk size, number   *)
(* of free registers and distance of slots.                                *)
(*                                                                         *)
(* A building block is "sound" when its objects have the types TypeOK      *)
(* asks for and more: each has one place in the text, no address is larger *)
(* than the number of instructions before that place, no offset leads      *)
(* before the first instruction. The last two are what keeps the execution *)
(* of the assembled loop at its positions 1, 2, ...: a branch with an      *)
(* offset goes to the address it was computed from. An address is computed *)
(* once and stays while code is added before it, so it is never too large. *)
(*                                                                         *)
(* The passes that add no instruction change labels, targets, addresses    *)
(* and kinds of objects that stay where they are. BranchBraidNextPass adds *)
(* copies of the body, group by group, behind a branch (InsertInstr of     *)
(* BasicBlock). Each group goes behind as many positions as it has         *)
(* instructions, which is why no instruction is lost where Bbl makes room  *)
(* for it; that is so for a program of one block (its dictionary has all   *)
(* of the text before the branch), and not for several, where the copies   *)
(* of all blocks go into the last.                                         *)
(***************************************************************************)
EXTENDS BranchPasses, FiniteFacts, SequenceTheorems

-----------------------------------------------------------------------------
(* Joined lists.                                                           *)

\* The elements of two lists joined.
LEMMA JoinedIs ==
  ASSUME NEW S, NEW x \in Seq(S), NEW y \in Seq(S)
  PROVE  LET m == Len(x)
             k == Len(y)
         IN  /\ m \in Nat /\ k \in Nat
             /\ x \o y \in Seq(S) /\ Len(x \o y) = m + k
             /\ \A j \in 1..m : (x \o y)[j] = x[j]
             /\ \A j \in 1..k : (x \o y)[m + j] = y[j]
             /\ x \o y = [j \in 1..(m + k) |-> IF j <= m THEN x[j] ELSE y[j - m]]
<1> DEFINE m == Len(x)
           k == Len(y)
           z == x \o y
<1>1. m \in Nat /\ k \in Nat
  BY LenProperties
<1>2. /\ z \in Seq(S) /\ Len(z) = m + k
      /\ \A j \in 1..(m + k) : z[j] = IF j <= m THEN x[j] ELSE y[j - m]
  BY ConcatProperties
<1>3. z = [j \in 1..(m + k) |-> z[j]]
  <2> HIDE DEF m, k, z
  <2> QED BY <1>2
<1> HIDE DEF m, k, z
<1>4. \A j \in 1..m : j \in 1..(m + k) /\ j <= m
  BY <1>1
<1>5. \A j \in 1..k : m + j \in 1..(m + k) /\ ~(m + j <= m) /\ (m + j) - m = j
  BY <1>1
<1>6. z = [j \in 1..(m + k) |-> IF j <= m THEN x[j] ELSE y[j - m]]
  BY <1>2, <1>3
<1> QED BY <1>1, <1>2, <1>4, <1>5, <1>6 DEF m, k, z

\* The lists FlattenSeq joins, prefix by prefix.
Joins(h, S, ss) ==
    /\ h \in [0..Len(ss) -> Seq(S)] /\ h[0] = <<>>
    /\ \A n \in 1..Len(ss) : h[n] = h[n - 1] \o ss[n]

\* There are such prefixes, and the last one is what FlattenSeq returns.
LEMMA JoinsExist ==
  ASSUME NEW S, NEW ss \in Seq(Seq(S))
  PROVE  \E h : Joins(h, S, ss)
<1> DEFINE N == Len(ss)
           step == [n \in 1..N |-> [r \in Seq(S) |-> r \o ss[n]]]
<1>1. N \in Nat /\ \A n \in 1..N : ss[n] \in Seq(S)
  OBVIOUS
<1>2. \A n \in 1..N, r \in Seq(S) : step[n][r] = r \o ss[n]
  OBVIOUS
<1>3. StepsInto(step, N, Seq(S))
  BY <1>1, <1>2 DEF StepsInto
<1>4. <<>> \in Seq(S)
  OBVIOUS
<1> HIDE DEF step, N
<1>5. PICK h \in [0..N -> Seq(S)] : Unrolls(h, N, <<>>, step)
  BY <1>1, <1>3, <1>4, RecursiveFunction
<1>6. \A n \in 1..N : h[n] = h[n - 1] \o ss[n]
  <2>1. \A n \in 1..N : n - 1 \in 0..N
    BY <1>1
  <2> QED BY <1>2, <1>5, <2>1 DEF Unrolls
<1> QED BY <1>5, <1>6 DEF Joins, Unrolls, N

\* The last prefix is the joined list.
LEMMA FlattenJoins ==
  ASSUME NEW S, NEW ss \in Seq(Seq(S)), NEW h, Joins(h, S, ss)
  PROVE  FlattenSeq(ss) = h[Len(ss)]
<1> DEFINE N == Len(ss)
           Is(f) == f = [i \in 1..N |-> IF i = 1 THEN ss[i] ELSE f[i - 1] \o ss[i]]
           g == CHOOSE f : Is(f)
           f0 == [i \in 1..N |-> h[i]]
<1>1. N \in Nat /\ \A n \in 1..N : ss[n] \in Seq(S)
  OBVIOUS
<1>2. CASE N = 0
  BY <1>2 DEF FlattenSeq, Joins
<1>3. CASE N # 0
  <2>1. FlattenSeq(ss) = g[N]
    BY <1>3 DEF FlattenSeq
  <2>2. \A i \in 1..N : i # 1 => i - 1 \in 1..N
    BY <1>1
  <2>j. /\ h[0] = <<>> /\ \A n \in 0..N : h[n] \in Seq(S)
        /\ \A n \in 1..N : h[n] = h[n - 1] \o ss[n]
    BY DEF Joins
  <2>k. 1 \in 1..N
    BY <1>1, <1>3
  <2>h. h[1] = ss[1]
    <3>1. h[1] = h[1 - 1] \o ss[1]
      BY <2>j, <2>k
    <3>2. h[1 - 1] = <<>> /\ ss[1] \in Seq(S)
      BY <1>1, <2>j, <2>k
    <3> QED BY <3>1, <3>2
  <2>3. Is(f0)
    <3>2. \A i \in 1..N : f0[i] = IF i = 1 THEN ss[i] ELSE f0[i - 1] \o ss[i]
      BY <2>2, <2>j, <2>h
    <3> HIDE DEF N
    <3> QED BY <3>2
  <2>4. Is(g)
    <3> HIDE DEF Is
    <3> QED BY <2>3
  <2> HIDE DEF g, N
  <2>5. /\ g[1] = ss[1] /\ \A i \in 1..N : i # 1 => g[i] = g[i - 1] \o ss[i]
    BY <2>4, <2>k
  <2>6. \A n \in 0..N : n = 0 \/ g[n] = h[n]
    <3> DEFINE G == {n \in 0..N : n = 0 \/ g[n] = h[n]}
    <3>1. 0 \in G
      BY <1>1
    <3>2. ASSUME NEW n \in 1..N, n - 1 \in G PROVE n \in G
      <4>1. CASE n = 1
        <5>1. g[1] = ss[1] /\ h[1] = ss[1] /\ 1 \in 0..N
          BY <2>5, <2>h, <2>k
        <5> QED BY <4>1, <5>1
      <4>2. CASE n # 1
        <5>1. g[n] = g[n - 1] \o ss[n] /\ h[n] = h[n - 1] \o ss[n]
          BY <2>5, <2>j, <4>2
        <5>2. n - 1 # 0 /\ g[n - 1] = h[n - 1] /\ n \in 0..N
          BY <1>1, <3>2, <4>2
        <5> QED BY <5>1, <5>2
      <4> QED BY <4>1, <4>2
    <3> HIDE DEF G
    <3>3. 0..N \subseteq G
      BY <1>1, <3>1, <3>2, SetInductionUpTo
    <3> QED BY <3>3 DEF G
  <2> QED BY <2>1, <2>6, <1>3, <1>1 DEF N
<1> QED BY <1>2, <1>3

\* FlattenSeq joins one list after the other.
LEMMA FlattenPrefixes ==
  ASSUME NEW S, NEW ss \in Seq(Seq(S))
  PROVE  \E h : /\ Joins(h, S, ss)
                /\ \A n \in 0..Len(ss) : FlattenSeq(SubSeq(ss, 1, n)) = h[n]
                /\ FlattenSeq(ss) = h[Len(ss)]
<1>1. PICK h : Joins(h, S, ss)
  BY JoinsExist
<1>2. ASSUME NEW n \in 0..Len(ss)
      PROVE  FlattenSeq(SubSeq(ss, 1, n)) = h[n]
  <2> DEFINE t == SubSeq(ss, 1, n)
             k == [i \in 0..n |-> h[i]]
  <2>1. t \in Seq(Seq(S)) /\ Len(t) = n /\ \A i \in 1..n : t[i] = ss[i]
    OBVIOUS
  <2>2. Joins(k, S, t)
    <3>1. \A i \in 0..n : i \in 0..Len(ss)
      OBVIOUS
    <3>2. \A i \in 1..n : i \in 1..Len(ss) /\ i \in 0..n /\ i - 1 \in 0..n
      OBVIOUS
    <3>3. k \in [0..n -> Seq(S)]
      BY <1>1, <3>1 DEF Joins
    <3>4. k[0] = <<>>
      BY <1>1 DEF Joins
    <3>5. \A i \in 1..n : k[i] = k[i - 1] \o t[i]
      BY <1>1, <2>1, <3>2 DEF Joins
    <3> HIDE DEF t, k
    <3> QED BY <2>1, <3>3, <3>4, <3>5 DEF Joins
  <2> HIDE DEF t
  <2>3. FlattenSeq(t) = k[n]
    BY <2>1, <2>2, FlattenJoins
  <2> QED BY <2>3 DEF t
<1> QED BY <1>1, <1>2, FlattenJoins

\* One list more, and one list alone.
LEMMA FlattenAppend ==
  ASSUME NEW S, NEW ss \in Seq(Seq(S)), NEW x \in Seq(S)
  PROVE  /\ FlattenSeq(ss) \in Seq(S)
         /\ FlattenSeq(Append(ss, x)) = FlattenSeq(ss) \o x
         /\ FlattenSeq(<<x>>) = x /\ FlattenSeq(<<>>) = <<>>
<1> DEFINE t == Append(ss, x)
           n == Len(ss)
<1>1. t \in Seq(Seq(S)) /\ Len(t) = n + 1 /\ n \in Nat /\ t[n + 1] = x
      /\ SubSeq(t, 1, n) = ss
  OBVIOUS
<1>2. PICK h : /\ Joins(h, S, t)
               /\ \A m \in 0..Len(t) : FlattenSeq(SubSeq(t, 1, m)) = h[m]
               /\ FlattenSeq(t) = h[Len(t)]
  BY <1>1, FlattenPrefixes
<1> HIDE DEF t, n
<1>3. h[n + 1] = h[n] \o x /\ h[n] = FlattenSeq(ss) /\ h[n] \in Seq(S)
  <2>1. n \in 0..Len(t) /\ n + 1 \in 1..Len(t) /\ (n + 1) - 1 = n
    BY <1>1
  <2> QED BY <1>1, <1>2, <2>1 DEF Joins
<1>4. FlattenSeq(<<>>) = <<>>
  BY DEF FlattenSeq
<1>5. FlattenSeq(<<x>>) = x
  <2>1. <<x>> \in Seq(Seq(S)) /\ Len(<<x>>) = 1 /\ <<x>>[1] = x
    OBVIOUS
  <2>2. PICK f : Joins(f, S, <<x>>)
    BY <2>1, JoinsExist
  <2>3. f[0] = <<>> /\ \A i \in 1..1 : f[i] = f[i - 1] \o <<x>>[i]
    BY <2>1, <2>2 DEF Joins
  <2>4. f[1] = f[1 - 1] \o x
    BY <2>1, <2>3
  <2>5. f[1] = x
    BY <2>3, <2>4
  <2> QED BY <2>1, <2>2, <2>5, FlattenJoins
<1> QED BY <1>1, <1>2, <1>3, <1>4, <1>5 DEF t, n
-----------------------------------------------------------------------------
(* The building block the passes begin with.                               *)

\* Where Bbl.__init__ puts the instructions of a new block.
LEMMA NewBlockSlots ==
  ASSUME NEW new, NEW k \in Nat, Len(new) = k
  PROVE  LET b == NewBlock(new)
         IN  /\ DOMAIN b.slot = {Stride * j : j \in 1..k}
             /\ \A j \in 1..k : b.slot[Stride * j] = new[j]
             /\ b.pointer = Stride * (k + 1) /\ b.index = IndexOfSlots(b.slot)
             /\ b = [slot |-> b.slot, pointer |-> b.pointer, index |-> b.index]
<1> DEFINE slot == [p \in {Stride * j : j \in 1..k} |->
                      new[CHOOSE j \in 1..k : p = Stride * j]]
<1>1. \A i, j \in 1..k : Stride * i = Stride * j => i = j
  BY StrideAssumption
<1>2. \A j \in 1..k : (CHOOSE i \in 1..k : Stride * j = Stride * i) = j
  BY <1>1
<1>3. NewBlock(new) = [slot |-> slot, pointer |-> Stride * (k + 1),
                       index |-> IndexOfSlots(slot)]
  BY DEF NewBlock
<1>4. DOMAIN slot = {Stride * j : j \in 1..k} /\ \A j \in 1..k : slot[Stride * j] = new[j]
  BY <1>2
<1> HIDE DEF slot
<1> QED BY <1>3, <1>4

\* What a block shows, by an ascending enumeration of its visible positions.
LEMMA ShownBy ==
  ASSUME NEW b, Live(b) \in SUBSET Nat, NEW M \in Nat, NEW f,
         Ascends(f, M, Live(b))
  PROVE  Instrs(b) = [n \in 1..M |-> b.slot[f[n]]]
<1> DEFINE S == Live(b)
<1>1. Instrs(b) = [n \in 1..Cardinality(S) |-> b.slot[At(S, n)]]
  BY DEF Instrs, At, Below
<1> HIDE DEF S
<1>2. Cardinality(S) = M /\ \A n \in 1..M : f[n] = At(S, n)
  BY OneEnumeration DEF S
<1> QED BY <1>1, <1>2

\* A new block shows its instructions in order.
LEMMA NewBlockIs ==
  ASSUME NEW c \in Nat, NEW k \in Nat
  PROVE  Instrs(NewBlock(NewInstrs(c, k))) = [j \in 1..k |-> c + j]
<1> DEFINE new == NewInstrs(c, k)
           b == NewBlock(new)
           f == [j \in 1..k |-> Stride * j]
<1>1. Len(new) = k /\ \A j \in 1..k : new[j] = c + j
  BY DEF NewInstrs
<1> HIDE DEF new
<1>2. /\ DOMAIN b.slot = {Stride * j : j \in 1..k}
      /\ \A j \in 1..k : b.slot[Stride * j] = c + j
      /\ b.pointer = Stride * (k + 1)
  BY <1>1, NewBlockSlots
<1> HIDE DEF b
<1>3. /\ \A j \in 1..k : Stride * j \in Nat /\ Stride * j < Stride * (k + 1)
      /\ \A i, j \in 1..k : i < j => Stride * i < Stride * j
  BY StrideAssumption
<1>4. Live(b) = {Stride * j : j \in 1..k} /\ Live(b) \in SUBSET Nat
  BY <1>2, <1>3 DEF Live
<1>5. Ascends(f, k, Live(b))
  BY <1>3, <1>4 DEF Ascends
<1> HIDE DEF f
<1>6. Instrs(b) = [j \in 1..k |-> b.slot[f[j]]]
  <2>1. Live(b) \in SUBSET Nat
    BY <1>4
  <2> QED BY <1>5, <2>1, ShownBy
<1>7. \A j \in 1..k : b.slot[f[j]] = c + j
  BY <1>2 DEF f
<1> QED BY <1>6, <1>7 DEF b, new

\* The parts of a case.
LEMMA CaseParts ==
  ASSUME NEW c \in Cases
  PROVE  /\ c.blocks \in Seq(Seq(Items)) /\ c.fini \in Nat /\ c.chunk \in Nat \ {0}
         /\ FlattenSeq(c.blocks) \in Seq(Items)
         /\ Len(FlattenSeq(c.blocks)) \in Nat \ {0}
<1>1. /\ c.blocks \in Seq(Seq(Items)) /\ c.fini \in Nat /\ c.chunk \in Nat \ {0}
      /\ FlattenSeq(c.blocks) # <<>>
  BY CasesAssumption
<1>2. FlattenSeq(c.blocks) \in Seq(Items)
  BY <1>1, FlattenAppend, EmptySeq
<1> QED BY <1>1, <1>2

\* At first the text is the instructions in the order of their numbers.
LEMMA BuiltBody ==
  ASSUME NEW c \in Cases
  PROVE  Body(Built(c)) = [j \in 1..Len(FlattenSeq(c.blocks)) |-> j]
<1> DEFINE bs == c.blocks
           N == Len(bs)
           before(b) == Len(FlattenSeq(SubSeq(bs, 1, b - 1)))
           shown == [b \in 1..N |-> [j \in 1..Len(bs[b]) |-> before(b) + j]]
<1>1. bs \in Seq(Seq(Items)) /\ N \in Nat /\ \A b \in 1..N : bs[b] \in Seq(Items)
  BY CaseParts
<1>2. PICK h : /\ Joins(h, Items, bs)
               /\ \A n \in 0..N : FlattenSeq(SubSeq(bs, 1, n)) = h[n]
               /\ FlattenSeq(bs) = h[N]
  BY <1>1, FlattenPrefixes
<1>3. /\ \A n \in 0..N : h[n] \in Seq(Items)
      /\ h[0] = <<>> /\ \A n \in 1..N : h[n] = h[n - 1] \o bs[n]
  BY <1>2 DEF Joins
<1>4. \A n \in 1..N : n - 1 \in 0..N /\ n \in 0..N
  BY <1>1
<1>5. \A b \in 1..N : /\ before(b) = Len(h[b - 1]) /\ before(b) \in Nat
                      /\ Len(h[b]) = before(b) + Len(bs[b]) /\ Len(bs[b]) \in Nat
  <2> SUFFICES ASSUME NEW b \in 1..N
               PROVE  /\ before(b) = Len(h[b - 1]) /\ before(b) \in Nat
                      /\ Len(h[b]) = before(b) + Len(bs[b]) /\ Len(bs[b]) \in Nat
    OBVIOUS
  <2>1. /\ h[b - 1] \in Seq(Items) /\ bs[b] \in Seq(Items)
        /\ h[b] = h[b - 1] \o bs[b] /\ before(b) = Len(h[b - 1])
    BY <1>1, <1>2, <1>3, <1>4
  <2> HIDE DEF before, N
  <2> QED BY <2>1, JoinedIs
<1>6. \A b \in 1..N : Instrs(Built(c).blocks[b]) = shown[b]
  <2> SUFFICES ASSUME NEW b \in 1..N PROVE Instrs(Built(c).blocks[b]) = shown[b]
    OBVIOUS
  <2>1. Built(c).blocks[b] = NewBlock(NewInstrs(before(b), Len(bs[b])))
    BY <1>1 DEF Built
  <2> HIDE DEF before
  <2> QED BY <2>1, <1>5, NewBlockIs
<1>7. Body(Built(c)) = FlattenSeq(shown)
  <2>1. DOMAIN Built(c).blocks = 1..N
    BY <1>1 DEF Built
  <2> HIDE DEF shown, N
  <2>2. [b \in 1..N |-> Instrs(Built(c).blocks[b])] = [b \in 1..N |-> shown[b]]
    BY <1>6
  <2>3. shown = [b \in 1..N |-> shown[b]]
    BY DEF shown
  <2> QED BY <2>1, <2>2, <2>3 DEF Body
<1>8. shown \in Seq(Seq(Nat)) /\ Len(shown) = N
  <2>1. \A b \in 1..N : shown[b] \in Seq(Nat)
    <3> HIDE DEF before, N
    <3>1. \A b \in 1..N : [j \in 1..Len(bs[b]) |-> before(b) + j] \in Seq(Nat)
      BY <1>5
    <3> QED BY <3>1
  <2>2. shown = [b \in 1..N |-> shown[b]]
    OBVIOUS
  <2> HIDE DEF before, shown, N
  <2> QED BY <1>1, <2>1, <2>2
<1>9. \A b \in 1..N : Len(shown[b]) = Len(bs[b]) /\ \A j \in 1..Len(bs[b]) : shown[b][j] = before(b) + j
  <2> HIDE DEF before
  <2> QED BY <1>5
<1> HIDE DEF shown, before
<1>10. PICK g : Joins(g, Nat, shown) /\ FlattenSeq(shown) = g[N]
  BY <1>8, FlattenPrefixes
<1>11. /\ \A n \in 0..N : g[n] \in Seq(Nat)
       /\ g[0] = <<>> /\ \A n \in 1..N : g[n] = g[n - 1] \o shown[n]
  BY <1>8, <1>10 DEF Joins
<1>12. \A n \in 0..N : g[n] = [j \in 1..Len(h[n]) |-> j]
  <2> DEFINE G == {n \in 0..N : g[n] = [j \in 1..Len(h[n]) |-> j]}
  <2>1. 0 \in G
    BY <1>1, <1>3, <1>11
  <2>2. ASSUME NEW n \in 1..N, n - 1 \in G PROVE n \in G
    <3> DEFINE x == g[n - 1]
               y == shown[n]
               m == Len(h[n - 1])
               k == Len(bs[n])
    <3>1. x = [j \in 1..m |-> j] /\ g[n] = x \o y /\ n \in 0..N
      BY <1>11, <2>2, <1>4
    <3>2. m \in Nat /\ k \in Nat /\ Len(h[n]) = m + k /\ before(n) = m
      BY <1>5
    <3>3. x \in Seq(Nat) /\ y \in Seq(Nat) /\ Len(y) = k /\ \A j \in 1..k : y[j] = m + j
      <4>1. x \in Seq(Nat)
        BY <1>4, <1>11
      <4>2. y \in Seq(Nat)
        BY <1>8
      <4>3. Len(y) = k /\ \A j \in 1..k : y[j] = before(n) + j
        BY <1>9
      <4> QED BY <3>2, <4>1, <4>2, <4>3
    <3> HIDE DEF x, y, m, k
    <3>4. Len(x) = m
      BY <3>1, <3>2
    <3>5. x \o y = [j \in 1..(m + k) |-> IF j <= m THEN x[j] ELSE y[j - m]]
      <4>1. x \o y = [j \in 1..(Len(x) + Len(y)) |->
                        IF j <= Len(x) THEN x[j] ELSE y[j - Len(x)]]
        <5>1. x \in Seq(Nat) /\ y \in Seq(Nat)
          BY <3>3
        <5> QED BY <5>1, JoinedIs
      <4> QED BY <3>3, <3>4, <4>1
    <3>6. \A j \in 1..(m + k) : (IF j <= m THEN x[j] ELSE y[j - m]) = j
      <4> SUFFICES ASSUME NEW j \in 1..(m + k)
                   PROVE  (IF j <= m THEN x[j] ELSE y[j - m]) = j
        OBVIOUS
      <4>1. CASE j <= m
        BY <3>1, <3>2, <4>1
      <4>2. CASE ~(j <= m)
        <5>1. j - m \in 1..k
          BY <3>2, <4>2
        <5> QED BY <3>2, <3>3, <4>2, <5>1
      <4> QED BY <4>1, <4>2
    <3>7. x \o y = [j \in 1..(m + k) |-> j]
      BY <3>5, <3>6
    <3> QED BY <3>1, <3>2, <3>7
  <2> HIDE DEF G
  <2>3. 0..N \subseteq G
    BY <1>1, <2>1, <2>2, SetInductionUpTo
  <2> QED BY <2>3 DEF G
<1>13. N \in 0..N
  BY <1>1
<1> QED BY <1>2, <1>7, <1>10, <1>12, <1>13

\* The text, fini and the size of the building block before the passes.
LEMMA BuiltText ==
  ASSUME NEW c \in Cases
  PROVE  LET n == Len(FlattenSeq(c.blocks))
         IN  /\ n \in Nat \ {0} /\ Size(c) = n + c.fini
             /\ Body(Built(c)) = [j \in 1..n |-> j]
             /\ Built(c).fini = [j \in 1..c.fini |-> n + j]
             /\ Text(Built(c)) = [j \in 1..Size(c) |-> j]
<1> DEFINE n == Len(FlattenSeq(c.blocks))
           x == Body(Built(c))
           y == Built(c).fini
<1>1. n \in Nat \ {0} /\ c.fini \in Nat /\ FlattenSeq(c.blocks) \in Seq(Items)
  BY CaseParts
<1>2. x = [j \in 1..n |-> j]
  BY BuiltBody
<1>3. y = [j \in 1..c.fini |-> n + j]
  BY DEF Built, NewInstrs
<1>4. Size(c) = n + c.fini
  <2> DEFINE p == FlattenSeq(c.blocks)
             plain == [kind |-> "plain", label |-> 0, aim |-> "none"]
             q == [k \in 1..c.fini |-> plain]
  <2>1. p \in Seq(Items) /\ plain \in Items
    BY <1>1 DEF Items, Kinds
  <2>2. q \in Seq(Items) /\ Len(q) = c.fini
    BY <1>1, <2>1
  <2>3. Size(c) = Len(p \o q)
    BY DEF Size, Program
  <2> HIDE DEF p, q, plain
  <2>4. Len(p \o q) = Len(p) + Len(q)
    BY <2>1, <2>2
  <2> QED BY <2>2, <2>3, <2>4 DEF p
<1>5. Text(Built(c)) = x \o y
  BY DEF Text
<1> HIDE DEF n, x, y
<1>6. x \in Seq(Nat) /\ y \in Seq(Nat) /\ Len(x) = n /\ Len(y) = c.fini
  <2>1. \A j \in 1..c.fini : n + j \in Nat
    BY <1>1
  <2>2. [j \in 1..n |-> j] \in Seq(Nat) /\ Len([j \in 1..n |-> j]) = n
    BY <1>1
  <2>3. [j \in 1..c.fini |-> n + j] \in Seq(Nat) /\ Len([j \in 1..c.fini |-> n + j]) = c.fini
    BY <1>1, <2>1
  <2> QED BY <1>2, <1>3, <2>2, <2>3
<1>7. x \o y = [j \in 1..(n + c.fini) |-> IF j <= n THEN x[j] ELSE y[j - n]]
  <2>1. x \o y = [j \in 1..(Len(x) + Len(y)) |->
                    IF j <= Len(x) THEN x[j] ELSE y[j - Len(x)]]
    <3>1. x \in Seq(Nat) /\ y \in Seq(Nat)
      BY <1>6
    <3> QED BY <3>1, JoinedIs
  <2> QED BY <1>6, <2>1
<1>8. \A j \in 1..(n + c.fini) : (IF j <= n THEN x[j] ELSE y[j - n]) = j
  <2> SUFFICES ASSUME NEW j \in 1..(n + c.fini)
               PROVE  (IF j <= n THEN x[j] ELSE y[j - n]) = j
    OBVIOUS
  <2>1. CASE j <= n
    BY <1>1, <1>2, <2>1
  <2>2. CASE ~(j <= n)
    <3>1. j - n \in 1..c.fini
      BY <1>1, <2>2
    <3> QED BY <1>1, <1>3, <2>2, <3>1
  <2> QED BY <2>1, <2>2
<1>9. x \o y = [j \in 1..(n + c.fini) |-> j]
  BY <1>7, <1>8
<1> QED BY <1>1, <1>2, <1>3, <1>4, <1>5, <1>9 DEF n, x, y
-----------------------------------------------------------------------------
(* Types of labels, targets and instructions; edits of them.               *)

Names == {"none", "user", "first", "rel_branch", "abs_branch"}
LabelT == [name : Names, n : Nat, suffix : Seq({"_1", "_2", "_braid"})]
Bys == {"none", "label", "offset", "given", "register", "unset", "stale", "copied"}

\* What the operands of one of n instructions can say.
Targets(n) ==
    {t \in [by : Bys, label : LabelT, disp : Int, to : 0..n] :
        t.by # "offset" => t.disp \in Nat}
InstrT(n) ==
    [kind : Kinds, origin : 0..Size(case), strand : {1, 2},
     address : Nat \cup {None}, label : LabelT, target : Targets(n)]
Registers(n) == {r \in Seq(Targets(n)) : Len(r) <= FreeRegisters}

\* Building blocks of n instructions, with given blocks and fini.
States(n, bs, f) ==
    [instr : [1..n -> InstrT(n)], blocks : {bs}, fini : {f},
     registers : Registers(n), ok : BOOLEAN]

\* The label of an operand is that of the instruction noted beside it.
AgreesAt(s, i) ==
    LET t == s.instr[i].target
    IN  t.by = "label" /\ t.to # 0 =>
            /\ t.label = s.instr[t.to].label /\ t.label # NoLabel
Excepted(s, i) == s.fini # <<>> /\ i = Last(Body(s))
Agreed(s) == \A i \in DOMAIN s.instr : AgreesAt(s, i) \/ Excepted(s, i)

\* t differs from s in labels that were not there and in targets, none of
\* which is an offset.
Edited(s, t) ==
    \A i \in DOMAIN s.instr :
        LET x == s.instr[i] y == t.instr[i]
        IN  /\ y.kind = x.kind /\ y.origin = x.origin /\ y.strand = x.strand
            /\ y.address = x.address
            /\ x.label # NoLabel => y.label = x.label
            /\ y.target = x.target \/ y.target.by # "offset"

Edits(s, n, bs, f) ==
    {t \in States(n, bs, f) : Edited(s, t) /\ (Agreed(s) => Agreed(t))}

\* The labels passes hand out are labels, and none is "no label".
LEMMA LabelTypes ==
  /\ NoLabel \in LabelT
  /\ \A name \in Names, n \in Nat : Label(name, n) \in LabelT
  /\ \A n \in Nat : Label("abs_branch", n) # NoLabel
  /\ \A n \in Nat : Label("rel_branch", n) # NoLabel
  /\ \A n \in Nat : Label("first", n) # NoLabel
<1>1. \A name \in Names, n \in Nat : Label(name, n) \in LabelT
  <2>1. <<>> \in Seq({"_1", "_2", "_braid"})
    OBVIOUS
  <2> QED BY <2>1 DEF Label, LabelT
<1>2. "none" \in Names
  BY DEF Names
<1>3. NoLabel \in LabelT
  BY <1>1, <1>2 DEF NoLabel
<1>4. \A name, n : Label(name, n).name = name
  BY DEF Label
<1>5. NoLabel.name = "none"
  BY <1>4 DEF NoLabel
<1>6. \A n \in Nat : Label("abs_branch", n) # NoLabel
  BY <1>4, <1>5
<1>7. \A n \in Nat : Label("rel_branch", n) # NoLabel
  BY <1>4, <1>5
<1>8. \A n \in Nat : Label("first", n) # NoLabel
  BY <1>4, <1>5
<1> QED BY <1>1, <1>3, <1>6, <1>7, <1>8

\* The targets passes make are targets.
LEMMA TargetTypes ==
  ASSUME NEW n \in Nat
  PROVE  /\ \A label \in LabelT, to \in 0..n :
              /\ ToLabel(label, to) \in Targets(n)
              /\ ToLabel(label, to).by = "label" /\ ToLabel(label, to).to = to
              /\ ToLabel(label, to).label = label
         /\ \A by \in Bys, label \in LabelT, d \in Nat, to \in 0..n :
              /\ Target(by, label, d, to) \in Targets(n)
              /\ Target(by, label, d, to).by = by /\ Target(by, label, d, to).to = to
         /\ NoTarget \in Targets(n) /\ NoTarget.by = "none"
         /\ \A label \in LabelT, d \in Int :
              /\ Target("offset", label, d, 0) \in Targets(n)
BY LabelTypes DEF ToLabel, Target, NoTarget, Targets, Bys

\* A new target for one instruction.
LEMMA RetargetKeeps ==
  ASSUME NEW n \in Nat, NEW bs, NEW f, NEW s \in States(n, bs, f),
         NEW i \in 1..n, NEW t \in Targets(n)
  PROVE  /\ Retarget(s, i, t) \in States(n, bs, f)
         /\ Retarget(s, i, t).instr[i] = [s.instr[i] EXCEPT !.target = t]
         /\ Retarget(s, i, t).instr[i].target = t
         /\ Retarget(s, i, t).instr[i].label = s.instr[i].label
         /\ \A j \in 1..n : j # i => Retarget(s, i, t).instr[j] = s.instr[j]
         /\ Retarget(s, i, t).registers = s.registers
         /\ Retarget(s, i, t).ok = s.ok
<1>1. s.instr \in [1..n -> InstrT(n)] /\ s.instr[i] \in InstrT(n)
  BY DEF States
<1>2. [s.instr[i] EXCEPT !.target = t] \in InstrT(n)
  BY <1>1 DEF InstrT
<1>3. Retarget(s, i, t) = [s EXCEPT !.instr = [s.instr EXCEPT ![i] = [s.instr[i] EXCEPT !.target = t]]]
  BY <1>1 DEF Retarget, States
<1>4. [s.instr EXCEPT ![i] = [s.instr[i] EXCEPT !.target = t]] \in [1..n -> InstrT(n)]
  BY <1>1, <1>2
<1>5. /\ [s.instr[i] EXCEPT !.target = t].target = t
      /\ [s.instr[i] EXCEPT !.target = t].label = s.instr[i].label
  BY <1>1 DEF InstrT
<1> QED BY <1>1, <1>3, <1>4, <1>5 DEF States

\* A new label for one instruction.
LEMMA RelabelKeeps ==
  ASSUME NEW n \in Nat, NEW bs, NEW f, NEW s \in States(n, bs, f),
         NEW i \in 1..n, NEW t \in LabelT
  PROVE  /\ Relabel(s, i, t) \in States(n, bs, f)
         /\ Relabel(s, i, t).instr[i] = [s.instr[i] EXCEPT !.label = t]
         /\ Relabel(s, i, t).instr[i].label = t
         /\ Relabel(s, i, t).instr[i].target = s.instr[i].target
         /\ \A j \in 1..n : j # i => Relabel(s, i, t).instr[j] = s.instr[j]
         /\ Relabel(s, i, t).registers = s.registers
         /\ Relabel(s, i, t).ok = s.ok
<1>1. s.instr \in [1..n -> InstrT(n)] /\ s.instr[i] \in InstrT(n)
  BY DEF States
<1>2. [s.instr[i] EXCEPT !.label = t] \in InstrT(n)
  BY <1>1 DEF InstrT
<1>3. Relabel(s, i, t) = [s EXCEPT !.instr = [s.instr EXCEPT ![i] = [s.instr[i] EXCEPT !.label = t]]]
  BY <1>1 DEF Relabel, States
<1>4. [s.instr EXCEPT ![i] = [s.instr[i] EXCEPT !.label = t]] \in [1..n -> InstrT(n)]
  BY <1>1, <1>2
<1>5. /\ [s.instr[i] EXCEPT !.label = t].label = t
      /\ [s.instr[i] EXCEPT !.label = t].target = s.instr[i].target
  BY <1>1 DEF InstrT
<1> QED BY <1>1, <1>3, <1>4, <1>5 DEF States

\* t is s after an address was set in instruction i: its target stays, or is
\* the address, or goes through a register.
Readdressed(s, t, i, a, n, bs, f) ==
    /\ t \in States(n, bs, f)
    /\ \A j \in 1..n : j # i => t.instr[j] = s.instr[j]
    /\ \/ t.instr[i] = s.instr[i]
       \/ \E x \in Targets(n) :
            /\ t.instr[i] = [s.instr[i] EXCEPT !.target = x]
            /\ x = a \/ x.by \notin {"label", "offset"}

\* set_address changes the target of its instruction only.
LEMMA SetAddressKeeps ==
  ASSUME NEW n \in Nat, NEW bs, NEW f, NEW s \in States(n, bs, f),
         NEW i \in 1..n, NEW a \in Targets(n)
  PROVE  Readdressed(s, SetAddress(s, i, a), i, a, n, bs, f)
<1> DEFINE t == SetAddress(s, i, a)
           Changed(u) == \E x \in Targets(n) :
                           /\ u.instr[i] = [s.instr[i] EXCEPT !.target = x]
                           /\ x = a \/ x.by \notin {"label", "offset"}
           Good(u) == /\ u \in States(n, bs, f)
                      /\ \A j \in 1..n : j # i => u.instr[j] = s.instr[j]
                      /\ u.instr[i] = s.instr[i] \/ Changed(u)
           Other == {"register", "unset", "stale"}
<1>1. \A by \in Other :
        /\ Target(by, a.label, 0, 0) \in Targets(n)
        /\ Target(by, a.label, 0, 0).by \notin {"label", "offset"}
  <2>1. a.label \in LabelT /\ 0 \in Nat /\ 0 \in 0..n
    BY DEF Targets
  <2>2. \A by \in Other : by \in Bys /\ by \notin {"label", "offset"}
    BY DEF Bys
  <2> QED BY <2>1, <2>2, TargetTypes
<1>2. ASSUME NEW x \in Targets(n), x = a \/ x.by \notin {"label", "offset"},
             NEW u \in States(n, bs, f), u.instr = s.instr
      PROVE  Good(Retarget(u, i, x))
  <2>1. /\ Retarget(u, i, x) \in States(n, bs, f)
        /\ Retarget(u, i, x).instr[i] = [u.instr[i] EXCEPT !.target = x]
        /\ \A j \in 1..n : j # i => Retarget(u, i, x).instr[j] = u.instr[j]
    BY RetargetKeeps
  <2> QED BY <1>2, <2>1
<1>3. ASSUME NEW u \in States(n, bs, f), u.instr = s.instr, NEW by \in Other
      PROVE  Good(Through(u, i, by, a))
  <2> HIDE DEF Good
  <2> QED BY <1>1, <1>2, <1>3 DEF Through
<1>4. Good([s EXCEPT !.ok = FALSE])
  BY DEF States
<1> DEFINE more == [s EXCEPT !.registers = Append(@, a)]
<1>5. ASSUME Len(s.registers) # FreeRegisters
      PROVE  more \in States(n, bs, f) /\ more.instr = s.instr
  <2>1. s.registers \in Seq(Targets(n)) /\ Len(s.registers) <= FreeRegisters
    BY DEF States, Registers
  <2>2. Len(s.registers) \in Nat /\ FreeRegisters \in Nat
    BY <2>1, CasesAssumption
  <2>3. /\ Append(s.registers, a) \in Seq(Targets(n))
        /\ Len(Append(s.registers, a)) = Len(s.registers) + 1
    BY <2>1
  <2>4. Append(s.registers, a) \in Registers(n)
    BY <1>5, <2>1, <2>2, <2>3 DEF Registers
  <2> QED BY <2>4 DEF States
<1>6. \/ t = Retarget(s, i, a)
      \/ t = [s EXCEPT !.ok = FALSE]
      \/ \E by \in Other : t = Through(s, i, by, a)
      \/ /\ Len(s.registers) # FreeRegisters
         /\ t = Through(more, i, "register", a)
  BY DEF SetAddress, BesideRegister
<1> HIDE DEF Good, t, more
<1>7. Good(t)
  <2>1. CASE t = Retarget(s, i, a)
    BY <2>1, <1>2
  <2>2. CASE t = [s EXCEPT !.ok = FALSE]
    BY <2>2, <1>4
  <2>3. CASE \E by \in Other : t = Through(s, i, by, a)
    BY <2>3, <1>3
  <2>4. CASE /\ Len(s.registers) # FreeRegisters
             /\ t = Through(more, i, "register", a)
    BY <2>4, <1>3, <1>5
  <2> QED BY <1>6, <2>1, <2>2, <2>3, <2>4
<1> QED BY <1>7 DEF Good, t, Readdressed

\* Building blocks with the same blocks and fini have the same text.
LEMMA SameText ==
  ASSUME NEW n, NEW bs, NEW f, NEW s \in States(n, bs, f), NEW t \in States(n, bs, f)
  PROVE  /\ Body(t) = Body(s) /\ Text(t) = Text(s) /\ t.fini = s.fini
         /\ s.blocks = bs /\ s.fini = f
         /\ DOMAIN s.instr = 1..n /\ DOMAIN t.instr = 1..n
         /\ \A i : Excepted(t, i) = Excepted(s, i)
<1>1. s.blocks = bs /\ t.blocks = bs /\ s.fini = f /\ t.fini = f
  BY DEF States
<1>2. Body(t) = Body(s)
  BY <1>1 DEF Body
<1> QED BY <1>1, <1>2 DEF Text, Excepted, States

\* An edit of an edit is an edit.
LEMMA EditsKeep ==
  ASSUME NEW n, NEW bs, NEW f, NEW s \in States(n, bs, f),
         NEW t \in Edits(s, n, bs, f), NEW u \in Edits(t, n, bs, f)
  PROVE  u \in Edits(s, n, bs, f)
<1>1. DOMAIN s.instr = 1..n /\ DOMAIN t.instr = 1..n
  BY DEF Edits, States
<1>2. Edited(s, u)
  <2>1. Edited(s, t) /\ Edited(t, u)
    BY DEF Edits
  <2> QED BY <1>1, <2>1 DEF Edited
<1> QED BY <1>2 DEF Edits

\* Nothing changed is an edit.
LEMMA EditsSelf ==
  ASSUME NEW n, NEW bs, NEW f, NEW s \in States(n, bs, f)
  PROVE  s \in Edits(s, n, bs, f)
BY DEF Edits, Edited

\* A label an instruction has; it is not lost by an edit.
Held(s, l) == l # NoLabel /\ \E i \in DOMAIN s.instr : s.instr[i].label = l

\* Labels are not lost by an edit.
LEMMA HeldKept ==
  ASSUME NEW n, NEW bs, NEW f, NEW s \in States(n, bs, f),
         NEW t \in Edits(s, n, bs, f)
  PROVE  /\ \A l : Held(s, l) => Held(t, l)
         /\ \A i \in 1..n : s.instr[i].label # NoLabel =>
              t.instr[i].label = s.instr[i].label
BY DEF Held, Edits, Edited, States

\* A label for an instruction without one is an edit.
LEMMA OwnOrNewEdits ==
  ASSUME NEW n \in Nat, NEW bs, NEW f, NEW s \in States(n, bs, f),
         NEW i \in 1..n, NEW new \in LabelT, new # NoLabel
  PROVE  LET t == OwnOrNew(s, i, new)
         IN  /\ t \in Edits(s, n, bs, f)
             /\ t.instr[i].label \in LabelT \ {NoLabel}
             /\ s.instr[i].label = NoLabel => t.instr[i].label = new
             /\ t.registers = s.registers
             /\ \A j \in 1..n : t.instr[j].target = s.instr[j].target
<1>0. s.instr[i].label \in LabelT /\ DOMAIN s.instr = 1..n
  BY DEF States, InstrT
<1>1. CASE s.instr[i].label # NoLabel
  <2>1. OwnOrNew(s, i, new) = s
    BY <1>1 DEF OwnOrNew
  <2> QED BY <1>0, <1>1, <2>1, EditsSelf
<1>2. CASE s.instr[i].label = NoLabel
  <2> DEFINE t == Relabel(s, i, new)
  <2>1. OwnOrNew(s, i, new) = t
    BY <1>2 DEF OwnOrNew
  <2>2. /\ t \in States(n, bs, f)
        /\ t.instr[i] = [s.instr[i] EXCEPT !.label = new]
        /\ t.instr[i].label = new
        /\ t.instr[i].target = s.instr[i].target
        /\ \A j \in 1..n : j # i => t.instr[j] = s.instr[j]
        /\ t.registers = s.registers
    BY RelabelKeeps
  <2> HIDE DEF t
  <2>3. \A j \in 1..n : t.instr[j].target = s.instr[j].target
    BY <2>2
  <2>4. Edited(s, t)
    <3>1. LET x == s.instr[i] y == t.instr[i]
          IN  /\ y.kind = x.kind /\ y.origin = x.origin /\ y.strand = x.strand
              /\ y.address = x.address
      BY <2>2 DEF States, InstrT
    <3>2. \A j \in 1..n : j = i \/ t.instr[j] = s.instr[j]
      BY <2>2
    <3> QED BY <1>0, <1>2, <2>3, <3>1, <3>2 DEF Edited
  <2>5. ASSUME Agreed(s) PROVE Agreed(t)
    <3>1. \A j \in 1..n : s.instr[j].label # NoLabel => t.instr[j].label = s.instr[j].label
      BY <1>2, <2>2
    <3>2. DOMAIN t.instr = 1..n /\ \A j : Excepted(t, j) = Excepted(s, j)
      BY <2>2, SameText
    <3>3. \A j \in 1..n : s.instr[j].target.to \in 0..n
      BY DEF States, InstrT, Targets
    <3>4. \A j \in 1..n : AgreesAt(s, j) => AgreesAt(t, j)
      <4> SUFFICES ASSUME NEW j \in 1..n, AgreesAt(s, j),
                          t.instr[j].target.by = "label", t.instr[j].target.to # 0
                   PROVE  /\ t.instr[j].target.label = t.instr[t.instr[j].target.to].label
                          /\ t.instr[j].target.label # NoLabel
        BY DEF AgreesAt
      <4>1. t.instr[j].target = s.instr[j].target /\ s.instr[j].target.to \in 1..n
        BY <2>3, <3>3
      <4>2. /\ s.instr[j].target.label = s.instr[s.instr[j].target.to].label
            /\ s.instr[j].target.label # NoLabel
        BY <4>1 DEF AgreesAt
      <4> QED BY <3>1, <4>1, <4>2
    <3> QED BY <1>0, <2>5, <3>2, <3>4 DEF Agreed
  <2> QED BY <2>1, <2>2, <2>3, <2>4, <2>5 DEF Edits
<1> QED BY <1>1, <1>2

\* set_address is an edit where label and instruction are the same place.
LEMMA SetAddressEdits ==
  ASSUME NEW n \in Nat, NEW bs, NEW f, NEW s \in States(n, bs, f),
         NEW i \in 1..n, NEW a \in Targets(n), a.by = "label",
         \/ a.to = 0
         \/ a.label = s.instr[a.to].label /\ a.label # NoLabel
         \/ Excepted(s, i)
  PROVE  SetAddress(s, i, a) \in Edits(s, n, bs, f)
<1> DEFINE t == SetAddress(s, i, a)
<1>0. Readdressed(s, t, i, a, n, bs, f)
  BY SetAddressKeeps
<1> HIDE DEF t
<1>1. /\ t \in States(n, bs, f)
      /\ \A j \in 1..n : j # i => t.instr[j] = s.instr[j]
      /\ \/ t.instr[i] = s.instr[i]
         \/ \E x \in Targets(n) :
              /\ t.instr[i] = [s.instr[i] EXCEPT !.target = x]
              /\ x = a \/ x.by \notin {"label", "offset"}
  BY <1>0 DEF Readdressed
<1>2. s.instr[i] \in InstrT(n) /\ DOMAIN s.instr = 1..n /\ DOMAIN t.instr = 1..n
  BY <1>1 DEF States
<1>3. LET x == s.instr[i] y == t.instr[i]
      IN  /\ y.kind = x.kind /\ y.origin = x.origin /\ y.strand = x.strand
          /\ y.address = x.address /\ y.label = x.label
          /\ \/ y.target = x.target \/ y.target = a
             \/ y.target.by \notin {"label", "offset"}
  <2>1. CASE t.instr[i] = s.instr[i]
    BY <2>1
  <2>2. ASSUME NEW x \in Targets(n),
               t.instr[i] = [s.instr[i] EXCEPT !.target = x],
               x = a \/ x.by \notin {"label", "offset"}
        PROVE  LET xx == s.instr[i] y == t.instr[i]
               IN  /\ y.kind = xx.kind /\ y.origin = xx.origin /\ y.strand = xx.strand
                   /\ y.address = xx.address /\ y.label = xx.label
                   /\ \/ y.target = xx.target \/ y.target = a
                      \/ y.target.by \notin {"label", "offset"}
    BY <1>2, <2>2 DEF InstrT
  <2> QED BY <1>1, <2>1, <2>2
<1>4. \A j \in 1..n : j = i \/ t.instr[j] = s.instr[j]
  BY <1>1
<1>5. a.by # "offset"
  OBVIOUS
<1>6. Edited(s, t)
  BY <1>2, <1>3, <1>4, <1>5 DEF Edited
<1>7. \A j \in 1..n : t.instr[j].label = s.instr[j].label
  BY <1>3, <1>4
<1>8. ASSUME Agreed(s) PROVE Agreed(t)
  <2>1. \A j : Excepted(t, j) = Excepted(s, j)
    BY <1>1, SameText
  <2>2. \A j \in 1..n : t.instr[j].target.to \in 0..n
    BY <1>1 DEF States, InstrT, Targets
  <2>3. ASSUME NEW j \in 1..n, AgreesAt(s, j), t.instr[j].target = s.instr[j].target
        PROVE  AgreesAt(t, j)
    BY <1>7, <2>2, <2>3 DEF AgreesAt
  <2>4. ASSUME t.instr[i].target = a PROVE AgreesAt(t, i) \/ Excepted(t, i)
    BY <1>7, <2>1, <2>2, <2>4 DEF AgreesAt
  <2>5. ASSUME t.instr[i].target.by \notin {"label", "offset"} PROVE AgreesAt(t, i)
    BY <2>5 DEF AgreesAt
  <2>6. \A j \in 1..n : AgreesAt(s, j) \/ Excepted(s, j)
    BY <1>2, <1>8 DEF Agreed
  <2>7. ASSUME NEW j \in 1..n PROVE AgreesAt(t, j) \/ Excepted(t, j)
    BY <1>3, <1>4, <2>1, <2>3, <2>4, <2>5, <2>6
  <2> QED BY <1>2, <2>7 DEF Agreed
<1>9. t \in Edits(s, n, bs, f)
  BY <1>1, <1>6, <1>8 DEF Edits
<1> QED BY <1>9 DEF t
-----------------------------------------------------------------------------
(* The loop over consecutive instructions is an edit.                      *)

\* What the loop over consecutive instructions keeps: an edited building
\* block, and labels that are there.
Visits(s, n, bs, f) ==
    {p \in [bb : Edits(s, n, bs, f), counter : Nat, allCounter : Nat,
            labels : Seq(LabelT), chunks : Seq(Seq(1..n)), current : Seq(1..n),
            firstBraid : 0..n, lastHead : 0..n, held : Nat] :
        \A k \in DOMAIN p.labels : Held(p.bb, p.labels[k])}

\* A branch whose next instruction is its target.
LEMMA AimAtNextVisits ==
  ASSUME NEW n \in Nat, NEW bs, NEW f, NEW s \in States(n, bs, f),
         NEW p \in Visits(s, n, bs, f), NEW ant \in 1..n, NEW ins \in 1..n,
         NEW new \in LabelT, new # NoLabel
  PROVE  AimAtNext(p, ant, ins, new) \in Visits(s, n, bs, f)
<1> DEFINE t == OwnOrNew(p.bb, ins, new)
           a == ToLabel(t.instr[ins].label, ins)
           u == SetAddress(t, ant, a)
           q == AimAtNext(p, ant, ins, new)
           labels == IF Relative(p.bb.instr[ant]) \/ p.bb.instr[ins].label # NoLabel
                     THEN p.labels ELSE Append(p.labels, new)
<1>1. /\ p.bb \in Edits(s, n, bs, f) /\ p.bb \in States(n, bs, f)
      /\ p.labels \in Seq(LabelT) /\ \A k \in DOMAIN p.labels : Held(p.bb, p.labels[k])
  BY DEF Visits, Edits
<1>2. /\ t \in Edits(p.bb, n, bs, f)
      /\ t.instr[ins].label \in LabelT \ {NoLabel}
      /\ p.bb.instr[ins].label = NoLabel => t.instr[ins].label = new
  BY <1>1, OwnOrNewEdits
<1>3. q = [p EXCEPT !.bb = u, !.labels = labels]
  BY DEF AimAtNext
<1> HIDE DEF t, q
<1>4. t \in States(n, bs, f)
  BY <1>2 DEF Edits
<1>5. /\ a \in Targets(n) /\ a.by = "label" /\ a.label = t.instr[ins].label
      /\ a.to = ins /\ a.label # NoLabel
  BY <1>2, TargetTypes
<1> HIDE DEF a
<1>6. u \in Edits(t, n, bs, f)
  BY <1>4, <1>5, SetAddressEdits
<1> HIDE DEF u
<1>7. u \in Edits(s, n, bs, f)
  BY <1>1, <1>2, <1>4, <1>6, EditsKeep
<1>8. /\ \A l : Held(p.bb, l) => Held(u, l)
      /\ u.instr[ins].label = t.instr[ins].label
  <2>1. \A l : Held(p.bb, l) => Held(t, l)
    BY <1>1, <1>2, HeldKept
  <2>2. /\ \A l : Held(t, l) => Held(u, l)
        /\ \A i \in 1..n : t.instr[i].label # NoLabel => u.instr[i].label = t.instr[i].label
    BY <1>4, <1>6, HeldKept
  <2> QED BY <1>2, <2>1, <2>2
<1>9. labels \in Seq(LabelT) /\ \A k \in DOMAIN labels : Held(u, labels[k])
  <2>1. CASE Relative(p.bb.instr[ant]) \/ p.bb.instr[ins].label # NoLabel
    BY <1>1, <1>8, <2>1
  <2>2. CASE ~(Relative(p.bb.instr[ant]) \/ p.bb.instr[ins].label # NoLabel)
    <3>1. labels = Append(p.labels, new)
      BY <2>2
    <3>2. Held(u, new)
      <4>1. DOMAIN u.instr = 1..n
        BY <1>7 DEF Edits, States
      <4> QED BY <1>2, <1>8, <2>2, <4>1 DEF Held
    <3> HIDE DEF labels
    <3>3. /\ labels \in Seq(LabelT)
          /\ DOMAIN labels = 1..(Len(p.labels) + 1) /\ Len(p.labels) \in Nat
          /\ \A k \in 1..Len(p.labels) : labels[k] = p.labels[k]
          /\ labels[Len(p.labels) + 1] = new
      BY <1>1, <3>1
    <3>4. \A k \in DOMAIN labels : k \in DOMAIN p.labels \/ k = Len(p.labels) + 1
      BY <1>1, <3>3
    <3> QED BY <1>1, <1>8, <3>2, <3>3, <3>4
  <2> QED BY <2>1, <2>2
<1> HIDE DEF labels
<1>10. q \in Visits(s, n, bs, f)
  BY <1>3, <1>7, <1>9 DEF Visits
<1> QED BY <1>10 DEF q

\* A branch that takes a label handed out before.
LEMMA AimAtEarlierVisits ==
  ASSUME NEW n \in Nat, NEW bs, NEW f, NEW s \in States(n, bs, f),
         NEW p \in Visits(s, n, bs, f), NEW ant \in 1..n, NEW k
  PROVE  AimAtEarlier(p, ant, k) \in Visits(s, n, bs, f)
<1>1. /\ p.bb \in Edits(s, n, bs, f) /\ p.bb \in States(n, bs, f)
      /\ p.labels \in Seq(LabelT) /\ \A j \in DOMAIN p.labels : Held(p.bb, p.labels[j])
  BY DEF Visits, Edits
<1>2. CASE k \notin DOMAIN p.labels
  <2> DEFINE t == [p.bb EXCEPT !.ok = FALSE]
  <2>1. AimAtEarlier(p, ant, k) = [p EXCEPT !.bb = t]
    BY <1>2 DEF AimAtEarlier
  <2>2. /\ t \in States(n, bs, f) /\ t.instr = p.bb.instr
        /\ t.blocks = p.bb.blocks /\ t.fini = p.bb.fini
    BY <1>1 DEF States
  <2> HIDE DEF t
  <2>3. t \in Edits(s, n, bs, f)
    <3>1. Edited(s, t)
      BY <1>1, <2>2 DEF Edits, Edited
    <3>2. Agreed(p.bb) => Agreed(t)
      BY <2>2 DEF Agreed, AgreesAt, Excepted, Body
    <3> QED BY <1>1, <2>2, <3>1, <3>2 DEF Edits
  <2>4. \A l : Held(p.bb, l) => Held(t, l)
    BY <2>2 DEF Held
  <2> QED BY <1>1, <2>1, <2>3, <2>4 DEF Visits
<1>3. CASE k \in DOMAIN p.labels
  <2> DEFINE h == Holder(p.bb, p.labels[k])
             a == ToLabel(p.labels[k], h)
             t == SetAddress(p.bb, ant, a)
  <2>1. AimAtEarlier(p, ant, k) = [p EXCEPT !.bb = t]
    BY <1>3 DEF AimAtEarlier
  <2>2. p.labels[k] \in LabelT \ {NoLabel} /\ Held(p.bb, p.labels[k])
    BY <1>1, <1>3 DEF Held
  <2>3. h \in DOMAIN p.bb.instr /\ p.bb.instr[h].label = p.labels[k]
    BY <2>2 DEF Held, Holder
  <2>4. h \in 1..n
    BY <1>1, <2>3 DEF States
  <2> HIDE DEF h
  <2>5. /\ a \in Targets(n) /\ a.by = "label" /\ a.label = p.labels[k] /\ a.to = h
    <3>1. p.labels[k] \in LabelT /\ h \in 0..n
      BY <2>2, <2>4
    <3> QED BY <3>1, TargetTypes
  <2> HIDE DEF a
  <2>6. t \in Edits(p.bb, n, bs, f)
    BY <1>1, <2>2, <2>3, <2>5, SetAddressEdits
  <2> HIDE DEF t
  <2>7. t \in Edits(s, n, bs, f)
    BY <1>1, <2>6, EditsKeep
  <2>8. \A l : Held(p.bb, l) => Held(t, l)
    BY <1>1, <2>6, HeldKept
  <2> QED BY <1>1, <2>1, <2>7, <2>8 DEF Visits
<1> QED BY <1>2, <1>3

\* A branch of either kind.
LEMMA AimVisits ==
  ASSUME NEW n \in Nat, NEW bs, NEW f, NEW s \in States(n, bs, f),
         NEW p \in Visits(s, n, bs, f), NEW ant \in 1..n, NEW ins \in 1..n,
         NEW braid
  PROVE  Aim(p, ant, ins, braid) \in Visits(s, n, bs, f)
<1>1. p.counter \in Nat /\ p.allCounter \in Nat
  BY DEF Visits
<1>2. /\ Label("rel_branch", p.allCounter) \in LabelT
      /\ Label("rel_branch", p.allCounter) # NoLabel
      /\ Label("abs_branch", p.counter) \in LabelT
      /\ Label("abs_branch", p.counter) # NoLabel
  BY <1>1, LabelTypes DEF Names
<1>3. AimAtNext(p, ant, ins, Label("rel_branch", p.allCounter)) \in Visits(s, n, bs, f)
  BY <1>2, AimAtNextVisits
<1>4. AimAtNext(p, ant, ins, Label("abs_branch", p.counter)) \in Visits(s, n, bs, f)
  BY <1>2, AimAtNextVisits
<1>5. \A k : AimAtEarlier(p, ant, k) \in Visits(s, n, bs, f)
  BY AimAtEarlierVisits
<1> QED BY <1>3, <1>4, <1>5 DEF Aim

\* One turn of the loop over consecutive instructions.
LEMMA VisitPairVisits ==
  ASSUME NEW n \in Nat, NEW bs, NEW f, NEW s \in States(n, bs, f),
         NEW p \in Visits(s, n, bs, f), NEW ant \in 1..n, NEW ins \in 1..n,
         NEW braid
  PROVE  VisitPair(p, ant, ins, braid) \in Visits(s, n, bs, f)
<1>1. /\ p.current \in Seq(1..n) /\ p.chunks \in Seq(Seq(1..n)) /\ p.firstBraid \in 0..n
  BY DEF Visits
<1>2. Append(p.current, ant) \in Seq(1..n)
  BY <1>1
<1>3. CASE ~Branch(p.bb.instr[ant])
  <2> DEFINE c == IF p.firstBraid # 0 THEN Append(p.current, ant) ELSE p.current
  <2>1. VisitPair(p, ant, ins, braid) = [p EXCEPT !.current = c]
    BY <1>3 DEF VisitPair
  <2>2. c \in Seq(1..n)
    BY <1>1, <1>2
  <2> HIDE DEF c
  <2> QED BY <2>1, <2>2 DEF Visits
<1>4. CASE Branch(p.bb.instr[ant])
  <2> DEFINE q == IF HasAddress(p.bb.instr[ant]) /\ ~case.force THEN p
                  ELSE Aim(p, ant, ins, braid)
             m == IF Relative(p.bb.instr[ant]) THEN 0 ELSE 1
             c == IF p.firstBraid = 0 THEN q.chunks
                  ELSE Append(q.chunks, Append(p.current, ant))
             b == IF q.firstBraid = 0 THEN ant ELSE q.firstBraid
  <2>1. VisitPair(p, ant, ins, braid) =
          [q EXCEPT !.counter = q.counter + m, !.allCounter = q.allCounter + 1 - m,
                    !.chunks = c, !.current = <<>>, !.firstBraid = b, !.lastHead = ins]
    BY <1>4 DEF VisitPair
  <2>2. q \in Visits(s, n, bs, f)
    BY AimVisits
  <2>3. m \in {0, 1}
    OBVIOUS
  <2> HIDE DEF q, m
  <2>4. /\ q.chunks \in Seq(Seq(1..n)) /\ q.firstBraid \in 0..n
        /\ q.counter \in Nat /\ q.allCounter \in Nat
    BY <2>2 DEF Visits
  <2>5. c \in Seq(Seq(1..n))
    <3>1. \A e \in Seq(1..n) : Append(q.chunks, e) \in Seq(Seq(1..n))
      BY <2>4
    <3> QED BY <1>2, <2>4, <3>1
  <2>6. q.counter + m \in Nat /\ q.allCounter + 1 - m \in Nat
    BY <2>3, <2>4
  <2>7. b \in 0..n /\ <<>> \in Seq(1..n) /\ ins \in 0..n
    BY <2>4
  <2> HIDE DEF c, b
  <2> QED BY <2>1, <2>2, <2>5, <2>6, <2>7 DEF Visits
<1> QED BY <1>3, <1>4

\* The instructions a building block shows are among its objects.
Shows(s, n) ==
    /\ Len(s.blocks) \in Nat /\ DOMAIN s.blocks = 1..Len(s.blocks)
    /\ \A b \in DOMAIN s.blocks : Instrs(s.blocks[b]) \in Seq(1..n)
    /\ Body(s) \in Seq(1..n) /\ Body(s) # <<>> /\ s.fini \in Seq(1..n)

\* g[k] is what the two passes keep after k turns of their loop, which begins
\* with the building block t.
Visited(g, s, t, n, bs, f, braid) ==
    LET body == Body(s)
        N == Len(body) - 1
    IN  /\ g[0] = Locals(t)
        /\ \A k \in 1..N : g[k] = VisitPair(g[k - 1], body[k], body[k + 1], braid)
        /\ \A k \in 0..N : g[k] \in Visits(t, n, bs, f)
        /\ VisitPairs(s, braid) = g[N]

\* The loop, turn by turn.
LEMMA VisitPairsUnroll ==
  ASSUME NEW n \in Nat, NEW bs, NEW f, NEW s \in States(n, bs, f), Shows(s, n),
         NEW braid
  PROVE  \E t \in Edits(s, n, bs, f) :
           /\ t.instr[Body(s)[1]].label # NoLabel
           /\ \E g : Visited(g, s, t, n, bs, f, braid)
<1> DEFINE body == Body(s)
           N == Len(body) - 1
           t == OwnOrNew(s, body[1], Label("first", 0))
           V == Visits(t, n, bs, f)
           Is(g) == g = [k \in 0..N |-> IF k = 0 THEN Locals(t)
                                        ELSE VisitPair(g[k - 1], body[k], body[k + 1], braid)]
           turn == [k \in 1..N |-> [p \in V |-> VisitPair(p, body[k], body[k + 1], braid)]]
           g == CHOOSE h : Is(h)
<1>1. /\ body \in Seq(1..n) /\ Len(body) \in Nat \ {0} /\ N \in Nat
      /\ 1 \in 1..Len(body) /\ body[1] \in 1..n
      /\ \A k \in 1..N : k \in 1..Len(body) /\ k + 1 \in 1..Len(body)
  <2>1. body \in Seq(1..n) /\ body # <<>>
    BY DEF Shows
  <2> HIDE DEF body
  <2> QED BY <2>1
<1>2. \A k \in 1..N : body[k] \in 1..n /\ body[k + 1] \in 1..n
  <2> HIDE DEF body, N
  <2> QED BY <1>1
<1> HIDE DEF N
<1>3. /\ t \in Edits(s, n, bs, f) /\ t.instr[body[1]].label # NoLabel
      /\ t \in States(n, bs, f)
  <2>1. Label("first", 0) \in LabelT /\ Label("first", 0) # NoLabel
    BY LabelTypes DEF Names
  <2> HIDE DEF body
  <2> QED BY <1>1, <2>1, OwnOrNewEdits DEF Edits
<1>4. VisitPairs(s, braid) = g[N]
  BY DEF VisitPairs, N
<1> HIDE DEF body, t
<1>5. Locals(t) \in V
  <2>1. t \in Edits(t, n, bs, f)
    BY <1>3, EditsSelf
  <2>2. <<>> \in Seq(LabelT) /\ <<>> \in Seq(Seq(1..n)) /\ <<>> \in Seq(1..n) /\ 0 \in 0..n
    OBVIOUS
  <2>3. Len(t.registers) \in Nat
    <3>1. t.registers \in Seq(Targets(n))
      BY <1>3 DEF States, Registers
    <3> QED BY <3>1
  <2> QED BY <2>1, <2>2, <2>3 DEF Visits, Locals
<1>6. \A k \in 1..N, p \in V : VisitPair(p, body[k], body[k + 1], braid) \in V
  BY <1>2, <1>3, VisitPairVisits
<1> HIDE DEF V
<1>7. \A k \in 1..N : \A p \in V : turn[k][p] = VisitPair(p, body[k], body[k + 1], braid)
  OBVIOUS
<1>8. StepsInto(turn, N, V)
  BY <1>6, <1>7 DEF StepsInto
<1> HIDE DEF turn
<1>9. PICK h \in [0..N -> V] : Unrolls(h, N, Locals(t), turn)
  BY <1>1, <1>5, <1>8, RecursiveFunction
<1>10. \A k \in 0..N : k # 0 => k \in 1..N /\ k - 1 \in 0..N
  BY <1>1
<1>11. Is(h)
  <2>1. \A k \in 0..N : h[k] = IF k = 0 THEN Locals(t)
                               ELSE VisitPair(h[k - 1], body[k], body[k + 1], braid)
    <3> SUFFICES ASSUME NEW k \in 0..N
                 PROVE h[k] = IF k = 0 THEN Locals(t)
                              ELSE VisitPair(h[k - 1], body[k], body[k + 1], braid)
      OBVIOUS
    <3>1. CASE k = 0
      BY <1>9, <3>1 DEF Unrolls
    <3>2. CASE k # 0
      <4>1. k \in 1..N /\ h[k - 1] \in V
        BY <1>9, <1>10, <3>2
      <4>2. h[k] = turn[k][h[k - 1]]
        BY <1>9, <4>1 DEF Unrolls
      <4> QED BY <1>7, <3>2, <4>1, <4>2
    <3> QED BY <3>1, <3>2
  <2> QED BY <2>1
<1>12. Is(g)
  <2> HIDE DEF Is
  <2> QED BY <1>11
<1> HIDE DEF g
<1>13. g[0] = Locals(t) /\ \A k \in 1..N : g[k] = VisitPair(g[k - 1], body[k], body[k + 1], braid)
  BY SMTT(30), <1>1, <1>10, <1>12
<1>14. \A k \in 0..N : g[k] \in V
  <2> DEFINE G == {k \in 0..N : g[k] \in V}
  <2>1. 0 \in G
    BY <1>1, <1>5, <1>13
  <2>2. ASSUME NEW k \in 1..N, k - 1 \in G PROVE k \in G
    <3>1. k \in 0..N
      BY <1>1
    <3> QED BY <1>6, <1>13, <2>2, <3>1
  <2> HIDE DEF G
  <2>3. 0..N \subseteq G
    BY <1>1, <2>1, <2>2, SetInductionUpTo
  <2> QED BY <2>3 DEF G
<1>15. Visited(g, s, t, n, bs, f, braid)
  BY <1>4, <1>13, <1>14 DEF Visited, body, V, N
<1> QED BY <1>3, <1>15 DEF body

\* What the loop leaves.
LEMMA VisitPairsVisits ==
  ASSUME NEW n \in Nat, NEW bs, NEW f, NEW s \in States(n, bs, f), Shows(s, n),
         NEW braid
  PROVE  \E t \in Edits(s, n, bs, f) :
           /\ VisitPairs(s, braid) \in Visits(t, n, bs, f)
           /\ t.instr[Body(s)[1]].label # NoLabel
<1> DEFINE N == Len(Body(s)) - 1
<1>1. PICK t, g : t \in Edits(s, n, bs, f) /\
        t.instr[Body(s)[1]].label # NoLabel /\ Visited(g, s, t, n, bs, f, braid)
  BY VisitPairsUnroll
<1>2. N \in 0..N
  <2>1. Body(s) \in Seq(1..n) /\ Body(s) # <<>>
    BY DEF Shows
  <2>2. \A x \in Seq(1..n) : x # <<>> => Len(x) - 1 \in 0..(Len(x) - 1)
    OBVIOUS
  <2> QED BY <2>1, <2>2
<1>3. VisitPairs(s, braid) = g[N] /\ g[N] \in Visits(t, n, bs, f)
  BY <1>1, <1>2 DEF Visited
<1> QED BY <1>1, <1>3

\* The pass over the branches but the last one is an edit.
LEMMA AimedVisits ==
  ASSUME NEW n \in Nat, NEW bs, NEW f, NEW s \in States(n, bs, f), Shows(s, n),
         NEW braid
  PROVE  Aimed(s, braid) \in Visits(s, n, bs, f)
<1> DEFINE p == VisitPairs(s, braid)
           q == Aimed(s, braid)
           i == Last(Body(p.bb))
           u == IF p.bb.fini # <<>> /\ Relative(p.bb.instr[i])
                THEN OwnOrNew(p.bb, p.bb.fini[1], Label("rel_branch", p.allCounter))
                ELSE p.bb
           a == LastAddress(u, braid)
           v == SetAddress(u, i, a)
<1>1. PICK t \in Edits(s, n, bs, f) :
        p \in Visits(t, n, bs, f) /\ t.instr[Body(s)[1]].label # NoLabel
  BY VisitPairsVisits
<1>2. q = p \/ q = [p EXCEPT !.bb = v]
  BY DEF Aimed, AimLast
<1>3. t \in States(n, bs, f) /\ p.bb \in Edits(t, n, bs, f) /\ p.bb \in States(n, bs, f)
      /\ p.allCounter \in Nat /\ \A k \in DOMAIN p.labels : Held(p.bb, p.labels[k])
  BY <1>1 DEF Visits, Edits
<1> HIDE DEF p
<1>4. /\ Body(p.bb) = Body(s) /\ p.bb.fini = s.fini /\ Body(s) \in Seq(1..n)
      /\ Body(s) # <<>> /\ s.fini \in Seq(1..n)
      /\ \A j : Excepted(p.bb, j) = (p.bb.fini # <<>> /\ j = i)
  <2>1. Body(p.bb) = Body(s) /\ p.bb.fini = s.fini
    BY <1>3, SameText
  <2> QED BY <2>1 DEF Shows, Excepted
<1>5. i \in 1..n /\ Body(s)[1] \in 1..n /\ i = Last(Body(s))
  BY <1>4 DEF Last
<1>6. p.bb.instr[Body(s)[1]].label # NoLabel
  BY <1>1, <1>3, <1>5, HeldKept
<1> HIDE DEF i
<1>7. u \in Edits(p.bb, n, bs, f) /\ u \in States(n, bs, f)
  <2>1. CASE p.bb.fini # <<>> /\ Relative(p.bb.instr[i])
    <3>1. p.bb.fini[1] \in 1..n
      BY <1>4, <2>1
    <3>2. /\ Label("rel_branch", p.allCounter) \in LabelT
          /\ Label("rel_branch", p.allCounter) # NoLabel
      BY <1>3, LabelTypes DEF Names
    <3>3. u = OwnOrNew(p.bb, p.bb.fini[1], Label("rel_branch", p.allCounter))
      BY <2>1
    <3> HIDE DEF u
    <3>4. u \in Edits(p.bb, n, bs, f)
      BY <1>3, <3>1, <3>2, <3>3, OwnOrNewEdits
    <3> QED BY <3>4 DEF Edits
  <2>2. CASE ~(p.bb.fini # <<>> /\ Relative(p.bb.instr[i]))
    <3>1. u = p.bb
      BY <2>2
    <3> HIDE DEF u
    <3> QED BY <1>3, <3>1, EditsSelf
  <2> QED BY <2>1, <2>2
<1> HIDE DEF u
<1>8. /\ Body(u) = Body(s) /\ u.fini = s.fini
      /\ \A j : Excepted(u, j) = (s.fini # <<>> /\ j = i)
      /\ u.instr[Body(s)[1]].label # NoLabel
      /\ \A j \in 1..n : u.instr[j].label \in LabelT
  <2>1. Body(u) = Body(p.bb) /\ u.fini = p.bb.fini /\ \A j : Excepted(u, j) = Excepted(p.bb, j)
    BY <1>3, <1>7, SameText
  <2>2. u.instr[Body(s)[1]].label = p.bb.instr[Body(s)[1]].label
    BY <1>3, <1>5, <1>6, <1>7, HeldKept
  <2>3. \A j \in 1..n : u.instr[j].label \in LabelT
    BY <1>7 DEF States, InstrT
  <2> QED BY <1>4, <1>6, <2>1, <2>2, <2>3
<1>9. /\ a \in Targets(n) /\ a.by = "label"
      /\ \/ a.to = 0
         \/ a.label = u.instr[a.to].label /\ a.label # NoLabel
         \/ Excepted(u, i)
  <2> DEFINE last == u.instr[i]
             b == Body(s)[1]
  <2>1. Last(Body(u)) = i
    BY <1>5, <1>8
  <2>2. CASE s.fini # <<>> /\ Relative(last)
    <3>1. a = ToLabel(u.instr[s.fini[1]].label, b)
      BY <1>8, <2>1, <2>2 DEF LastAddress
    <3>2. s.fini[1] \in 1..n
      BY <1>4, <2>2
    <3>3. u.instr[s.fini[1]].label \in LabelT /\ b \in 0..n
      BY <1>5, <1>8, <3>2
    <3> HIDE DEF a, b
    <3>4. a \in Targets(n) /\ a.by = "label"
      BY <3>1, <3>3, TargetTypes
    <3> QED BY <1>8, <2>2, <3>4
  <2>3. CASE ~(s.fini # <<>> /\ Relative(last)) /\ ~braid /\ last.label # NoLabel
    <3>1. a = Target("label", last.label, 1, 0)
      BY <1>8, <2>1, <2>3 DEF LastAddress
    <3>2. last.label \in LabelT /\ "label" \in Bys /\ 1 \in Nat /\ 0 \in 0..n
      BY <1>5, <1>8 DEF Bys
    <3> HIDE DEF a, last
    <3> QED BY <3>1, <3>2, TargetTypes
  <2>4. CASE ~(s.fini # <<>> /\ Relative(last)) /\ ~(~braid /\ last.label # NoLabel)
    <3>1. a = ToLabel(u.instr[b].label, b)
      BY <1>8, <2>1, <2>4 DEF LastAddress
    <3>2. u.instr[b].label \in LabelT /\ b \in 0..n /\ u.instr[b].label # NoLabel
      BY <1>5, <1>8
    <3> HIDE DEF a, b
    <3> QED BY <3>1, <3>2, TargetTypes
  <2> QED BY <2>2, <2>3, <2>4
<1> HIDE DEF a
<1>10. v \in Edits(u, n, bs, f)
  BY <1>5, <1>7, <1>9, SetAddressEdits
<1> HIDE DEF v
<1>11. v \in Edits(p.bb, n, bs, f)
  BY <1>3, <1>7, <1>10, EditsKeep
<1>12. p.bb \in Edits(s, n, bs, f)
  BY <1>1, <1>3, EditsKeep
<1>13. v \in Edits(s, n, bs, f)
  BY <1>11, <1>12, EditsKeep
<1>14. \A l : Held(p.bb, l) => Held(v, l)
  BY <1>3, <1>11, HeldKept
<1>15. p \in Visits(s, n, bs, f)
  BY <1>1, <1>3, <1>12 DEF Visits
<1> HIDE DEF q
<1>16. q \in Visits(s, n, bs, f)
  <2>1. CASE q = p
    BY <1>15, <2>1
  <2>2. CASE q = [p EXCEPT !.bb = v]
    BY <1>3, <1>13, <1>14, <1>15, <2>2 DEF Visits
  <2> QED BY <1>2, <2>1, <2>2
<1> QED BY <1>16 DEF q
-----------------------------------------------------------------------------
(* Positions, addresses and offsets; UpdateInstructionAddressesPass.       *)

\* An instruction of the text has one place in it.
OncePlaced(s) ==
    \A p, q \in DOMAIN Text(s) : Text(s)[p] = Text(s)[q] => p = q

\* Addresses and offsets that suit position p: not behind it, and not before
\* the first instruction.
Suits(i, p) ==
    /\ i.address <= p - 1
    /\ i.target.by = "offset" => p + i.target.disp >= 1
Lows(s) == \A p \in DOMAIN Text(s) : Suits(s.instr[Text(s)[p]], p)

\* Every instruction has an address, every instruction outside of the text.
Addressed(s) == \A i \in DOMAIN s.instr : s.instr[i].address # None
OthersAddressed(s) ==
    \A i \in DOMAIN s.instr :
        s.instr[i].address # None \/ i \in ToSet(Text(s))

\* The text is a list of objects that begins with the body.
LEMMA TextSeq ==
  ASSUME NEW n \in Nat, NEW s, Shows(s, n)
  PROVE  /\ Text(s) \in Seq(1..n) /\ Len(Text(s)) \in Nat
         /\ DOMAIN Text(s) = 1..Len(Text(s))
         /\ \A p \in 1..Len(Text(s)) : Text(s)[p] \in 1..n
         /\ ToSet(Text(s)) \subseteq 1..n
         /\ ToSet(Text(s)) = {Text(s)[p] : p \in 1..Len(Text(s))}
         /\ Len(Body(s)) \in 1..Len(Text(s))
         /\ \A p \in 1..Len(Body(s)) : Text(s)[p] = Body(s)[p]
         /\ s.fini = <<>> => Text(s) = Body(s)
<1> DEFINE x == Body(s)
           y == s.fini
           T == x \o y
<1>1. x \in Seq(1..n) /\ y \in Seq(1..n) /\ x # <<>>
  BY DEF Shows
<1>2. Text(s) = T
  BY DEF Text
<1> HIDE DEF x, y
<1>3. /\ Len(x) \in Nat /\ Len(y) \in Nat /\ T \in Seq(1..n) /\ Len(T) = Len(x) + Len(y)
      /\ \A j \in 1..Len(x) : T[j] = x[j]
  BY <1>1, JoinedIs
<1>4. y = <<>> => T = x
  BY <1>1
<1> HIDE DEF T
<1>5. /\ DOMAIN T = 1..Len(T) /\ Len(T) \in Nat /\ \A p \in 1..Len(T) : T[p] \in 1..n
      /\ Len(x) \in 1..Len(T)
  <2>1. \A S : \A z \in Seq(S) : /\ DOMAIN z = 1..Len(z) /\ Len(z) \in Nat
                                 /\ \A p \in 1..Len(z) : z[p] \in S
    OBVIOUS
  <2>2. T \in Seq(1..n)
    BY <1>3
  <2>3. Len(x) # 0
    BY <1>1
  <2>4. Len(x) \in 1..Len(T)
    BY <1>3, <2>3
  <2> QED BY <2>1, <2>2, <2>4
<1>6. ToSet(T) = {T[p] : p \in 1..Len(T)}
  BY <1>5 DEF ToSet
<1> QED BY <1>2, <1>3, <1>4, <1>5, <1>6 DEF x, y

\* t differs from s in addresses: each of the text has one now.
Numbered(s, t) ==
    /\ \A i \in DOMAIN s.instr :
         t.instr[i] = [s.instr[i] EXCEPT !.address = t.instr[i].address]
    /\ \A p \in DOMAIN Text(s) : t.instr[Text(s)[p]].address \in 0..(p - 1)
    /\ \A i \in DOMAIN s.instr \ ToSet(Text(s)) : t.instr[i] = s.instr[i]

\* What UpdateInstructionAddressesPass does.
LEMMA UpdatedNumbers ==
  ASSUME NEW n \in Nat, NEW bs, NEW f, NEW s \in States(n, bs, f), Shows(s, n),
         OncePlaced(s), Lows(s)
  PROVE  LET t == UpdatedAddresses(s)
         IN  /\ t \in States(n, bs, f) /\ Numbered(s, t)
             /\ t.registers = s.registers /\ t.ok = s.ok
<1> DEFINE T == Text(s)
           N == Len(T)
           W == [instr : [1..n -> InstrT(n)], at : Nat]
           keeps(t, k) == k <= Len(Body(s)) /\ t.instr[T[k]].address # None
           base == [instr |-> s.instr, at |-> 0]
           next(t, k) ==
             Placed(t, T[k], IF keeps(t, k) THEN t.instr[T[k]].address ELSE t.at)
           Is(g) == g = [k \in 0..N |-> IF k = 0 THEN base ELSE next(g[k - 1], k)]
           turn == [k \in 1..N |-> [t \in W |-> next(t, k)]]
           g == CHOOSE h : Is(h)
<1>1. /\ N \in Nat /\ DOMAIN T = 1..N /\ \A k \in 1..N : T[k] \in 1..n
      /\ ToSet(T) = {T[k] : k \in 1..N}
  BY TextSeq
<1>2. /\ s.instr \in [1..n -> InstrT(n)] /\ DOMAIN s.instr = 1..n
      /\ \A p, q \in 1..N : T[p] = T[q] => p = q
      /\ \A p \in 1..N : Suits(s.instr[T[p]], p)
  BY <1>1 DEF States, OncePlaced, Lows
<1>3. UpdatedAddresses(s) = [s EXCEPT !.instr = g[N].instr]
  BY DEF UpdatedAddresses
<1> HIDE DEF T, N
\* One turn, from any record of instructions and a next address.
<1>4. ASSUME NEW t \in W, NEW k \in 1..N,
             NEW u, u = next(t, k)
      PROVE  \E a \in Nat :
               /\ u \in W /\ u.at = a + 1
               /\ a = t.at \/ a = t.instr[T[k]].address
               /\ u.instr[T[k]] = [t.instr[T[k]] EXCEPT !.address = a]
               /\ \A i \in 1..n : i # T[k] => u.instr[i] = t.instr[i]
  <2> DEFINE i == T[k]
             a == IF keeps(t, k) THEN t.instr[i].address ELSE t.at
  <2>1. i \in 1..n /\ t.instr[i] \in InstrT(n) /\ t.at \in Nat
        /\ t.instr[i].address \in Nat \cup {None} /\ t.instr \in [1..n -> InstrT(n)]
    BY <1>1 DEF InstrT
  <2>2. a \in Nat /\ (a = t.at \/ a = t.instr[i].address)
    BY <2>1
  <2>3. u = [instr |-> [t.instr EXCEPT ![i] = [t.instr[i] EXCEPT !.address = a]],
             at |-> a + 1]
    BY <1>4, <2>1 DEF Placed
  <2> HIDE DEF a, i
  <2>4. [t.instr[i] EXCEPT !.address = a] \in InstrT(n)
    BY <2>1, <2>2 DEF InstrT
  <2>5. u \in W
    BY <2>1, <2>2, <2>3, <2>4
  <2>6. /\ u.instr[i] = [t.instr[i] EXCEPT !.address = a] /\ u.at = a + 1
        /\ \A j \in 1..n : j # i => u.instr[j] = t.instr[j]
    BY <2>1, <2>3
  <2> QED BY <2>2, <2>5, <2>6 DEF i
<1>5. base \in W
  BY <1>2
<1>6. \A k \in 1..N : \A t \in W : turn[k][t] = next(t, k)
  OBVIOUS
<1>7. StepsInto(turn, N, W)
  <2> SUFFICES ASSUME NEW k \in 1..N, NEW t \in W PROVE turn[k][t] \in W
    BY DEF StepsInto
  <2> HIDE DEF W, next, turn
  <2> QED BY <1>4, <1>6
<1> HIDE DEF W, turn, base, next
<1>8. PICK h \in [0..N -> W] : Unrolls(h, N, base, turn)
  BY <1>1, <1>5, <1>7, RecursiveFunction
<1>9. \A k \in 0..N : k # 0 => k \in 1..N /\ k - 1 \in 0..N
  BY <1>1
<1>10. Is(h)
  <2>1. \A k \in 0..N : h[k] = IF k = 0 THEN base ELSE next(h[k - 1], k)
    <3> SUFFICES ASSUME NEW k \in 0..N
                 PROVE h[k] = IF k = 0 THEN base ELSE next(h[k - 1], k)
      OBVIOUS
    <3>1. CASE k = 0
      BY <1>8, <3>1 DEF Unrolls
    <3>2. CASE k # 0
      <4>1. k \in 1..N /\ h[k - 1] \in W
        BY <1>8, <1>9, <3>2
      <4>2. h[k] = turn[k][h[k - 1]]
        BY <1>8, <4>1 DEF Unrolls
      <4> QED BY <1>6, <3>2, <4>1, <4>2
    <3> QED BY <3>1, <3>2
  <2> QED BY <2>1
<1>11. Is(g)
  <2> HIDE DEF Is
  <2> QED BY <1>10
<1> HIDE DEF g
<1>12. g[0] = base /\ \A k \in 1..N : g[k] = next(g[k - 1], k)
  BY <1>1, <1>9, <1>11
<1> HIDE DEF Is
<1> DEFINE Ok(t, k) ==
             /\ t \in W /\ t.at <= k
             /\ \A i \in 1..n : t.instr[i] = [s.instr[i] EXCEPT !.address = t.instr[i].address]
             /\ \A p \in 1..k : t.instr[T[p]].address \in 0..(p - 1)
             /\ \A i \in 1..n : (\A p \in 1..k : T[p] # i) => t.instr[i] = s.instr[i]
<1>13. Ok(base, 0)
  <2>1. \A i \in 1..n : s.instr[i] = [s.instr[i] EXCEPT !.address = s.instr[i].address]
    BY <1>2 DEF InstrT
  <2> QED BY <1>5, <2>1 DEF base
<1>14. ASSUME NEW k \in 1..N, NEW t, Ok(t, k - 1) PROVE Ok(next(t, k), k)
  <2> DEFINE u == next(t, k)
             i == T[k]
  <2>1. PICK a \in Nat :
               /\ u \in W /\ u.at = a + 1
               /\ a = t.at \/ a = t.instr[i].address
               /\ u.instr[i] = [t.instr[i] EXCEPT !.address = a]
               /\ \A j \in 1..n : j # i => u.instr[j] = t.instr[j]
    <3>1. t \in W /\ u = next(t, k)
      BY <1>14
    <3> HIDE DEF u
    <3> QED BY <1>4, <3>1
  <2>2. i \in 1..n /\ k \in Nat /\ t.at \in Nat /\ t.at <= k - 1
    BY <1>1, <1>14 DEF W
  <2>3. t.instr[i] = s.instr[i]
    <3>1. \A p \in 1..(k - 1) : p \in 1..N /\ p # k
      BY <1>1
    <3>2. \A p \in 1..(k - 1) : T[p] # i
      BY <1>2, <3>1
    <3> QED BY <1>14, <2>2, <3>2
  <2>4. a <= k - 1
    BY <1>2, <2>1, <2>2, <2>3 DEF Suits
  <2>5. s.instr[i] \in InstrT(n)
    BY <1>2, <2>2
  <2> HIDE DEF u
  <2>6. \A j \in 1..n : u.instr[j] = [s.instr[j] EXCEPT !.address = u.instr[j].address]
    <3>1. u.instr[i] = [s.instr[i] EXCEPT !.address = u.instr[i].address]
      BY <2>1, <2>3, <2>5 DEF InstrT
    <3> QED BY <1>14, <2>1, <3>1
  <2>7. \A p \in 1..k : u.instr[T[p]].address \in 0..(p - 1)
    <3> SUFFICES ASSUME NEW p \in 1..k PROVE u.instr[T[p]].address \in 0..(p - 1)
      OBVIOUS
    <3>1. CASE p = k
      <4>1. u.instr[i].address = a
        BY <2>1, <2>3, <2>5 DEF InstrT
      <4> QED BY <2>2, <2>4, <3>1, <4>1
    <3>2. CASE p # k
      <4>1. p \in 1..(k - 1) /\ p \in 1..N
        BY <1>1, <2>2, <3>2
      <4>2. T[p] # i /\ T[p] \in 1..n
        BY <1>1, <1>2, <3>2, <4>1
      <4>3. u.instr[T[p]] = t.instr[T[p]]
        BY <2>1, <4>2
      <4> QED BY <1>14, <4>1, <4>3
    <3> QED BY <3>1, <3>2
  <2>8. ASSUME NEW j \in 1..n, \A p \in 1..k : T[p] # j PROVE u.instr[j] = s.instr[j]
    <3>1. k \in 1..k /\ \A p \in 1..(k - 1) : p \in 1..k
      BY <2>2
    <3> QED BY <1>14, <2>1, <2>8, <3>1
  <2>9. u.at <= k
    BY <2>1, <2>2, <2>4
  <2> QED BY <2>1, <2>6, <2>7, <2>8, <2>9 DEF u
<1>15. Ok(g[N], N)
  <2> DEFINE G == {k \in 0..N : Ok(g[k], k)}
  <2>1. 0 \in G
    <3> HIDE DEF Ok
    <3> QED BY <1>1, <1>12, <1>13
  <2>2. ASSUME NEW k \in 1..N, k - 1 \in G PROVE k \in G
    <3>1. k \in 0..N /\ Ok(g[k - 1], k - 1)
      BY <1>1, <2>2
    <3> HIDE DEF Ok
    <3> QED BY <1>12, <1>14, <3>1
  <2> HIDE DEF G
  <2>3. 0..N \subseteq G
    BY <1>1, <2>1, <2>2, SetInductionUpTo
  <2>4. N \in 0..N
    BY <1>1
  <2> QED BY <2>3, <2>4 DEF G
<1> DEFINE t == UpdatedAddresses(s)
<1>16. t = [s EXCEPT !.instr = g[N].instr]
  BY <1>3
<1> HIDE DEF t
<1>17. g[N].instr \in [1..n -> InstrT(n)]
  BY <1>15 DEF W
<1>18. /\ t \in States(n, bs, f) /\ t.instr = g[N].instr /\ t.registers = s.registers
       /\ t.ok = s.ok
  BY <1>16, <1>17 DEF States
<1>19. Numbered(s, t)
  <2>1. \A i \in 1..n : t.instr[i] = [s.instr[i] EXCEPT !.address = t.instr[i].address]
    BY <1>15, <1>18
  <2>2. \A p \in 1..N : t.instr[T[p]].address \in 0..(p - 1)
    BY <1>15, <1>18
  <2>3. \A i \in 1..n : i \notin ToSet(T) => t.instr[i] = s.instr[i]
    BY <1>1, <1>15, <1>18
  <2> QED BY <1>1, <1>2, <2>1, <2>2, <2>3 DEF Numbered, T
<1> QED BY <1>18, <1>19 DEF t

\* What is in one of the lists is in the joined list.
LEMMA FlattenHolds ==
  ASSUME NEW S, NEW ss \in Seq(Seq(S))
  PROVE  \A b \in 1..Len(ss) : \A j \in 1..Len(ss[b]) :
           \E p \in 1..Len(FlattenSeq(ss)) : FlattenSeq(ss)[p] = ss[b][j]
<1> DEFINE N == Len(ss)
           F == FlattenSeq(ss)
<1>1. N \in Nat /\ \A b \in 1..N : ss[b] \in Seq(S)
  OBVIOUS
<1>2. PICK h : Joins(h, S, ss) /\ F = h[N]
  BY FlattenPrefixes
<1>3. /\ \A m \in 0..N : h[m] \in Seq(S)
      /\ \A m \in 1..N : h[m] = h[m - 1] \o ss[m]
  BY <1>2 DEF Joins
<1> HIDE DEF F, N
<1> DEFINE In(b, j, m) == \E p \in 1..Len(h[m]) : h[m][p] = ss[b][j]
           G == {m \in 0..N : \A b \in 1..m : \A j \in 1..Len(ss[b]) : In(b, j, m)}
<1>4. 0 \in G
  BY <1>1
<1>5. ASSUME NEW m \in 1..N, m - 1 \in G PROVE m \in G
  <2> SUFFICES ASSUME NEW b \in 1..m, NEW j \in 1..Len(ss[b]) PROVE In(b, j, m)
    BY <1>1
  <2>1. h[m - 1] \in Seq(S) /\ ss[m] \in Seq(S) /\ h[m] = h[m - 1] \o ss[m]
    BY <1>1, <1>3, <1>5
  <2> DEFINE x == h[m - 1]
             y == ss[m]
  <2>2. /\ Len(x) \in Nat /\ Len(y) \in Nat /\ Len(x \o y) = Len(x) + Len(y)
        /\ \A i \in 1..Len(x) : (x \o y)[i] = x[i]
        /\ \A i \in 1..Len(y) : (x \o y)[Len(x) + i] = y[i]
    <3> HIDE DEF x, y
    <3>1. x \in Seq(S) /\ y \in Seq(S)
      BY <2>1 DEF x, y
    <3> QED BY <3>1, JoinedIs
  <2> DEFINE mx == Len(x)
             my == Len(y)
  <2>m. mx \in Nat /\ my \in Nat /\ Len(x \o y) = mx + my
    BY <2>2
  <2>3. CASE b = m
    <3>1. Len(x) + j \in 1..Len(x \o y)
      <4>1. j \in 1..my
        BY <2>3
      <4> HIDE DEF mx, my
      <4>2. mx + j \in 1..(mx + my)
        BY <4>1, <2>m
      <4> QED BY <4>2, <2>m DEF mx
    <3>2. (x \o y)[Len(x) + j] = ss[b][j]
      BY <2>2, <2>3
    <3> QED BY <2>1, <3>1, <3>2
  <2>4. CASE b # m
    <3>1. b \in 1..(m - 1)
      BY <1>1, <2>4
    <3>2. PICK p \in 1..Len(x) : x[p] = ss[b][j]
      BY <1>5, <3>1
    <3>3. p \in 1..Len(x \o y) /\ (x \o y)[p] = ss[b][j]
      <4>1. p \in 1..mx
        BY <3>2
      <4>2. (x \o y)[p] = ss[b][j]
        BY <2>2, <3>2
      <4> HIDE DEF mx, my
      <4>3. p \in 1..(mx + my)
        BY <4>1, <2>m
      <4> QED BY <4>2, <4>3, <2>m
    <3> QED BY <2>1, <3>3
  <2> QED BY <2>3, <2>4
<1> HIDE DEF G
<1>6. 0..N \subseteq G
  BY <1>1, <1>4, <1>5, SetInductionUpTo
<1>7. N \in 0..N
  BY <1>1
<1>8. N \in G
  BY <1>6, <1>7
<1> QED BY <1>2, <1>8 DEF G, N, F

\* Blocks show what the text shows.
LEMMA BlockShows ==
  ASSUME NEW n \in Nat, NEW s, Shows(s, n)
  PROVE  /\ \A b \in DOMAIN s.blocks : \A k \in 1..Len(Instrs(s.blocks[b])) :
              Instrs(s.blocks[b])[k] \in ToSet(Text(s))
         /\ Last(Body(s)) \in ToSet(Text(s)) /\ Body(s)[1] \in ToSet(Text(s))
<1> DEFINE ss == [b \in DOMAIN s.blocks |-> Instrs(s.blocks[b])]
           N == Len(s.blocks)
<1>1. /\ N \in Nat /\ DOMAIN s.blocks = 1..N
      /\ \A b \in 1..N : Instrs(s.blocks[b]) \in Seq(1..n)
  BY DEF Shows
<1>2. ss \in Seq(Seq(1..n)) /\ Len(ss) = N /\ \A b \in 1..N : ss[b] = Instrs(s.blocks[b])
  <2> HIDE DEF N
  <2> QED BY <1>1
<1>3. Body(s) = FlattenSeq(ss)
  BY DEF Body
<1> HIDE DEF ss, N
<1>4. /\ ToSet(Text(s)) = {Text(s)[p] : p \in 1..Len(Text(s))}
      /\ Len(Text(s)) \in Nat /\ Len(Body(s)) \in 1..Len(Text(s))
      /\ \A p \in 1..Len(Body(s)) : Text(s)[p] = Body(s)[p]
  BY TextSeq
<1>5. \A p \in 1..Len(Body(s)) : Body(s)[p] \in ToSet(Text(s))
  BY <1>4
<1>6. \A b \in 1..N : \A j \in 1..Len(ss[b]) :
        \E p \in 1..Len(Body(s)) : Body(s)[p] = ss[b][j]
  <2>1. \A b \in 1..Len(ss) : \A j \in 1..Len(ss[b]) :
          \E p \in 1..Len(FlattenSeq(ss)) : FlattenSeq(ss)[p] = ss[b][j]
    <3>1. ss \in Seq(Seq(1..n))
      BY <1>2
    <3> QED BY ONLY <3>1, FlattenHolds
  <2> QED BY <1>2, <1>3, <2>1
<1>7. 1 \in 1..Len(Body(s)) /\ Len(Body(s)) \in 1..Len(Body(s))
  BY <1>4
<1>8. /\ Last(Body(s)) = Body(s)[Len(Body(s))]
      /\ Last(Body(s)) \in ToSet(Text(s)) /\ Body(s)[1] \in ToSet(Text(s))
  BY <1>5, <1>7 DEF Last
<1>9. \A b \in 1..N : \A j \in 1..Len(ss[b]) : ss[b][j] \in ToSet(Text(s))
  BY <1>5, <1>6
<1>10. \A b \in 1..N : \A k \in 1..Len(Instrs(s.blocks[b])) :
         Instrs(s.blocks[b])[k] \in ToSet(Text(s))
  BY <1>2, <1>9
<1> QED BY <1>1, <1>8, <1>10

\* Edits do not touch addresses and make no offsets.
LEMMA EditsSuit ==
  ASSUME NEW n \in Nat, NEW bs, NEW f, NEW s \in States(n, bs, f), Shows(s, n),
         NEW t \in Edits(s, n, bs, f)
  PROVE  /\ Shows(t, n) /\ Text(t) = Text(s) /\ t \in States(n, bs, f)
         /\ OncePlaced(s) => OncePlaced(t)
         /\ Lows(s) => Lows(t)
         /\ Addressed(s) => Addressed(t)
         /\ OthersAddressed(s) => OthersAddressed(t)
         /\ Agreed(s) => Agreed(t)
<1>1. t \in States(n, bs, f) /\ Edited(s, t) /\ (Agreed(s) => Agreed(t))
  BY DEF Edits
<1>2. /\ Body(t) = Body(s) /\ Text(t) = Text(s) /\ t.fini = s.fini /\ t.blocks = s.blocks
      /\ DOMAIN s.instr = 1..n /\ DOMAIN t.instr = 1..n
  BY <1>1, SameText
<1>3. /\ Len(Text(s)) \in Nat /\ DOMAIN Text(s) = 1..Len(Text(s))
      /\ \A p \in 1..Len(Text(s)) : Text(s)[p] \in 1..n
  BY TextSeq
<1>4. \A i \in 1..n : /\ t.instr[i].address = s.instr[i].address
                      /\ \/ t.instr[i].target = s.instr[i].target
                         \/ t.instr[i].target.by # "offset"
  BY <1>1, <1>2 DEF Edited
<1>5. Lows(s) => Lows(t)
  BY <1>2, <1>3, <1>4 DEF Lows, Suits
<1>6. Shows(t, n)
  BY <1>2 DEF Shows
<1> QED BY <1>1, <1>2, <1>4, <1>5, <1>6 DEF OncePlaced, Addressed, OthersAddressed

\* After UpdateInstructionAddressesPass every instruction has an address.
LEMMA NumberedSuits ==
  ASSUME NEW n \in Nat, NEW bs, NEW f, NEW s \in States(n, bs, f), Shows(s, n),
         NEW t \in States(n, bs, f), Numbered(s, t), Lows(s), OthersAddressed(s)
  PROVE  /\ Shows(t, n) /\ Text(t) = Text(s)
         /\ OncePlaced(s) => OncePlaced(t)
         /\ Lows(t) /\ Addressed(t) /\ OthersAddressed(t)
         /\ Agreed(s) => Agreed(t)
<1>1. /\ Body(t) = Body(s) /\ Text(t) = Text(s) /\ t.fini = s.fini /\ t.blocks = s.blocks
      /\ DOMAIN s.instr = 1..n /\ DOMAIN t.instr = 1..n
      /\ \A i : Excepted(t, i) = Excepted(s, i)
  BY SameText
<1>2. /\ Len(Text(s)) \in Nat /\ DOMAIN Text(s) = 1..Len(Text(s))
      /\ \A p \in 1..Len(Text(s)) : Text(s)[p] \in 1..n
      /\ ToSet(Text(s)) = {Text(s)[p] : p \in 1..Len(Text(s))}
  BY TextSeq
<1>3. \A i \in 1..n : s.instr[i] \in InstrT(n)
  BY DEF States
<1>4. \A i \in 1..n : /\ t.instr[i].label = s.instr[i].label
                      /\ t.instr[i].target = s.instr[i].target
  <2> SUFFICES ASSUME NEW i \in 1..n
               PROVE  /\ t.instr[i].label = s.instr[i].label
                      /\ t.instr[i].target = s.instr[i].target
    OBVIOUS
  <2>1. t.instr[i] = [s.instr[i] EXCEPT !.address = t.instr[i].address]
    BY <1>1 DEF Numbered
  <2>2. \A a : /\ [s.instr[i] EXCEPT !.address = a].label = s.instr[i].label
               /\ [s.instr[i] EXCEPT !.address = a].target = s.instr[i].target
    BY <1>3 DEF InstrT
  <2> QED BY <2>1, <2>2
<1>5. \A p \in 1..Len(Text(s)) : t.instr[Text(s)[p]].address \in 0..(p - 1)
  BY <1>2 DEF Numbered
<1>6. Lows(t)
  <2> SUFFICES ASSUME NEW p \in 1..Len(Text(s)) PROVE Suits(t.instr[Text(s)[p]], p)
    BY <1>1, <1>2 DEF Lows
  <2>1. Suits(s.instr[Text(s)[p]], p)
    BY <1>2 DEF Lows
  <2>2. t.instr[Text(s)[p]].address \in 0..(p - 1)
    BY <1>5
  <2>3. t.instr[Text(s)[p]].address <= p - 1
    BY <2>2
  <2>4. t.instr[Text(s)[p]].target = s.instr[Text(s)[p]].target
    BY <1>2, <1>4
  <2> QED BY <2>1, <2>3, <2>4 DEF Suits
<1>7. Addressed(t)
  <2> SUFFICES ASSUME NEW i \in 1..n PROVE t.instr[i].address # None
    BY <1>1 DEF Addressed
  <2>1. CASE i \in ToSet(Text(s))
    <3>1. PICK p \in 1..Len(Text(s)) : i = Text(s)[p]
      BY <1>2, <2>1
    <3>2. t.instr[i].address \in 0..(p - 1)
      BY <1>5, <3>1
    <3> QED BY <3>2 DEF None
  <2>2. CASE i \notin ToSet(Text(s))
    BY <1>1, <2>2 DEF Numbered, OthersAddressed
  <2> QED BY <2>1, <2>2
<1>8. OthersAddressed(t)
  BY <1>7 DEF Addressed, OthersAddressed
<1>9. ASSUME Agreed(s) PROVE Agreed(t)
  <2>1. \A i \in 1..n : s.instr[i].target.to \in 0..n
    BY <1>3 DEF InstrT, Targets
  <2>2. ASSUME NEW i \in 1..n, AgreesAt(s, i) PROVE AgreesAt(t, i)
    <3>1. PICK to \in 0..n : to = s.instr[i].target.to
      BY <2>1
    <3>2. t.instr[i].target = s.instr[i].target
      BY <1>4
    <3>3. to # 0 => t.instr[to].label = s.instr[to].label
      BY <1>4
    <3> QED BY <2>2, <3>1, <3>2, <3>3 DEF AgreesAt
  <2> QED BY <1>1, <1>9, <2>2 DEF Agreed
<1>10. Shows(t, n)
  BY <1>1 DEF Shows
<1> QED BY <1>1, <1>6, <1>7, <1>8, <1>9, <1>10 DEF OncePlaced
-----------------------------------------------------------------------------
(* FixIndirectBranchPass and ResolveSymbolicReferencesPass.                *)

\* Building blocks FixIndirectBranchPass makes of s: whatever agreed agrees.
Fixes(s, n, bs, f) ==
    {t \in States(n, bs, f) :
        Lows(t) /\ OthersAddressed(t) /\ (Agreed(s) => Agreed(t))}

\* An instruction, field by field.
Fields(k, o, st, a, l, g) ==
    [kind |-> k, origin |-> o, strand |-> st, address |-> a, label |-> l, target |-> g]

Rekind(x, k) == [x EXCEPT !.kind = k]
Readdress(x, a) == [x EXCEPT !.address = a]
Reaim(x, g) == [x EXCEPT !.target = g]

\* One field replaced.
LEMMA FieldsChanged ==
  ASSUME NEW k, NEW o, NEW st, NEW a, NEW l, NEW g, NEW new
  PROVE  /\ Rekind(Fields(k, o, st, a, l, g), new) = Fields(new, o, st, a, l, g)
         /\ Readdress(Fields(k, o, st, a, l, g), new) = Fields(k, o, st, new, l, g)
         /\ Reaim(Fields(k, o, st, a, l, g), new) = Fields(k, o, st, a, l, new)
<1>1. Rekind(Fields(k, o, st, a, l, g), new) = Fields(new, o, st, a, l, g)
  BY DEF Fields, Rekind
<1>2. Readdress(Fields(k, o, st, a, l, g), new) = Fields(k, o, st, new, l, g)
  BY DEF Fields, Readdress
<1>3. Reaim(Fields(k, o, st, a, l, g), new) = Fields(k, o, st, a, l, new)
  BY DEF Fields, Reaim
<1> QED BY <1>1, <1>2, <1>3

\* An instruction has these fields.
LEMMA FieldsOf ==
  ASSUME NEW n, NEW x \in InstrT(n)
  PROVE  x = Fields(x.kind, x.origin, x.strand, x.address, x.label, x.target)
BY DEF InstrT, Fields

\* The two ways FixIndirectBranchPass changes an instruction.
LEMMA FieldsFixed ==
  ASSUME NEW n, NEW x \in InstrT(n), NEW k, NEW a, NEW g
  PROVE  /\ Reaim(Readdress(Rekind(x, k), a), g) =
              Fields(k, x.origin, x.strand, a, x.label, g)
         /\ Reaim(Rekind(x, k), g) =
              Fields(k, x.origin, x.strand, x.address, x.label, g)
<1>1. x = Fields(x.kind, x.origin, x.strand, x.address, x.label, x.target)
  BY FieldsOf
<1>2. Rekind(x, k) = Fields(k, x.origin, x.strand, x.address, x.label, x.target)
  BY <1>1, FieldsChanged
<1> QED BY <1>2, FieldsChanged

\* An instruction of the text whose target is not a label any more.
LEMMA ReplacedFixes ==
  ASSUME NEW n \in Nat, NEW bs, NEW f, NEW s \in States(n, bs, f), Shows(s, n),
         NEW t \in Fixes(s, n, bs, f), NEW i \in ToSet(Text(s)), NEW y \in InstrT(n),
         y.label = t.instr[i].label, y.target.by # "label",
         \A p \in DOMAIN Text(s) : Text(s)[p] = i => Suits(y, p)
  PROVE  [t EXCEPT !.instr[i] = y] \in Fixes(s, n, bs, f)
<1> DEFINE u == [t EXCEPT !.instr[i] = y]
<1>1. /\ t \in States(n, bs, f) /\ t.instr \in [1..n -> InstrT(n)]
      /\ Lows(t) /\ OthersAddressed(t) /\ (Agreed(s) => Agreed(t))
  BY DEF Fixes, States
<1>2. i \in 1..n
  BY TextSeq
<1>3. /\ u \in States(n, bs, f) /\ u.instr[i] = y
      /\ \A j \in 1..n : j # i => u.instr[j] = t.instr[j]
  BY <1>1, <1>2 DEF States
<1> HIDE DEF u
<1>4. /\ Text(u) = Text(s) /\ Text(t) = Text(s)
      /\ DOMAIN t.instr = 1..n /\ DOMAIN u.instr = 1..n
      /\ \A j : Excepted(u, j) = Excepted(t, j)
  BY <1>1, <1>3, SameText
<1>5. \A p \in DOMAIN Text(s) : Text(s)[p] \in 1..n
  BY TextSeq
<1>6. Lows(u)
  BY <1>1, <1>3, <1>4, <1>5 DEF Lows
<1>7. OthersAddressed(u)
  BY <1>1, <1>3, <1>4 DEF OthersAddressed
<1>8. ASSUME Agreed(t) PROVE Agreed(u)
  <2>1. \A j \in 1..n : t.instr[j].target.to \in 0..n
    BY <1>1 DEF InstrT, Targets
  <2>2. \A j \in 1..n : u.instr[j].label = t.instr[j].label
    BY <1>3
  <2>3. \A j \in 1..n : AgreesAt(t, j) => AgreesAt(u, j)
    BY <1>3, <2>1, <2>2 DEF AgreesAt
  <2> QED BY <1>4, <1>8, <2>3 DEF Agreed
<1>9. u \in Fixes(s, n, bs, f)
  BY <1>1, <1>3, <1>6, <1>7, <1>8 DEF Fixes
<1> QED BY <1>9 DEF u

\* A branch without an address becomes a jump to the next instruction.
LEMMA FixBranchFixes ==
  ASSUME NEW n \in Nat, NEW bs, NEW f, NEW s \in States(n, bs, f), Shows(s, n),
         NEW t \in Fixes(s, n, bs, f), NEW i \in ToSet(Text(s)), NEW j \in 1..n
  PROVE  FixBranch(t, i, j) \in Fixes(s, n, bs, f)
<1>1. /\ t \in States(n, bs, f) /\ t.instr \in [1..n -> InstrT(n)]
      /\ Lows(t) /\ OthersAddressed(t) /\ (Agreed(s) => Agreed(t))
  BY DEF Fixes, States
<1>2. i \in 1..n
  BY TextSeq
<1>3. Text(t) = Text(s)
  BY <1>1, SameText
<1>4. CASE None \in {t.instr[i].address, t.instr[j].address}
  <2> DEFINE u == [t EXCEPT !.ok = FALSE]
  <2>1. FixBranch(t, i, j) = u
    BY <1>4 DEF FixBranch
  <2>2. /\ u \in States(n, bs, f) /\ u.instr = t.instr
        /\ u.blocks = t.blocks /\ u.fini = t.fini
    BY <1>1 DEF States
  <2> HIDE DEF u
  <2>3. /\ Body(u) = Body(t) /\ Text(u) = Text(t)
    BY <2>2 DEF Body, Text
  <2>4. Lows(u) /\ OthersAddressed(u)
    BY <1>1, <2>2, <2>3 DEF Lows, OthersAddressed
  <2>5. Agreed(t) => Agreed(u)
    BY <2>2, <2>3 DEF Agreed, AgreesAt, Excepted
  <2> QED BY <1>1, <2>1, <2>2, <2>4, <2>5 DEF Fixes
<1>5. CASE None \notin {t.instr[i].address, t.instr[j].address}
  <2> DEFINE x == t.instr[i]
             d == t.instr[j].address - x.address
             to == Target("offset", NoLabel, d, 0)
             y == [kind |-> "jump", origin |-> x.origin, strand |-> x.strand,
                   address |-> None, label |-> x.label, target |-> to]
  <2>1. /\ x \in InstrT(n) /\ x.address \in Nat /\ t.instr[j].address \in Nat
    BY <1>1, <1>2, <1>5 DEF InstrT
  <2>3. FixBranch(t, i, j) = [t EXCEPT !.instr[i] = y]
    <3>1. FixBranch(t, i, j) =
            [t EXCEPT !.instr = [[[t.instr EXCEPT ![i] = [t.instr[i] EXCEPT !.kind = "jump"]]
                                    EXCEPT ![i] = [@ EXCEPT !.address = None]]
                                    EXCEPT ![i] = [@ EXCEPT !.target = to]]]
      BY <1>1, <1>2, <1>5 DEF FixBranch, States
    <3>2. [[[t.instr EXCEPT ![i] = [t.instr[i] EXCEPT !.kind = "jump"]]
                                    EXCEPT ![i] = [@ EXCEPT !.address = None]]
                                    EXCEPT ![i] = [@ EXCEPT !.target = to]]
          = [t.instr EXCEPT ![i] = [[[x EXCEPT !.kind = "jump"] EXCEPT !.address = None] EXCEPT !.target = to]]
      BY <1>1, <1>2
    <3>3. [[[x EXCEPT !.kind = "jump"] EXCEPT !.address = None] EXCEPT !.target = to] = y
      <4>1. [[[x EXCEPT !.kind = "jump"] EXCEPT !.address = None] EXCEPT !.target = to] =
              Fields("jump", x.origin, x.strand, None, x.label, to)
        <5>1. Reaim(Readdress(Rekind(x, "jump"), None), to) =
                Fields("jump", x.origin, x.strand, None, x.label, to)
          BY <2>1, FieldsFixed
        <5> QED BY <5>1 DEF Rekind, Readdress, Reaim
      <4> QED BY <4>1 DEF Fields
    <3> QED BY <3>1, <3>2, <3>3
  <2>4. d \in Int /\ to \in Targets(n) /\ to.by = "offset" /\ to.disp = d
    <3>1. d \in Int
      BY <2>1
    <3>2. NoLabel \in LabelT
      BY LabelTypes
    <3> HIDE DEF d
    <3>3. to \in Targets(n)
      BY <3>1, <3>2, TargetTypes
    <3> QED BY <3>1, <3>3 DEF Target
  <2>5. y \in InstrT(n)
    <3>1. "jump" \in Kinds
      BY DEF Kinds
    <3> QED BY <2>1, <2>4, <3>1 DEF InstrT
  <2>6. \A p \in DOMAIN Text(s) : Text(s)[p] = i => Suits(y, p)
    <3> SUFFICES ASSUME NEW p \in DOMAIN Text(s), Text(s)[p] = i PROVE Suits(y, p)
      OBVIOUS
    <3>1. p \in Nat \ {0}
      BY TextSeq
    <3>2. x.address <= p - 1
      BY <1>1, <1>3 DEF Lows, Suits
    <3>3. p + d >= 1
      BY <2>1, <3>1, <3>2
    <3>4. y.address = None /\ y.target.disp = d
      BY <2>4
    <3> QED BY <3>1, <3>3, <3>4 DEF Suits, None
  <2>7. y.label = t.instr[i].label /\ y.target.by # "label"
    BY <2>4
  <2> HIDE DEF y
  <2> QED BY <2>3, <2>5, <2>6, <2>7, ReplacedFixes
<1> QED BY <1>4, <1>5

\* FixIndirectBranchPass on one block.
LEMMA FixBlockFixes ==
  ASSUME NEW n \in Nat, NEW bs, NEW f, NEW s \in States(n, bs, f), Shows(s, n),
         NEW t \in Fixes(s, n, bs, f), NEW ids \in Seq(1..n),
         \A k \in 1..Len(ids) : ids[k] \in ToSet(Text(s))
  PROVE  FixBlock(t, ids) \in Fixes(s, n, bs, f)
<1> DEFINE N == Len(ids)
           V == Fixes(s, n, bs, f)
           Is(g) == g = [k \in 0..N |-> IF k = 0 THEN t ELSE FixPair(g[k - 1], ids, k)]
           turn == [k \in 1..N |-> [u \in V |-> FixPair(u, ids, k)]]
           g == CHOOSE h : Is(h)
<1>1. N \in Nat /\ \A k \in 1..N : ids[k] \in 1..n
  OBVIOUS
<1>2. \A k \in 1..N, u \in V : FixPair(u, ids, k) \in V
  <2> SUFFICES ASSUME NEW k \in 1..N, NEW u \in V PROVE FixPair(u, ids, k) \in V
    OBVIOUS
  <2> DEFINE ant == ids[IF k = 1 THEN 1 ELSE k - 1]
  <2>1. (IF k = 1 THEN 1 ELSE k - 1) \in 1..N
    BY <1>1
  <2>2. ant \in ToSet(Text(s)) /\ ids[k] \in 1..n
    BY <2>1
  <2> HIDE DEF V
  <2>3. FixPair(u, ids, k) = FixBranch(u, ant, ids[k]) \/ FixPair(u, ids, k) = u
    BY DEF FixPair
  <2> HIDE DEF ant
  <2>4. FixBranch(u, ant, ids[k]) \in V
    BY <2>2, FixBranchFixes DEF V
  <2> QED BY <2>3, <2>4
<1>3. FixBlock(t, ids) = g[N]
  BY DEF FixBlock
<1>4. t \in V
  OBVIOUS
<1> HIDE DEF V, N
<1>5. \A k \in 1..N : \A u \in V : turn[k][u] = FixPair(u, ids, k)
  OBVIOUS
<1>6. StepsInto(turn, N, V)
  BY <1>2, <1>5 DEF StepsInto
<1> HIDE DEF turn
<1>7. PICK h \in [0..N -> V] : Unrolls(h, N, t, turn)
  BY <1>1, <1>4, <1>6, RecursiveFunction
<1>8. \A k \in 0..N : k # 0 => k \in 1..N /\ k - 1 \in 0..N
  BY <1>1
<1>9. Is(h)
  <2>1. \A k \in 0..N : h[k] = IF k = 0 THEN t ELSE FixPair(h[k - 1], ids, k)
    <3> SUFFICES ASSUME NEW k \in 0..N
                 PROVE h[k] = IF k = 0 THEN t ELSE FixPair(h[k - 1], ids, k)
      OBVIOUS
    <3>1. CASE k = 0
      BY <1>7, <3>1 DEF Unrolls
    <3>2. CASE k # 0
      <4>1. k \in 1..N /\ h[k - 1] \in V
        BY <1>7, <1>8, <3>2
      <4>2. h[k] = turn[k][h[k - 1]]
        BY <1>7, <4>1 DEF Unrolls
      <4> QED BY <1>5, <3>2, <4>1, <4>2
    <3> QED BY <3>1, <3>2
  <2> QED BY <2>1
<1>10. Is(g)
  <2> HIDE DEF Is
  <2> QED BY <1>9
<1> HIDE DEF g
<1>11. g[0] = t /\ \A k \in 1..N : g[k] = FixPair(g[k - 1], ids, k)
  BY <1>1, <1>8, <1>10
<1>12. g[N] \in V
  <2> DEFINE G == {k \in 0..N : g[k] \in V}
  <2>1. 0 \in G
    BY <1>1, <1>4, <1>11
  <2>2. ASSUME NEW k \in 1..N, k - 1 \in G PROVE k \in G
    <3>1. k \in 0..N
      BY <1>1
    <3> QED BY <1>2, <1>11, <2>2, <3>1
  <2> HIDE DEF G
  <2>3. 0..N \subseteq G
    BY <1>1, <2>1, <2>2, SetInductionUpTo
  <2>4. N \in 0..N
    BY <1>1
  <2> QED BY <2>3, <2>4 DEF G
<1> QED BY <1>3, <1>12 DEF V

\* FixIndirectBranchPass on all blocks and the last branch.
LEMMA FixedFixes ==
  ASSUME NEW n \in Nat, NEW bs, NEW f, NEW s \in States(n, bs, f), Shows(s, n),
         Lows(s), OthersAddressed(s)
  PROVE  Fixed(s) \in Fixes(s, n, bs, f)
<1> DEFINE N == Len(s.blocks)
           V == Fixes(s, n, bs, f)
           ids(b) == Instrs(s.blocks[b])
           Is(g) == g = [b \in 0..N |-> IF b = 0 THEN s ELSE FixBlock(g[b - 1], ids(b))]
           turn == [b \in 1..N |-> [u \in V |-> FixBlock(u, ids(b))]]
           g == CHOOSE h : Is(h)
           t == g[N]
           last == Last(Body(s))
           u == FixBranch(t, last, Body(s)[1])
           v == [u EXCEPT !.instr[last].kind = "plain", !.instr[last].target = NoTarget]
<1>1. /\ N \in Nat /\ DOMAIN s.blocks = 1..N /\ \A b \in 1..N : ids(b) \in Seq(1..n)
      /\ \A b \in 1..N : \A k \in 1..Len(ids(b)) : ids(b)[k] \in ToSet(Text(s))
      /\ last \in ToSet(Text(s)) /\ Body(s)[1] \in ToSet(Text(s))
      /\ ToSet(Text(s)) \subseteq 1..n
  BY BlockShows, TextSeq DEF Shows
<1>3. Fixed(s) \in {t, v}
  BY DEF Fixed
<1> HIDE DEF ids, N, last
<1>2. \A b \in 1..N, w \in V : FixBlock(w, ids(b)) \in V
  BY <1>1, FixBlockFixes
<1>4. s \in V
  BY DEF Fixes
<1> HIDE DEF V
<1>5. \A k \in 1..N : \A w \in V : turn[k][w] = FixBlock(w, ids(k))
  OBVIOUS
<1>6. StepsInto(turn, N, V)
  BY <1>2, <1>5 DEF StepsInto
<1> HIDE DEF turn
<1>7. PICK h \in [0..N -> V] : Unrolls(h, N, s, turn)
  BY <1>1, <1>4, <1>6, RecursiveFunction
<1>8. \A k \in 0..N : k # 0 => k \in 1..N /\ k - 1 \in 0..N
  BY <1>1
<1>9. Is(h)
  <2>1. \A k \in 0..N : h[k] = IF k = 0 THEN s ELSE FixBlock(h[k - 1], ids(k))
    <3> SUFFICES ASSUME NEW k \in 0..N
                 PROVE h[k] = IF k = 0 THEN s ELSE FixBlock(h[k - 1], ids(k))
      OBVIOUS
    <3>1. CASE k = 0
      BY <1>7, <3>1 DEF Unrolls
    <3>2. CASE k # 0
      <4>1. k \in 1..N /\ h[k - 1] \in V
        BY <1>7, <1>8, <3>2
      <4>2. h[k] = turn[k][h[k - 1]]
        BY <1>7, <4>1 DEF Unrolls
      <4> QED BY <1>5, <3>2, <4>1, <4>2
    <3> QED BY <3>1, <3>2
  <2> QED BY <2>1
<1>10. Is(g)
  <2> HIDE DEF Is
  <2> QED BY <1>9
<1> HIDE DEF g
<1>11. g[0] = s /\ \A k \in 1..N : g[k] = FixBlock(g[k - 1], ids(k))
  BY <1>1, <1>8, <1>10
<1>12. t \in V
  <2> DEFINE G == {k \in 0..N : g[k] \in V}
  <2>1. 0 \in G
    BY <1>1, <1>4, <1>11
  <2>2. ASSUME NEW k \in 1..N, k - 1 \in G PROVE k \in G
    <3>1. k \in 0..N
      BY <1>1
    <3> QED BY <1>2, <1>11, <2>2, <3>1
  <2> HIDE DEF G
  <2>3. 0..N \subseteq G
    BY <1>1, <2>1, <2>2, SetInductionUpTo
  <2>4. N \in 0..N
    BY <1>1
  <2> QED BY <2>3, <2>4 DEF G
<1> HIDE DEF t
<1>13. u \in V
  BY <1>1, <1>12, FixBranchFixes DEF V
<1> HIDE DEF u
<1>14. v \in V
  <2> DEFINE x == u.instr[last]
             y == [kind |-> "plain", origin |-> x.origin, strand |-> x.strand,
                   address |-> x.address, label |-> x.label, target |-> NoTarget]
  <2>1. last \in 1..n /\ u \in States(n, bs, f) /\ u.instr \in [1..n -> InstrT(n)] /\ Lows(u)
    BY <1>1, <1>13 DEF V, Fixes, States
  <2>2. x \in InstrT(n)
    BY <2>1
  <2>3. v = [u EXCEPT !.instr[last] = y]
    <3>1. v = [u EXCEPT !.instr = [[u.instr EXCEPT ![last] = [u.instr[last] EXCEPT !.kind = "plain"]]
                                    EXCEPT ![last] = [@ EXCEPT !.target = NoTarget]]]
      BY <2>1 DEF States
    <3>2. [[u.instr EXCEPT ![last] = [u.instr[last] EXCEPT !.kind = "plain"]]
                                    EXCEPT ![last] = [@ EXCEPT !.target = NoTarget]]
          = [u.instr EXCEPT ![last] = [[x EXCEPT !.kind = "plain"] EXCEPT !.target = NoTarget]]
      BY <2>1
    <3>3. [[x EXCEPT !.kind = "plain"] EXCEPT !.target = NoTarget] = y
      <4>1. [[x EXCEPT !.kind = "plain"] EXCEPT !.target = NoTarget] =
              Fields("plain", x.origin, x.strand, x.address, x.label, NoTarget)
        <5>1. Reaim(Rekind(x, "plain"), NoTarget) =
                Fields("plain", x.origin, x.strand, x.address, x.label, NoTarget)
          BY <2>2, FieldsFixed
        <5> QED BY <5>1 DEF Rekind, Readdress, Reaim
      <4> QED BY <4>1 DEF Fields
    <3> QED BY <3>1, <3>2, <3>3
  <2>4. NoTarget \in Targets(n) /\ NoTarget.by = "none"
    BY TargetTypes
  <2>5. y \in InstrT(n)
    <3>1. "plain" \in Kinds
      BY DEF Kinds
    <3> QED BY <2>2, <2>4, <3>1 DEF InstrT
  <2>6. \A p \in DOMAIN Text(s) : Text(s)[p] = last => Suits(y, p)
    <3>1. Text(u) = Text(s)
      BY <2>1, SameText
    <3>2. \A p \in DOMAIN Text(s) : Text(s)[p] = last => x.address <= p - 1
      BY <2>1, <3>1 DEF Lows, Suits
    <3> QED BY <2>4, <3>2 DEF Suits
  <2>7. y.label = u.instr[last].label /\ y.target.by # "label"
    BY <2>4
  <2> HIDE DEF y, v
  <2> QED BY <1>1, <1>13, <2>3, <2>5, <2>6, <2>7, ReplacedFixes DEF V
<1> QED BY <1>3, <1>12, <1>14 DEF V

\* Where labels are resolved every instruction has an address, so that no
\* offset leads before the first instruction.
LEMMA ResolvedFixes ==
  ASSUME NEW n \in Nat, NEW bs, NEW f, NEW s \in States(n, bs, f), Shows(s, n),
         Lows(s), Addressed(s)
  PROVE  Resolved(s) \in Fixes(s, n, bs, f)
<1> DEFINE symbolic == {i \in ToSet(Text(s)) : s.instr[i].target.by = "label"}
           known(t) == t.to # 0 \/ t.label \in Labels(s)
           goal(t) == IF t.to # 0 THEN s.instr[t.to].address
                      ELSE s.instr[Holder(s, t.label)].address + t.disp
           to(i) == Target("offset", NoLabel, goal(s.instr[i].target) - s.instr[i].address, 0)
           instr == [i \in DOMAIN s.instr |->
                       IF i \notin symbolic THEN s.instr[i]
                       ELSE [s.instr[i] EXCEPT !.target = to(i)]]
           r == Resolved(s)
<1>1. /\ s.instr \in [1..n -> InstrT(n)] /\ DOMAIN s.instr = 1..n
      /\ \A i \in 1..n : s.instr[i].address \in Nat
  BY DEF States, InstrT, Addressed
<1>2. /\ ToSet(Text(s)) \subseteq 1..n /\ DOMAIN Text(s) = 1..Len(Text(s))
      /\ Len(Text(s)) \in Nat /\ \A p \in 1..Len(Text(s)) : Text(s)[p] \in 1..n
  BY TextSeq
<1>3. OthersAddressed(s)
  BY DEF Addressed, OthersAddressed
<1>4. CASE ~UniqueLabels(s) \/ \E i \in symbolic : ~known(s.instr[i].target)
  <2>1. r = [s EXCEPT !.ok = FALSE]
    BY <1>4 DEF Resolved
  <2> HIDE DEF r
  <2>2. /\ r \in States(n, bs, f) /\ r.instr = s.instr
        /\ r.blocks = s.blocks /\ r.fini = s.fini
    BY <2>1 DEF States
  <2>3. Body(r) = Body(s) /\ Text(r) = Text(s)
    BY <2>2 DEF Body, Text
  <2>4. Lows(r) /\ OthersAddressed(r)
    BY <1>3, <2>2, <2>3 DEF Lows, OthersAddressed
  <2>5. Agreed(s) => Agreed(r)
    BY <2>2, <2>3 DEF Agreed, AgreesAt, Excepted
  <2>6. r \in Fixes(s, n, bs, f)
    BY <2>2, <2>4, <2>5 DEF Fixes
  <2> QED BY <2>6 DEF r
<1>5. CASE UniqueLabels(s) /\ \A i \in symbolic : known(s.instr[i].target)
  <2>1. r = [s EXCEPT !.instr = instr]
    BY <1>5 DEF Resolved
  <2> HIDE DEF r
  <2>2. ASSUME NEW i \in symbolic
        PROVE  /\ to(i) \in Targets(n) /\ to(i).by = "offset"
               /\ to(i).disp + s.instr[i].address \in Nat
    <3> DEFINE t == s.instr[i].target
    <3>1. i \in 1..n /\ t \in Targets(n) /\ t.by = "label" /\ t.disp \in Nat /\ t.to \in 0..n
      BY <1>1, <1>2 DEF InstrT, Targets
    <3>2. goal(t) \in Nat
      <4>1. CASE t.to # 0
        BY <1>1, <3>1, <4>1
      <4>2. CASE t.to = 0
        <5>1. t.label \in Labels(s)
          BY <1>5, <4>2
        <5>2. \E j \in DOMAIN s.instr : s.instr[j].label = t.label
          BY <1>1, <1>2, <5>1 DEF Labels
        <5>3. Holder(s, t.label) \in 1..n
          BY <1>1, <5>2 DEF Holder
        <5>4. s.instr[Holder(s, t.label)].address \in Nat
          BY <1>1, <5>3
        <5> QED BY <3>1, <4>2, <5>4
      <4> QED BY <4>1, <4>2
    <3> DEFINE d == goal(t) - s.instr[i].address
    <3> HIDE DEF goal, symbolic
    <3>3. d \in Int /\ d + s.instr[i].address \in Nat
      BY <1>1, <3>1, <3>2
    <3>4. to(i) = Target("offset", NoLabel, d, 0) /\ to(i).disp = d /\ to(i).by = "offset"
      BY DEF Target
    <3>5. NoLabel \in LabelT
      BY LabelTypes
    <3> HIDE DEF d, to
    <3>6. Target("offset", NoLabel, d, 0) \in Targets(n)
      BY <3>3, <3>5, TargetTypes
    <3> QED BY <3>3, <3>4, <3>6
  <2> HIDE DEF to
  <2>3. \A i \in 1..n : instr[i] = IF i \notin symbolic THEN s.instr[i]
                                   ELSE [s.instr[i] EXCEPT !.target = to(i)]
    BY <1>1
  <2>4. \A i \in symbolic : i \in 1..n /\ [s.instr[i] EXCEPT !.target = to(i)] \in InstrT(n)
    <3> SUFFICES ASSUME NEW i \in symbolic
                 PROVE  i \in 1..n /\ [s.instr[i] EXCEPT !.target = to(i)] \in InstrT(n)
      OBVIOUS
    <3>1. i \in 1..n /\ s.instr[i] \in InstrT(n)
      BY <1>1, <1>2
    <3>2. to(i) \in Targets(n)
      BY <2>2
    <3> HIDE DEF symbolic
    <3> QED BY <3>1, <3>2 DEF InstrT
  <2>5. /\ instr \in [1..n -> InstrT(n)] /\ DOMAIN instr = 1..n
    <3>1. \A i \in 1..n : instr[i] \in InstrT(n)
      <4> HIDE DEF instr, symbolic
      <4> QED BY <1>1, <2>3, <2>4
    <3>2. instr = [i \in 1..n |-> instr[i]]
      BY <1>1
    <3> HIDE DEF instr
    <3> QED BY <3>1, <3>2
  <2>6. \A i \in 1..n : /\ instr[i].label = s.instr[i].label
                        /\ instr[i].address = s.instr[i].address
                        /\ i \notin symbolic => instr[i].target = s.instr[i].target
                        /\ i \in symbolic => instr[i].target = to(i)
    <3> SUFFICES ASSUME NEW i \in 1..n
                 PROVE  /\ instr[i].label = s.instr[i].label
                        /\ instr[i].address = s.instr[i].address
                        /\ i \notin symbolic => instr[i].target = s.instr[i].target
                        /\ i \in symbolic => instr[i].target = to(i)
      OBVIOUS
    <3>1. s.instr[i] \in InstrT(n)
      BY <1>1
    <3> HIDE DEF instr, symbolic
    <3> QED BY <2>3, <3>1 DEF InstrT
  <2> HIDE DEF instr, symbolic
  <2>7. r \in States(n, bs, f) /\ r.instr = instr
    BY <2>1, <2>5 DEF States
  <2>8. /\ Text(r) = Text(s) /\ DOMAIN r.instr = 1..n
        /\ \A i : Excepted(r, i) = Excepted(s, i)
    BY <2>7, SameText
  <2>9. Lows(r)
    <3> SUFFICES ASSUME NEW p \in 1..Len(Text(s)) PROVE Suits(r.instr[Text(s)[p]], p)
      BY <1>2, <2>8 DEF Lows
    <3> DEFINE i == Text(s)[p]
    <3>1. i \in 1..n /\ Suits(s.instr[i], p)
      BY <1>2 DEF Lows
    <3> HIDE DEF i
    <3>2. /\ r.instr[i].address = s.instr[i].address /\ s.instr[i].address \in Nat
          /\ s.instr[i].address <= p - 1 /\ p \in Nat
      BY <1>1, <1>2, <2>6, <2>7, <3>1 DEF Suits
    <3>3. CASE i \notin symbolic
      <4>1. r.instr[i].target = s.instr[i].target
        BY <2>6, <2>7, <3>1, <3>3
      <4> QED BY <3>1, <3>2, <4>1 DEF Suits, i
    <3>4. CASE i \in symbolic
      <4>1. to(i) \in Targets(n) /\ to(i).disp + s.instr[i].address \in Nat
        BY <2>2, <3>4
      <4>2. to(i).disp \in Int
        BY <4>1 DEF Targets
      <4>3. p + to(i).disp >= 1
        BY <3>2, <4>1, <4>2
      <4>4. r.instr[i].target = to(i)
        BY <2>6, <2>7, <3>1, <3>4
      <4>5. r.instr[i].address <= p - 1
        BY <3>2
      <4> QED BY <4>3, <4>4, <4>5 DEF Suits, i
    <3> QED BY <3>3, <3>4 DEF i
  <2>10. OthersAddressed(r)
    BY <1>1, <2>6, <2>7, <2>8 DEF OthersAddressed, None
  <2>11. ASSUME Agreed(s) PROVE Agreed(r)
    <3>1. \A i \in 1..n : s.instr[i].target.to \in 0..n
      BY <1>1 DEF InstrT, Targets
    <3>2. \A i \in symbolic : AgreesAt(r, i)
      BY <2>2, <2>4, <2>6, <2>7 DEF AgreesAt
    <3>3. \A i \in 1..n : i \notin symbolic /\ AgreesAt(s, i) => AgreesAt(r, i)
      BY <2>6, <2>7, <3>1 DEF AgreesAt
    <3> QED BY <1>1, <2>8, <2>11, <3>2, <3>3 DEF Agreed
  <2>12. r \in Fixes(s, n, bs, f)
    BY <2>7, <2>9, <2>10, <2>11 DEF Fixes
  <2> QED BY <2>12 DEF r
<1> QED BY <1>4, <1>5
-----------------------------------------------------------------------------
(* Insertion into a block that knows where its instructions are.           *)

\* A block whose dictionary knows where its instructions are, all of them of a
\* given set.
Known(b, own) ==
    /\ b = [slot |-> b.slot, pointer |-> b.pointer, index |-> b.index]
    /\ b.pointer \in Nat
    /\ DOMAIN b.slot \in SUBSET Nat /\ IsFiniteSet(DOMAIN b.slot)
    /\ b.slot \in [DOMAIN b.slot -> own]
    /\ DOMAIN b.index \subseteq own /\ b.index \in [DOMAIN b.index -> Nat]
    /\ \A p \in DOMAIN b.slot :
         b.slot[p] \in DOMAIN b.index /\ b.index[b.slot[p]] = p

\* An ascending list of numbers ascends by one at least.
LEMMA AscendingGrows ==
  ASSUME NEW N \in Nat, NEW c \in Nat, NEW g, \A i \in 1..N : g[i] \in Nat /\ g[i] >= c,
         \A i, j \in 1..N : i < j => g[i] < g[j]
  PROVE  \A i \in 1..N : g[i] >= c + i - 1
<1> DEFINE G == {i \in 0..N : i = 0 \/ g[i] >= c + i - 1}
<1>1. 0 \in G
  OBVIOUS
<1>2. ASSUME NEW i \in 1..N, i - 1 \in G PROVE i \in G
  <2>1. CASE i = 1
    BY <2>1
  <2>2. CASE i # 1
    <3>1. i - 1 \in 1..N /\ i - 1 < i
      BY <2>2
    <3>2. g[i - 1] >= c + (i - 1) - 1 /\ g[i - 1] < g[i] /\ g[i] \in Nat /\ g[i - 1] \in Nat
      BY <1>2, <3>1
    <3> QED BY <3>2
  <2> QED BY <2>1, <2>2
<1> HIDE DEF G
<1>3. 0..N \subseteq G
  BY <1>1, <1>2, SetInductionUpTo
<1> QED BY <1>3 DEF G

\* What a known block shows: each of its visible instructions once, in the
\* order of their positions.
LEMMA KnownShows ==
  ASSUME NEW b, NEW own, Known(b, own)
  PROVE  \E V \in Nat : \E f :
           /\ Ascends(f, V, Live(b)) /\ Live(b) \in SUBSET Nat
           /\ Instrs(b) = [q \in 1..V |-> b.slot[f[q]]]
           /\ Len(Instrs(b)) = V /\ Instrs(b) \in Seq(own)
           /\ \A q \in 1..V : Instrs(b)[q] = b.slot[f[q]] /\ f[q] \in Live(b) /\ f[q] >= q - 1
           /\ \A i, j \in 1..V : Instrs(b)[i] = Instrs(b)[j] => i = j
<1> DEFINE S == Live(b)
           V == Cardinality(S)
           f == [n \in 1..V |-> At(S, n)]
<1>1. S \in SUBSET DOMAIN b.slot /\ S \in SUBSET Nat /\ IsFiniteSet(S)
  <2>1. S \in SUBSET DOMAIN b.slot
    BY DEF Live
  <2>2. DOMAIN b.slot \in SUBSET Nat /\ IsFiniteSet(DOMAIN b.slot)
    BY DEF Known
  <2> HIDE DEF S
  <2> QED BY <2>1, <2>2, FS_Subset
<1>2. V \in Nat /\ Ascends(f, V, S)
  <2> HIDE DEF S
  <2> QED BY <1>1, AtAscends
<1>3. Instrs(b) = [q \in 1..V |-> b.slot[f[q]]]
  <2> HIDE DEF f, V
  <2>1. Live(b) \in SUBSET Nat
    BY <1>1
  <2> QED BY <1>2, <2>1, ShownBy
<1> HIDE DEF f, V
<1>4. /\ \A q \in 1..V : f[q] \in S /\ f[q] \in Nat /\ b.slot[f[q]] \in own
      /\ \A i, j \in 1..V : i < j => f[i] < f[j]
  <2>1. \A q \in 1..V : f[q] \in S
    BY <1>2 DEF Ascends
  <2>2. \A p \in S : p \in Nat /\ b.slot[p] \in own
    BY <1>1 DEF Known
  <2>3. \A i, j \in 1..V : i < j => f[i] < f[j]
    BY <1>2 DEF Ascends
  <2> QED BY <2>1, <2>2, <2>3
<1> HIDE DEF S
<1>5. \A q \in 1..V : f[q] >= q - 1
  <2>1. \A q \in 1..V : f[q] \in Nat /\ f[q] >= 0
    BY <1>4
  <2>2. \A q \in 1..V : f[q] >= 0 + q - 1
    <3>1. \A i, j \in 1..V : i < j => f[i] < f[j]
      BY <1>4
    <3>2. 0 \in Nat
      OBVIOUS
    <3> QED BY <1>2, <2>1, <3>1, <3>2, AscendingGrows
  <2> QED BY <2>2
<1>6. Instrs(b) \in Seq(own) /\ Len(Instrs(b)) = V
  BY <1>2, <1>3, <1>4
<1>7. \A q \in 1..V : Instrs(b)[q] = b.slot[f[q]]
  BY <1>3
<1>8. \A i, j \in 1..V : Instrs(b)[i] = Instrs(b)[j] => i = j
  <2> SUFFICES ASSUME NEW i \in 1..V, NEW j \in 1..V, b.slot[f[i]] = b.slot[f[j]]
               PROVE  i = j
    BY <1>7
  <2>1. \A p, q \in S : b.slot[p] = b.slot[q] => p = q
    BY <1>1 DEF Known
  <2>2. f[i] = f[j]
    BY <1>4, <2>1
  <2>3. ~(i < j) /\ ~(j < i) /\ i \in Nat /\ j \in Nat
    BY <1>2, <1>4, <2>2
  <2> QED BY <2>3
<1> QED BY <1>1, <1>2, <1>3, <1>4, <1>5, <1>6, <1>7, <1>8 DEF S

\* m tells where the positions of b are in c: in the same order, and visible
\* if they were. What else c shows is new, and behind position p0.
Moved(b, c, new, p0, m) ==
    /\ m \in [DOMAIN b.slot -> DOMAIN c.slot]
    /\ \A p, q \in DOMAIN b.slot : p < q => m[p] < m[q]
    /\ \A p \in DOMAIN b.slot : c.slot[m[p]] = b.slot[p]
    /\ \A p \in DOMAIN b.slot : m[p] \in Live(c) <=> p \in Live(b)
    /\ \A q \in DOMAIN c.slot :
         \/ \E p \in DOMAIN b.slot : q = m[p]
         \/ c.slot[q] \in Elems(new) /\ q > m[p0]

\* The methods of a block that insert where there is room, and that make room.
LEMMA PlaceMoves ==
  ASSUME NEW b, NEW own, Known(b, own), NEW k \in Nat \ {0}, NEW new, Len(new) = k,
         \A j \in 1..k : new[j] \notin own,
         \A i, j \in 1..k : new[i] = new[j] => i = j,
         NEW p0 \in DOMAIN b.slot, WindowFree(b, p0 + 1, k)
  PROVE  LET c == Place(b, new, p0 + 1)
         IN  Known(c, own \cup Elems(new)) /\ \E m : Moved(b, c, new, p0, m)
<1> DEFINE at == p0 + 1
           window == at..(at + Len(new) - 1)
           D == DOMAIN b.slot
           slot == [p \in D \cup window |->
                      IF p \in window THEN new[p - at + 1] ELSE b.slot[p]]
           index == [i \in DOMAIN b.index \cup Elems(new) |->
                      IF i \in DOMAIN b.index THEN b.index[i]
                      ELSE at - 1 + CHOOSE j \in 1..Len(new) : new[j] = i]
           c == Place(b, new, at)
           m == [p \in D |-> p]
<1>1. /\ b = [slot |-> b.slot, pointer |-> b.pointer, index |-> b.index]
      /\ b.pointer \in Nat /\ D \in SUBSET Nat /\ IsFiniteSet(D)
      /\ \A p \in D : b.slot[p] \in own /\ b.slot[p] \in DOMAIN b.index /\ b.index[b.slot[p]] = p
      /\ DOMAIN b.index \subseteq own /\ \A i \in DOMAIN b.index : b.index[i] \in Nat
  BY DEF Known
<1>2. c = [slot |-> slot, pointer |-> b.pointer, index |-> index]
  <2>1. c = [b EXCEPT !.slot = slot, !.index = index]
    BY DEF Place
  <2> HIDE DEF slot, index, c
  <2> QED BY <1>1, <2>1
<1>3. window = at..(at + k - 1) /\ window \cap D = {} /\ at \in Nat /\ p0 \in Nat
  BY <1>1 DEF WindowFree
<1>4. IsFiniteSet(window) /\ window \in SUBSET Nat
  <2>1. at \in Int /\ at + k - 1 \in Int
    BY <1>3
  <2>2. IsFiniteSet(at..(at + k - 1))
    BY <2>1, FS_Interval
  <2>3. at..(at + k - 1) \in SUBSET Nat
    BY <1>3
  <2> QED BY <1>3, <2>2, <2>3
<1>e. Elems(new) = {new[j] : j \in 1..k} /\ \A i \in Elems(new) : i \notin own
  BY DEF Elems
<1>5. \A p \in window : p - at + 1 \in 1..k
  BY <1>3
<1>6. \A j \in 1..k : (CHOOSE i \in 1..Len(new) : new[i] = new[j]) = j
  OBVIOUS
<1>7. \A j \in 1..k : new[j] \in DOMAIN index /\ index[new[j]] = at - 1 + j
  <2>1. \A j \in 1..k : new[j] \in Elems(new) /\ new[j] \notin DOMAIN b.index
    BY <1>1, <1>e
  <2> QED BY <1>6, <2>1
<1>8. \A i \in DOMAIN b.index : i \in DOMAIN index /\ index[i] = b.index[i]
  OBVIOUS
<1>9. /\ DOMAIN index = DOMAIN b.index \cup Elems(new) /\ DOMAIN slot = D \cup window
      /\ \A p \in window : slot[p] = new[p - at + 1]
      /\ \A p \in D : slot[p] = b.slot[p] /\ p \notin window
  BY <1>3
<1> HIDE DEF slot, index, c, window, at, D
<1>10. \A i \in DOMAIN index : index[i] \in Nat
  <2>1. \A j \in 1..k : at - 1 + j \in Nat
    BY <1>3
  <2> QED BY <1>1, <1>7, <1>8, <1>9, <1>e, <2>1
<1>11. \A p \in DOMAIN slot :
         /\ slot[p] \in own \cup Elems(new)
         /\ slot[p] \in DOMAIN index /\ index[slot[p]] = p
  <2> SUFFICES ASSUME NEW p \in DOMAIN slot
               PROVE  /\ slot[p] \in own \cup Elems(new)
                      /\ slot[p] \in DOMAIN index /\ index[slot[p]] = p
    OBVIOUS
  <2>1. CASE p \in D
    BY <1>1, <1>8, <1>9, <2>1
  <2>2. CASE p \in window
    <3> DEFINE j == p - at + 1
    <3>1. j \in 1..k /\ slot[p] = new[j] /\ at - 1 + j = p
      <4>1. p \in Nat /\ at \in Nat
        BY <1>3, <1>4, <2>2
      <4> QED BY <1>5, <1>9, <2>2, <4>1
    <3> HIDE DEF j
    <3> QED BY <1>7, <1>e, <3>1
  <2> QED BY <1>9, <2>1, <2>2
<1>12. DOMAIN slot \in SUBSET Nat /\ IsFiniteSet(DOMAIN slot)
  <2>1. IsFiniteSet(D \cup window)
    BY <1>1, <1>4, FS_Union
  <2> QED BY <1>1, <1>4, <1>9, <2>1
<1>f. /\ slot = [p \in DOMAIN slot |-> slot[p]] /\ index = [i \in DOMAIN index |-> index[i]]
  BY DEF slot, index
<1>13. Known(c, own \cup Elems(new))
  <2>1. slot \in [DOMAIN slot -> own \cup Elems(new)] /\ index \in [DOMAIN index -> Nat]
    BY <1>10, <1>11, <1>f
  <2>2. DOMAIN index \subseteq own \cup Elems(new)
    BY <1>1, <1>9
  <2> QED BY <1>1, <1>2, <1>11, <1>12, <2>1, <2>2 DEF Known
<1>14. Moved(b, c, new, p0, m)
  <2>1. c.slot = slot /\ c.pointer = b.pointer
    BY <1>2
  <2>2. m \in [D -> DOMAIN slot] /\ \A p \in D : m[p] = p
    BY <1>9
  <2>3. \A p \in D : m[p] \in Live(c) <=> p \in Live(b)
    BY <1>9, <2>1, <2>2 DEF Live, D
  <2>4. \A q \in window : slot[q] \in Elems(new) /\ q > p0
    <3>1. \A q \in window : q > p0
      BY <1>3 DEF at
    <3>2. \A q \in window : slot[q] \in Elems(new)
      BY <1>5, <1>9, <1>e
    <3> QED BY <3>1, <3>2
  <2>5. p0 \in D
    BY DEF D
  <2> HIDE DEF m
  <2> QED BY <1>9, <2>1, <2>2, <2>3, <2>4, <2>5 DEF Moved, D
<1> QED BY <1>13, <1>14 DEF c, at

\* With as many positions before it as there are new instructions, no
\* instruction is replaced where room is made.
LEMMA SpliceMoves ==
  ASSUME NEW b, NEW own, Known(b, own), NEW k \in Nat \ {0}, NEW new, Len(new) = k,
         \A j \in 1..k : new[j] \notin own,
         \A i, j \in 1..k : new[i] = new[j] => i = j,
         NEW p0 \in DOMAIN b.slot, p0 + 1 >= k, p0 < b.pointer
  PROVE  LET c == Splice(b, new, p0 + 1)
         IN  Known(c, own \cup Elems(new)) /\ \E m : Moved(b, c, new, p0, m)
<1> DEFINE at == p0 + 1
           window == at..(at + k - 1)
           D == DOMAIN b.slot
           mv(p) == IF p < at THEN p ELSE p + k
           E == {mv(p) : p \in D} \cup window
           slot == [q \in E |-> IF q \in window THEN new[q - at + 1]
                                ELSE b.slot[IF q < at THEN q ELSE q - k]]
           c == Splice(b, new, at)
           m == [p \in D |-> mv(p)]
<1>1. /\ b.pointer \in Nat /\ D \in SUBSET Nat /\ IsFiniteSet(D)
      /\ \A p \in D : b.slot[p] \in own /\ b.slot[p] \in DOMAIN b.index /\ b.index[b.slot[p]] = p
      /\ DOMAIN b.index \subseteq own
  BY DEF Known
<1>2. at \in Nat /\ at >= k /\ p0 \in Nat /\ at <= b.pointer
  BY <1>1
<1>3. Shifted(b.slot, new, at) = slot
  <2> DEFINE hole == IF at < k THEN k - at ELSE 0
             rest == {p \in D : p < at \/ p >= at + hole}
             moved(p) == IF p < at THEN p ELSE p + k - hole
             came(q) == IF q < at THEN q ELSE q - k + hole
             F == {moved(p) : p \in rest} \cup window
  <2>1. Shifted(b.slot, new, at) =
          [q \in F |-> IF q \in window THEN new[q - at + 1] ELSE b.slot[came(q)]]
    BY DEF Shifted
  <2>2. hole = 0
    BY <1>2
  <2>3. rest = D
    <3> HIDE DEF hole
    <3>1. \A p \in D : p < at \/ p >= at + hole
      BY <1>1, <1>2, <2>2
    <3> QED BY <3>1
  <2>4. \A p \in D : moved(p) = mv(p)
    <3> HIDE DEF hole, D
    <3> QED BY <1>1, <2>2
  <2>5. F = E
    <3> HIDE DEF rest, moved, mv, window
    <3> QED BY <2>3, <2>4
  <2>6. \A q \in E : q \in Int
    BY <1>1, <1>2
  <2>7. \A q \in E : came(q) = IF q < at THEN q ELSE q - k
    <3> HIDE DEF hole, E
    <3> QED BY <2>2, <2>6, <1>2
  <2> HIDE DEF F, E, came, window, hole, rest, moved, mv
  <2> QED BY <2>1, <2>5, <2>7
<1>4. c = [slot |-> slot, pointer |-> b.pointer + k, index |-> IndexOfSlots(slot)]
  BY <1>3 DEF Splice
<1>5. \A p, q \in D : p < q => mv(p) < mv(q)
  BY <1>1, <1>2
<1>6. \A p \in D : /\ mv(p) \in E /\ mv(p) \notin window /\ mv(p) \in Nat
                   /\ mv(p) < at <=> p < at
                   /\ mv(p) = IF p < at THEN p ELSE p + k
                   /\ ~(p < at) => mv(p) - k = p
  BY <1>1, <1>2
<1>7. \A q \in E : q \in window \/ \E p \in D : q = mv(p)
  OBVIOUS
<1>e. Elems(new) = {new[j] : j \in 1..k} /\ \A i \in Elems(new) : i \notin own
  BY DEF Elems
<1>8. \A q \in window : q \in E /\ q - at + 1 \in 1..k /\ q \in Nat /\ q > p0
                        /\ slot[q] = new[q - at + 1]
  BY <1>2
<1> HIDE DEF E
<1>9. \A p \in D : slot[mv(p)] = b.slot[p]
  <2> SUFFICES ASSUME NEW p \in D PROVE slot[mv(p)] = b.slot[p]
    OBVIOUS
  <2> DEFINE q == mv(p)
  <2>1. q \in E /\ q \notin window /\ (q < at <=> p < at) /\ (p < at => q = p)
        /\ (~(p < at) => q - k = p)
    BY <1>6
  <2> HIDE DEF q, mv, window, at, D
  <2>2. slot[q] = b.slot[IF q < at THEN q ELSE q - k]
    BY <2>1
  <2> QED BY <2>1, <2>2 DEF q
<1>10. E \in SUBSET Nat /\ IsFiniteSet(E)
  <2>1. IsFiniteSet(window)
    <3>1. at \in Int /\ at + k - 1 \in Int
      BY <1>2
    <3> QED BY <3>1, FS_Interval
  <2>2. IsFiniteSet({mv(p) : p \in D})
    <3> DEFINE T == {mv(p) : p \in D}
    <3> HIDE DEF mv, D
    <3>1. m \in [D -> T] /\ \A y \in T : \E p \in D : m[p] = y
      OBVIOUS
    <3> HIDE DEF m, T
    <3>2. m \in Surjection(D, T)
      BY <3>1 DEF Surjection
    <3>3. IsFiniteSet(T)
      BY <1>1, <3>2, FS_Surjection
    <3> QED BY <3>3 DEF T
  <2>3. IsFiniteSet({mv(p) : p \in D} \cup window)
    <3> HIDE DEF mv, D, window
    <3> QED BY <2>1, <2>2, FS_Union
  <2>4. \A q \in E : q \in Nat
    BY <1>6, <1>7, <1>8
  <2> QED BY <2>3, <2>4 DEF E
<1>11. DOMAIN slot = E
  OBVIOUS
<1> HIDE DEF slot, c, window, mv, D
<1>12. \A q \in E : slot[q] \in own \cup Elems(new)
  BY <1>1, <1>7, <1>8, <1>9, <1>e
<1>13. \A p, q \in E : slot[p] = slot[q] => p = q
  <2> SUFFICES ASSUME NEW p \in E, NEW q \in E, slot[p] = slot[q] PROVE p = q
    OBVIOUS
  <2>1. CASE p \in window /\ q \in window
    <3>1. new[p - at + 1] = new[q - at + 1]
      BY <1>8, <2>1
    <3>2. p - at + 1 = q - at + 1
      BY <1>8, <2>1, <3>1
    <3>3. p \in Nat /\ q \in Nat /\ at \in Nat
      BY <1>2, <1>8, <2>1
    <3> HIDE DEF at
    <3> QED BY <3>2, <3>3
  <2>2. CASE p \in window /\ q \notin window
    <3>1. slot[p] \in Elems(new)
      BY <1>8, <1>e, <2>2
    <3>2. slot[q] \in own
      BY <1>1, <1>7, <1>9, <2>2
    <3> QED BY <1>e, <3>1, <3>2
  <2>3. CASE p \notin window /\ q \in window
    <3>1. slot[q] \in Elems(new)
      BY <1>8, <1>e, <2>3
    <3>2. slot[p] \in own
      BY <1>1, <1>7, <1>9, <2>3
    <3> QED BY <1>e, <3>1, <3>2
  <2>4. CASE p \notin window /\ q \notin window
    <3>1. PICK x \in D, y \in D : p = mv(x) /\ q = mv(y)
      BY <1>7, <2>4
    <3>2. b.slot[x] = b.slot[y]
      BY <1>9, <3>1
    <3>3. x = y
      BY <1>1, <3>2
    <3> QED BY <3>1, <3>3
  <2> QED BY <2>1, <2>2, <2>3, <2>4
<1> DEFINE index == IndexOfSlots(slot)
<1>14. /\ DOMAIN index = {slot[q] : q \in E}
       /\ \A q \in E : slot[q] \in DOMAIN index /\ index[slot[q]] = q
       /\ index = [i \in DOMAIN index |-> index[i]]
  <2>1. index = [i \in {slot[p] : p \in E} |-> CHOOSE p \in E : slot[p] = i]
    BY <1>11 DEF IndexOfSlots
  <2> HIDE DEF index
  <2>2. \A q \in E : (CHOOSE p \in E : slot[p] = slot[q]) = q
    BY <1>13
  <2> QED BY <2>1, <2>2
<1> HIDE DEF index
<1>15. \A i \in DOMAIN index : index[i] \in Nat
  BY <1>10, <1>14
<1>f. slot = [q \in DOMAIN slot |-> slot[q]]
  BY DEF slot
<1>16. Known(c, own \cup Elems(new))
  <2>1. slot \in [E -> own \cup Elems(new)]
    BY <1>11, <1>12, <1>f
  <2>2. index \in [DOMAIN index -> Nat] /\ DOMAIN index \subseteq own \cup Elems(new)
    BY <1>12, <1>14, <1>15
  <2>3. c = [slot |-> slot, pointer |-> b.pointer + k, index |-> index]
    BY <1>4 DEF index
  <2> HIDE DEF E
  <2>4. c.slot = slot /\ c.pointer = b.pointer + k /\ c.index = index
        /\ c = [slot |-> c.slot, pointer |-> c.pointer, index |-> c.index]
    BY <2>3
  <2>5. c.pointer \in Nat
    BY <1>1, <2>4
  <2> QED BY <1>10, <1>11, <1>14, <2>1, <2>2, <2>4, <2>5 DEF Known
<1>17. Moved(b, c, new, p0, m)
  <2>1. c.slot = slot /\ c.pointer = b.pointer + k
    BY <1>4
  <2>2. m \in [D -> E] /\ \A p \in D : m[p] = mv(p)
    BY <1>6
  <2> HIDE DEF m
  <2>3. \A p \in D : m[p] \in Live(c) <=> p \in Live(b)
    <3> SUFFICES ASSUME NEW p \in D PROVE m[p] \in Live(c) <=> p \in Live(b)
      OBVIOUS
    <3>1. m[p] = (IF p < at THEN p ELSE p + k) /\ m[p] \in E /\ p \in Nat
      BY <1>1, <1>6, <2>2
    <3>2. m[p] < b.pointer + k <=> p < b.pointer
      BY <1>1, <1>2, <3>1
    <3>3. p \in DOMAIN b.slot
      BY DEF D
    <3> QED BY <1>11, <2>1, <3>1, <3>2, <3>3 DEF Live
  <2>4. \A q \in window : slot[q] \in Elems(new)
    BY <1>8, <1>e
  <2>5. p0 \in D /\ m[p0] = p0
    <3>1. p0 \in D
      BY DEF D
    <3>2. p0 < at
      BY <1>2
    <3> QED BY <1>6, <2>2, <3>1, <3>2
  <2>6. \A p, q \in D : p < q => m[p] < m[q]
    BY <1>5, <2>2
  <2>7. \A p \in D : c.slot[m[p]] = b.slot[p]
    BY <1>9, <2>1, <2>2
  <2>8. \A q \in E : \/ \E p \in D : q = m[p]
                     \/ c.slot[q] \in Elems(new) /\ q > m[p0]
    BY <1>7, <1>8, <2>1, <2>2, <2>4, <2>5
  <2> QED BY <1>11, <2>1, <2>2, <2>3, <2>6, <2>7, <2>8 DEF Moved, D
<1> QED BY <1>16, <1>17 DEF c, at
-----------------------------------------------------------------------------
(* Sound building blocks, and the passes that add no instruction.          *)

\* What every pass leaves of a building block that it finds so.
Sound(s) ==
    /\ Len(s.instr) \in Nat
    /\ s \in States(Len(s.instr), s.blocks, s.fini)
    /\ Shows(s, Len(s.instr)) /\ OncePlaced(s)
    /\ Lows(s) /\ OthersAddressed(s)

\* What a pass that adds no instruction does to a building block.
Kept(s, t) ==
    /\ Sound(t) /\ Len(t.instr) = Len(s.instr)
    /\ t.blocks = s.blocks /\ t.fini = s.fini
    /\ Agreed(s) => Agreed(t)

\* A state of n instructions has n.
LEMMA StatesSize ==
  ASSUME NEW n \in Nat, NEW bs, NEW f, NEW s \in States(n, bs, f)
  PROVE  Len(s.instr) = n /\ s.blocks = bs /\ s.fini = f
<1>1. s.instr \in [1..n -> InstrT(n)] /\ s.blocks = bs /\ s.fini = f
  BY DEF States
<1>2. \E x : s.instr = x /\ x \in [1..n -> InstrT(n)]
  BY <1>1
<1>3. PICK x : s.instr = x /\ x \in [1..n -> InstrT(n)]
  BY <1>2
<1>4. x \in Seq(InstrT(n)) /\ Len(x) = n
  BY <1>3
<1> QED BY <1>1, <1>3, <1>4

\* The elements before those of block b, and those of b, are among all.
LEMMA PrefixLengths ==
  ASSUME NEW S, NEW ss \in Seq(Seq(S)), NEW b \in 1..Len(ss)
  PROVE  /\ Len(FlattenSeq(SubSeq(ss, 1, b - 1))) \in Nat
         /\ Len(ss[b]) \in Nat
         /\ Len(FlattenSeq(SubSeq(ss, 1, b - 1))) + Len(ss[b]) <= Len(FlattenSeq(ss))
<1> DEFINE N == Len(ss)
<1>1. N \in Nat /\ b \in 1..N /\ N - b \in Nat
  OBVIOUS
<1>2. PICK h : /\ Joins(h, S, ss)
               /\ \A j \in 0..N : FlattenSeq(SubSeq(ss, 1, j)) = h[j]
               /\ FlattenSeq(ss) = h[N]
  BY FlattenPrefixes
<1>3. /\ \A j \in 0..N : h[j] \in Seq(S)
      /\ \A j \in 1..N : h[j] = h[j - 1] \o ss[j]
  BY <1>2 DEF Joins
<1>4. \A j \in 1..N : ss[j] \in Seq(S)
  OBVIOUS
<1>5. \A x \in Seq(S), y \in Seq(S) : Len(x) \in Nat /\ Len(y) \in Nat /\ Len(x \o y) = Len(x) + Len(y)
  OBVIOUS
<1> HIDE DEF N
<1>6. \A j \in 1..N : /\ Len(h[j - 1]) \in Nat /\ Len(ss[j]) \in Nat /\ Len(h[j]) \in Nat
                      /\ Len(h[j]) = Len(h[j - 1]) + Len(ss[j])
  <2> SUFFICES ASSUME NEW j \in 1..N
               PROVE  /\ Len(h[j - 1]) \in Nat /\ Len(ss[j]) \in Nat /\ Len(h[j]) \in Nat
                      /\ Len(h[j]) = Len(h[j - 1]) + Len(ss[j])
    OBVIOUS
  <2>1. h[j - 1] \in Seq(S) /\ ss[j] \in Seq(S) /\ h[j] \in Seq(S)
    BY <1>1, <1>3, <1>4
  <2>2. Len(h[j - 1] \o ss[j]) = Len(h[j - 1]) + Len(ss[j])
    BY <1>5, <2>1
  <2>3. h[j] = h[j - 1] \o ss[j]
    BY <1>3
  <2> QED BY <1>5, <2>1, <2>2, <2>3
<1> DEFINE G == {j \in 0..(N - b) : Len(h[b]) <= Len(h[b + j])}
<1>7. 0 \in G
  BY <1>1, <1>6
<1>8. ASSUME NEW j \in 1..(N - b), j - 1 \in G PROVE j \in G
  <2>1. b + j \in 1..N /\ b + (j - 1) = (b + j) - 1 /\ b \in 1..N
    BY <1>1
  <2>2. Len(h[b]) <= Len(h[b + j - 1]) /\ Len(h[b + j - 1]) <= Len(h[b + j])
    <3>1. Len(h[b]) <= Len(h[b + (j - 1)])
      BY <1>8
    <3>2. Len(h[b]) <= Len(h[b + j - 1])
      BY <2>1, <3>1
    <3>3. \A i \in 1..N : Len(h[i - 1]) <= Len(h[i])
      <4> SUFFICES ASSUME NEW i \in 1..N PROVE Len(h[i - 1]) <= Len(h[i])
        OBVIOUS
      <4>1. /\ Len(h[i - 1]) \in Nat /\ Len(ss[i]) \in Nat /\ Len(h[i]) \in Nat
            /\ Len(h[i]) = Len(h[i - 1]) + Len(ss[i])
        BY <1>6
      <4>2. \A x, y, z \in Nat : z = x + y => x <= z
        OBVIOUS
      <4> QED BY <4>1, <4>2
    <3>4. Len(h[(b + j) - 1]) <= Len(h[b + j])
      BY <2>1, <3>3
    <3> QED BY <3>2, <3>4
  <2>3. Len(h[b]) \in Nat /\ Len(h[b + j - 1]) \in Nat /\ Len(h[b + j]) \in Nat
    BY <1>6, <2>1
  <2> QED BY <2>2, <2>3
<1> HIDE DEF G
<1>9. 0..(N - b) \subseteq G
  BY <1>1, <1>7, <1>8, SetInductionUpTo
<1>10. N - b \in 0..(N - b) /\ b + (N - b) = N
  BY <1>1
<1>11. Len(h[b]) <= Len(h[N])
  BY <1>9, <1>10 DEF G
<1>12. b - 1 \in 0..N
  BY <1>1
<1>13. FlattenSeq(SubSeq(ss, 1, b - 1)) = h[b - 1]
  BY <1>2, <1>12
<1> QED BY <1>1, <1>2, <1>6, <1>11, <1>13

\* The building block the passes begin with.
LEMMA BuiltSound ==
  ASSUME case \in Cases
  PROVE  Sound(Built(case)) /\ Agreed(Built(case)) /\ Len(Built(case).instr) = Size(case)
<1> DEFINE n == Size(case)
           s == Built(case)
<1>1. /\ n \in Nat \ {0} /\ Text(s) = [j \in 1..n |-> j]
      /\ Len(FlattenSeq(case.blocks)) \in 1..n /\ case.fini \in Nat
      /\ n = Len(FlattenSeq(case.blocks)) + case.fini
      /\ Body(s) = [j \in 1..Len(FlattenSeq(case.blocks)) |-> j]
      /\ s.fini = [j \in 1..case.fini |-> Len(FlattenSeq(case.blocks)) + j]
  <2> DEFINE m == Len(FlattenSeq(case.blocks))
  <2>1. /\ m \in Nat \ {0} /\ n = m + case.fini
        /\ Body(s) = [j \in 1..m |-> j]
        /\ s.fini = [j \in 1..case.fini |-> m + j]
        /\ Text(s) = [j \in 1..n |-> j]
    BY BuiltText
  <2>2. case.fini \in Nat
    BY CaseParts
  <2> HIDE DEF m, n, s
  <2>3. n \in Nat \ {0} /\ m \in 1..n
    BY <2>1, <2>2
  <2> QED BY <2>1, <2>2, <2>3 DEF m
<1>2. Program(case) \in Seq(Items) /\ Len(Program(case)) = n
  <2> DEFINE p == FlattenSeq(case.blocks)
             plain == [kind |-> "plain", label |-> 0, aim |-> "none"]
             q == [k \in 1..case.fini |-> plain]
  <2>1. p \in Seq(Items) /\ plain \in Items
    BY CaseParts DEF Items, Kinds
  <2>2. q \in Seq(Items)
    <3>1. case.fini \in Nat
      BY CaseParts
    <3> HIDE DEF plain
    <3> QED BY <2>1, <3>1
  <2>3. Program(case) = p \o q
    BY DEF Program
  <2> HIDE DEF p, q, plain
  <2>4. p \o q \in Seq(Items)
    BY <2>1, <2>2
  <2> QED BY <2>3, <2>4 DEF Size
<1>3. s.instr = [i \in 1..n |-> NewInstruction(Program(case)[i], i)]
  <2>1. DOMAIN Program(case) = 1..n
    BY <1>2
  <2> QED BY <2>1 DEF Built
<1>4. \A i \in 1..n : Program(case)[i] \in Items
  BY <1>2
<1>5. \A item \in Items, i \in 1..n :
        /\ NewInstruction(item, i) \in InstrT(n)
        /\ NewInstruction(item, i).address = None
        /\ NewInstruction(item, i).target.to = 0
        /\ NewInstruction(item, i).target.by # "offset"
  <2> SUFFICES ASSUME NEW item \in Items, NEW i \in 1..n
               PROVE  /\ NewInstruction(item, i) \in InstrT(n)
                      /\ NewInstruction(item, i).address = None
                      /\ NewInstruction(item, i).target.to = 0
                      /\ NewInstruction(item, i).target.by # "offset"
    OBVIOUS
  <2> DEFINE l == IF item.label = 0 THEN NoLabel ELSE Label("user", item.label)
             t == IF item.aim = "label" THEN ToLabel(Label("user", 1), 0)
                  ELSE Target(item.aim, NoLabel, 0, 0)
  <2>1. item.kind \in Kinds /\ item.label \in Nat /\ item.aim \in {"none", "label", "given"}
    BY DEF Items
  <2>2. l \in LabelT
    <3>1. "user" \in Names
      BY DEF Names
    <3> QED BY <2>1, <3>1, LabelTypes
  <2>3. t \in Targets(n) /\ t.to = 0 /\ t.by # "offset"
    <3>1. "user" \in Names /\ {"none", "label", "given"} \subseteq Bys
      BY DEF Names, Bys
    <3>2. Label("user", 1) \in LabelT /\ NoLabel \in LabelT /\ 0 \in 0..n /\ 0 \in Nat /\ n \in Nat
      BY <1>1, <3>1, LabelTypes
    <3>3. /\ ToLabel(Label("user", 1), 0) \in Targets(n)
          /\ ToLabel(Label("user", 1), 0).by = "label"
          /\ ToLabel(Label("user", 1), 0).to = 0
      BY <3>2, TargetTypes
    <3>4. \A by \in Bys : /\ Target(by, NoLabel, 0, 0) \in Targets(n)
                          /\ Target(by, NoLabel, 0, 0).by = by
                          /\ Target(by, NoLabel, 0, 0).to = 0
      BY <3>2, TargetTypes
    <3>5. item.aim \in Bys /\ item.aim # "offset"
      BY <2>1, <3>1
    <3> QED BY <3>3, <3>4, <3>5
  <2>4. NewInstruction(item, i) =
          [kind |-> item.kind, origin |-> i, strand |-> 1, address |-> None,
           label |-> l, target |-> t]
    BY DEF NewInstruction
  <2>5. i \in 0..Size(case)
    BY <1>1
  <2> HIDE DEF l, t
  <2> QED BY <2>1, <2>2, <2>3, <2>4, <2>5 DEF InstrT
<1>6. \A i \in 1..n : /\ s.instr[i] \in InstrT(n)
                      /\ s.instr[i].address = None
                      /\ s.instr[i].target.to = 0
                      /\ s.instr[i].target.by # "offset"
  BY <1>3, <1>4, <1>5
<1>7. s \in States(n, s.blocks, s.fini)
  <2>1. s.instr \in [1..n -> InstrT(n)]
    BY <1>3, <1>4, <1>5
  <2>2. s.registers = <<>> /\ s.ok = TRUE
    BY DEF Built
  <2>3. s.registers \in Registers(n)
    <3>1. <<>> \in Seq(Targets(n)) /\ Len(<<>>) = 0
      OBVIOUS
    <3>2. FreeRegisters \in Nat
      BY CasesAssumption
    <3> QED BY <2>2, <3>1, <3>2 DEF Registers
  <2>4. s = [instr |-> s.instr, blocks |-> s.blocks, fini |-> s.fini,
             registers |-> s.registers, ok |-> s.ok]
    BY DEF Built
  <2> HIDE DEF s
  <2> QED BY <2>1, <2>2, <2>3, <2>4 DEF States
<1>8. Len(s.instr) = n
  BY <1>1, <1>7, StatesSize
<1>9. Shows(s, n)
  <2> DEFINE bs == s.blocks
             m == Len(FlattenSeq(case.blocks))
  <2>1. case.blocks \in Seq(Seq(Items)) /\ DOMAIN bs = DOMAIN case.blocks
    BY CaseParts DEF Built
  <2>2. bs = [b \in 1..Len(case.blocks) |-> bs[b]]
    BY <2>1 DEF Built
  <2>3. Len(bs) = Len(case.blocks) /\ Len(case.blocks) \in Nat
    <3> HIDE DEF bs
    <3> QED BY <2>1, <2>2
  <2>4. \A b \in DOMAIN bs : Instrs(bs[b]) \in Seq(1..n)
    <3> SUFFICES ASSUME NEW b \in DOMAIN bs PROVE Instrs(bs[b]) \in Seq(1..n)
      OBVIOUS
    <3> DEFINE c == Len(FlattenSeq(SubSeq(case.blocks, 1, b - 1)))
               k == Len(case.blocks[b])
    <3>1. bs[b] = NewBlock(NewInstrs(c, k))
      BY <2>1 DEF Built
    <3>2. b \in 1..Len(case.blocks)
      BY <2>1
    <3>3. c \in Nat /\ k \in Nat /\ c + k <= m
      BY <2>1, <3>2, PrefixLengths
    <3> HIDE DEF c, k, bs
    <3>10. Instrs(bs[b]) = [j \in 1..k |-> c + j]
      BY <3>1, <3>3, NewBlockIs
    <3>11. \A j \in 1..k : c + j \in 1..n
      BY <1>1, <3>3
    <3> QED BY <3>3, <3>10, <3>11
  <2>5. Body(s) \in Seq(1..n) /\ Body(s) # <<>>
    <3>1. Body(s) = [j \in 1..m |-> j] /\ m \in 1..n /\ m \in Nat /\ n \in Nat
      BY <1>1
    <3>2. \A j \in 1..m : j \in 1..n
      BY <3>1
    <3>3. 1 \in DOMAIN Body(s)
      BY <3>1
    <3> HIDE DEF m, s, n
    <3>4. [j \in 1..m |-> j] \in Seq(1..n)
      BY <3>1, <3>2
    <3> QED BY <3>1, <3>3, <3>4
  <2>6. s.fini \in Seq(1..n)
    <3>1. \A j \in 1..case.fini : m + j \in 1..n
      BY <1>1
    <3>2. s.fini = [j \in 1..case.fini |-> m + j] /\ case.fini \in Nat
      BY <1>1
    <3>3. \A c \in Nat : \A f : f = [j \in 1..c |-> m + j] /\ (\A j \in 1..c : m + j \in 1..n)
            => f \in Seq(1..n)
      <4> HIDE DEF m, s, n
      <4> QED OBVIOUS
    <3> HIDE DEF m, s, n
    <3> QED BY <3>1, <3>2, <3>3
  <2> QED BY <2>1, <2>3, <2>4, <2>5, <2>6 DEF Shows
<1>10. OncePlaced(s)
  BY <1>1 DEF OncePlaced
<1>11. Lows(s)
  <2>1. \A p \in 1..n : Text(s)[p] = p /\ s.instr[p].address = -1 /\ s.instr[p].target.by # "offset"
    BY <1>1, <1>6 DEF None
  <2>2. DOMAIN Text(s) = 1..n
    BY <1>1
  <2> HIDE DEF s
  <2>3. \A p \in 1..n : -1 <= p - 1
    BY <1>1
  <2> QED BY <2>1, <2>2, <2>3 DEF Lows, Suits
<1>12. OthersAddressed(s)
  <2>1. DOMAIN s.instr = 1..n /\ \A i \in 1..n : Text(s)[i] = i /\ i \in DOMAIN Text(s)
    BY <1>1, <1>3
  <2>2. \A i \in 1..n : i \in ToSet(Text(s))
    BY <2>1 DEF ToSet
  <2> QED BY <2>1, <2>2 DEF OthersAddressed
<1>13. Agreed(s)
  BY <1>3, <1>6 DEF Agreed, AgreesAt
<1> HIDE DEF n, s
<1> QED BY <1>1, <1>7, <1>8, <1>9, <1>10, <1>11, <1>12, <1>13 DEF Sound, n, s

\* What is an edit, or a repair, of a sound building block is sound.
LEMMA EditsSound ==
  ASSUME NEW s, Sound(s), NEW t \in Edits(s, Len(s.instr), s.blocks, s.fini)
  PROVE  Kept(s, t)
<1> DEFINE n == Len(s.instr)
           bs == s.blocks
           f == s.fini
<1>1. /\ n \in Nat /\ s \in States(n, bs, f) /\ Shows(s, n) /\ OncePlaced(s)
      /\ Lows(s) /\ OthersAddressed(s)
  BY DEF Sound
<1> HIDE DEF n, bs, f
<1>2. t \in Edits(s, n, bs, f)
  BY DEF n, bs, f
<1>3. /\ Shows(t, n) /\ t \in States(n, bs, f) /\ OncePlaced(t) /\ Lows(t)
      /\ OthersAddressed(t) /\ (Agreed(s) => Agreed(t))
  BY <1>1, <1>2, EditsSuit
<1>4. Len(t.instr) = n /\ t.blocks = bs /\ t.fini = f
  BY <1>1, <1>3, StatesSize
<1> QED BY <1>1, <1>3, <1>4 DEF Kept, Sound, n, bs, f

\* The same for what FixIndirectBranchPass leaves.
LEMMA FixesSound ==
  ASSUME NEW s, Sound(s), NEW t \in Fixes(s, Len(s.instr), s.blocks, s.fini)
  PROVE  Kept(s, t)
<1> DEFINE n == Len(s.instr)
           bs == s.blocks
           f == s.fini
<1>1. /\ n \in Nat /\ s \in States(n, bs, f) /\ Shows(s, n) /\ OncePlaced(s)
  BY DEF Sound
<1> HIDE DEF n, bs, f
<1>2. t \in Fixes(s, n, bs, f)
  BY DEF n, bs, f
<1>3. t \in States(n, bs, f) /\ Lows(t) /\ OthersAddressed(t) /\ (Agreed(s) => Agreed(t))
  BY <1>2 DEF Fixes
<1>4. Len(t.instr) = n /\ t.blocks = bs /\ t.fini = f
  BY <1>1, <1>3, StatesSize
<1>5. Body(t) = Body(s) /\ Text(t) = Text(s) /\ t.fini = s.fini /\ t.blocks = s.blocks
  BY <1>1, <1>3, SameText
<1>6. Shows(t, n) /\ OncePlaced(t)
  BY <1>1, <1>5 DEF Shows, OncePlaced
<1> QED BY <1>1, <1>3, <1>4, <1>6 DEF Kept, Sound, n, bs, f

\* The passes that add no instruction.
LEMMA AddressSound ==
  ASSUME NEW s, Sound(s)
  PROVE  Kept(s, UpdatedAddresses(s)) /\ Addressed(UpdatedAddresses(s))
<1> DEFINE n == Len(s.instr)
           bs == s.blocks
           f == s.fini
           t == UpdatedAddresses(s)
<1>1. /\ n \in Nat /\ s \in States(n, bs, f) /\ Shows(s, n) /\ OncePlaced(s)
      /\ Lows(s) /\ OthersAddressed(s)
  BY DEF Sound
<1> HIDE DEF n, bs, f
<1>2. t \in States(n, bs, f) /\ Numbered(s, t)
  BY <1>1, UpdatedNumbers
<1> HIDE DEF t
<1>3. /\ Shows(t, n) /\ OncePlaced(t) /\ Lows(t) /\ Addressed(t) /\ OthersAddressed(t)
      /\ Agreed(s) => Agreed(t)
  BY <1>1, <1>2, NumberedSuits
<1>4. Len(t.instr) = n /\ t.blocks = bs /\ t.fini = f
  BY <1>1, <1>2, StatesSize
<1> QED BY <1>1, <1>2, <1>3, <1>4 DEF Kept, Sound, n, bs, f, t

\* BranchNextPass, and the part of BranchBraidNextPass that equals it.
LEMMA NextSound ==
  ASSUME NEW s, Sound(s), NEW braid
  PROVE  Kept(s, Aimed(s, braid).bb)
<1> DEFINE n == Len(s.instr)
           bs == s.blocks
           f == s.fini
<1>1. n \in Nat /\ s \in States(n, bs, f) /\ Shows(s, n)
  BY DEF Sound
<1> HIDE DEF n, bs, f
<1>2. Aimed(s, braid) \in Visits(s, n, bs, f)
  BY <1>1, AimedVisits
<1>3. Aimed(s, braid).bb \in Edits(s, n, bs, f)
  BY <1>2 DEF Visits
<1> QED BY <1>3, EditsSound DEF n, bs, f

\* FixIndirectBranchPass.
LEMMA FixSound ==
  ASSUME NEW s, Sound(s)
  PROVE  Kept(s, Fixed(s))
<1> DEFINE n == Len(s.instr)
           bs == s.blocks
           f == s.fini
<1>1. /\ n \in Nat /\ s \in States(n, bs, f) /\ Shows(s, n)
      /\ Lows(s) /\ OthersAddressed(s)
  BY DEF Sound
<1> HIDE DEF n, bs, f
<1>2. Fixed(s) \in Fixes(s, n, bs, f)
  BY <1>1, FixedFixes
<1> QED BY <1>2, FixesSound DEF n, bs, f

\* ResolveSymbolicReferencesPass, which runs behind the pass over addresses.
LEMMA ResolveSound ==
  ASSUME NEW s, Sound(s), Addressed(s)
  PROVE  Kept(s, Resolved(s))
<1> DEFINE n == Len(s.instr)
           bs == s.blocks
           f == s.fini
<1>1. n \in Nat /\ s \in States(n, bs, f) /\ Shows(s, n) /\ Lows(s)
  BY DEF Sound
<1> HIDE DEF n, bs, f
<1>2. Resolved(s) \in Fixes(s, n, bs, f)
  BY <1>1, ResolvedFixes
<1> QED BY <1>2, FixesSound DEF n, bs, f

\* The assembled loop has an instruction, and no branch leads before it.
Runnable(c) ==
    /\ Len(c) \in Nat \ {0} /\ DOMAIN c = 1..Len(c)
    /\ \A p \in DOMAIN c :
         c[p].origin \in 0..Size(case) /\ c[p].goals \subseteq Nat \ {0}

\* What is assembled of a sound building block is runnable.
LEMMA AssembledRuns ==
  ASSUME NEW s, Sound(s), Assembles(s)
  PROVE  Runnable(Assembled(s))
<1> DEFINE n == Len(s.instr)
           M == Len(Text(s))
           c == Assembled(s)
<1>1. /\ n \in Nat /\ s \in States(n, s.blocks, s.fini) /\ Shows(s, n) /\ Lows(s)
  BY DEF Sound
<1> HIDE DEF n
<1>2. /\ M \in Nat /\ DOMAIN Text(s) = 1..M /\ M >= 1
      /\ \A p \in 1..M : Text(s)[p] \in 1..n
      /\ ToSet(Text(s)) = {Text(s)[p] : p \in 1..M}
  <2>1. Shows(s, n)
    BY <1>1
  <2>2. /\ Text(s) \in Seq(1..n) /\ M \in Nat
        /\ DOMAIN Text(s) = 1..M /\ \A p \in 1..M : Text(s)[p] \in 1..n
        /\ ToSet(Text(s)) = {Text(s)[p] : p \in 1..M} /\ Len(Body(s)) \in 1..M
    BY <1>1, TextSeq
  <2>3. Len(Body(s)) >= 1 /\ Len(Body(s)) <= M /\ Len(Body(s)) \in Nat
    BY <2>2
  <2> QED BY <2>2, <2>3
<1>3. \A i \in 1..n : s.instr[i] \in InstrT(n)
  BY <1>1 DEF States
<1>4. \A p \in 1..M : Branch(s.instr[Text(s)[p]]) => Goals(s, p) \subseteq Nat \ {0}
  <2> SUFFICES ASSUME NEW p \in 1..M, Branch(s.instr[Text(s)[p]])
               PROVE  Goals(s, p) \subseteq Nat \ {0}
    OBVIOUS
  <2> DEFINE i == Text(s)[p]
             t == s.instr[i].target
             at(label) == CHOOSE q \in DOMAIN Text(s) : s.instr[Text(s)[q]].label = label
  <2>1. i \in 1..n /\ i \in ToSet(Text(s)) /\ t \in Targets(n)
    BY <1>2, <1>3 DEF InstrT
  <2>2. Goals(s, p) = IF t.by \in {"given", "stale"} THEN DOMAIN Text(s)
                      ELSE IF t.by = "offset" THEN {p + t.disp}
                      ELSE {at(t.label) + t.disp}
    BY DEF Goals
  <2>3. /\ t.by \notin {"none", "unset"}
        /\ t.by \notin {"offset", "given"} => t.label \in Labels(s)
    BY <2>1 DEF Assembles
  <2>4. CASE t.by \in {"given", "stale"}
    BY <1>2, <2>2, <2>4
  <2>5. CASE t.by = "offset"
    <3>1. Suits(s.instr[i], p)
      BY <1>1, <1>2 DEF Lows
    <3>2. p + t.disp >= 1 /\ t.disp \in Int
      BY <2>1, <2>5, <3>1 DEF Suits, Targets
    <3>3. Goals(s, p) = {p + t.disp}
      BY <2>2, <2>5
    <3> QED BY SMTT(30), <3>2, <3>3
  <2>6. CASE t.by \notin {"given", "stale", "offset"}
    <3>1. t.disp \in Nat
      BY <2>1, <2>6 DEF Targets
    <3>2. t.label \in Labels(s)
      BY <2>3, <2>6
    <3>3. \E q \in DOMAIN Text(s) : s.instr[Text(s)[q]].label = t.label
      BY <1>2, <3>2 DEF Labels
    <3>4. at(t.label) \in DOMAIN Text(s)
      BY <3>3
    <3>5. Goals(s, p) = {at(t.label) + t.disp}
      BY <2>2, <2>6
    <3> HIDE DEF at, t
    <3>6. at(t.label) \in 1..M
      BY <1>2, <3>4
    <3>7. at(t.label) + t.disp \in Nat \ {0}
      BY <1>2, <3>1, <3>6
    <3> QED BY <3>5, <3>7
  <2> QED BY <2>4, <2>5, <2>6
<1>5. c = [p \in 1..M |->
             [kind |-> s.instr[Text(s)[p]].kind, origin |-> s.instr[Text(s)[p]].origin,
              strand |-> s.instr[Text(s)[p]].strand,
              goals |-> IF Branch(s.instr[Text(s)[p]]) THEN Goals(s, p) ELSE {}]]
  BY <1>2 DEF Assembled
<1>6. \A p \in 1..M : c[p].origin \in 0..Size(case) /\ c[p].goals \subseteq Nat \ {0}
  <2> SUFFICES ASSUME NEW p \in 1..M
               PROVE  c[p].origin \in 0..Size(case) /\ c[p].goals \subseteq Nat \ {0}
    OBVIOUS
  <2>1. c[p].origin = s.instr[Text(s)[p]].origin
        /\ c[p].goals = IF Branch(s.instr[Text(s)[p]]) THEN Goals(s, p) ELSE {}
    BY <1>5
  <2>2. s.instr[Text(s)[p]].origin \in 0..Size(case)
    BY <1>2, <1>3 DEF InstrT
  <2> QED BY <1>4, <2>1, <2>2
<1> HIDE DEF M
<1>7. DOMAIN c = 1..M /\ Len(c) = M
  BY <1>2, <1>5
<1> HIDE DEF c
<1> QED BY <1>2, <1>6, <1>7 DEF Runnable, c

\* What block c shows is what block b shows, none of it at an earlier position,
\* and instructions of "new" behind the one that was at position q0.
Inserted(b, c, new, q0) ==
    LET x == Instrs(b) y == Instrs(c)
    IN  \E g \in [1..Len(x) -> 1..Len(y)] :
          /\ \A q \in 1..Len(x) : y[g[q]] = x[q] /\ g[q] >= q
          /\ \A r \in 1..Len(y) :
               \/ \E q \in 1..Len(x) : r = g[q]
               \/ y[r] \in Elems(new) /\ r > g[q0]

\* Where positions move in this way, so do the instructions that are shown.
LEMMA MovedShows ==
  ASSUME NEW b, NEW c, NEW own, NEW more, Known(b, own), Known(c, more), NEW new,
         NEW q0 \in 1..Len(Instrs(b)), NEW p0 \in DOMAIN b.slot,
         b.slot[p0] = Instrs(b)[q0], NEW m, Moved(b, c, new, p0, m)
  PROVE  Inserted(b, c, new, q0)
<1> DEFINE x == Instrs(b)
           y == Instrs(c)
<1>1. PICK V, f : V \in Nat
         /\ Ascends(f, V, Live(b)) /\ Live(b) \in SUBSET Nat
         /\ Len(x) = V
         /\ \A q \in 1..V : x[q] = b.slot[f[q]] /\ f[q] \in Live(b)
  <2>1. \E V \in Nat : \E f :
         /\ Ascends(f, V, Live(b)) /\ Live(b) \in SUBSET Nat
         /\ Len(x) = V
         /\ \A q \in 1..V : x[q] = b.slot[f[q]] /\ f[q] \in Live(b)
    BY KnownShows
  <2> QED BY <2>1
<1>1a. V \in Nat
  BY <1>1
<1>2. PICK W, h : W \in Nat
         /\ Ascends(h, W, Live(c)) /\ Live(c) \in SUBSET Nat
         /\ Len(y) = W
         /\ \A q \in 1..W : y[q] = c.slot[h[q]] /\ h[q] \in Live(c)
  <2>1. \E W \in Nat : \E h :
         /\ Ascends(h, W, Live(c)) /\ Live(c) \in SUBSET Nat
         /\ Len(y) = W
         /\ \A q \in 1..W : y[q] = c.slot[h[q]] /\ h[q] \in Live(c)
    BY SMTT(30), KnownShows
  <2> QED BY <2>1
<1> HIDE DEF x, y
<1>3. /\ \A q, r \in 1..V : q < r => f[q] < f[r]
      /\ \A p \in Live(b) : \E q \in 1..V : f[q] = p
  BY <1>1 DEF Ascends
<1>4. /\ \A q, r \in 1..W : q < r => h[q] < h[r]
      /\ \A p \in Live(c) : \E q \in 1..W : h[q] = p
      /\ \A q \in 1..W : h[q] \in Nat
  BY <1>2 DEF Ascends
<1>5. /\ Live(b) \subseteq DOMAIN b.slot /\ Live(c) \subseteq DOMAIN c.slot
      /\ \A p \in DOMAIN b.slot : p \in Nat
  BY DEF Live, Known
<1>6. /\ \A p, q \in DOMAIN b.slot : p < q => m[p] < m[q]
      /\ \A p \in DOMAIN b.slot : c.slot[m[p]] = b.slot[p]
      /\ \A p \in DOMAIN b.slot : m[p] \in Live(c) <=> p \in Live(b)
      /\ \A q \in DOMAIN c.slot :
           \/ \E p \in DOMAIN b.slot : q = m[p]
           \/ c.slot[q] \in Elems(new) /\ q > m[p0]
  BY DEF Moved
<1>7. p0 = f[q0]
  <2>1. b.slot[p0] = b.slot[f[q0]] /\ f[q0] \in DOMAIN b.slot
    BY <1>1, <1>5 DEF x
  <2>2. \A p, q \in DOMAIN b.slot : b.slot[p] = b.slot[q] => p = q
    BY DEF Known
  <2> QED BY <2>1, <2>2
<1> DEFINE g == [q \in 1..V |-> CHOOSE r \in 1..W : h[r] = m[f[q]]]
<1>8. \A q \in 1..V : g[q] \in 1..W /\ h[g[q]] = m[f[q]]
  <2> SUFFICES ASSUME NEW q \in 1..V PROVE g[q] \in 1..W /\ h[g[q]] = m[f[q]]
    OBVIOUS
  <2>1. \E r \in 1..W : h[r] = m[f[q]]
    BY <1>1, <1>4, <1>5, <1>6
  <2> QED BY <2>1
<1>9. g \in [1..V -> 1..W]
  BY <1>8
<1> HIDE DEF g
<1>10. \A q, r \in 1..V : q < r => g[q] < g[r]
  <2> SUFFICES ASSUME NEW q \in 1..V, NEW r \in 1..V, q < r PROVE g[q] < g[r]
    OBVIOUS
  <2>1. f[q] < f[r]
    BY <1>3
  <2>2. m[f[q]] < m[f[r]]
    BY <1>1, <1>5, <1>6, <2>1
  <2>3. h[g[q]] < h[g[r]] /\ g[q] \in 1..W /\ g[r] \in 1..W
    BY <1>8, <2>2
  <2>4. CASE g[q] = g[r]
    BY <1>4, <2>3, <2>4
  <2>5. CASE g[r] < g[q]
    BY <1>4, <2>3, <2>5
  <2> QED BY <2>3, <2>4, <2>5
<1>11. \A q \in 1..V : g[q] >= q
  <2>1. \A q \in 1..V : g[q] \in Nat /\ g[q] >= 1
    BY <1>8
  <2>2. 1 \in Nat
    OBVIOUS
  <2>3. \A q \in 1..V : g[q] >= 1 + q - 1
    BY <1>1a, <1>10, <2>1, <2>2, AscendingGrows
  <2> QED BY <2>1, <2>3
<1>12. \A q \in 1..V : y[g[q]] = x[q]
  <2> SUFFICES ASSUME NEW q \in 1..V PROVE y[g[q]] = x[q]
    OBVIOUS
  <2>1. x[q] = b.slot[f[q]] /\ f[q] \in DOMAIN b.slot
    BY <1>1, <1>5
  <2>2. y[g[q]] = c.slot[h[g[q]]] /\ h[g[q]] = m[f[q]]
    BY <1>2, <1>8
  <2>3. c.slot[m[f[q]]] = b.slot[f[q]]
    BY <1>6, <2>1
  <2> QED BY <2>1, <2>2, <2>3
<1>13. \A r \in 1..W : \/ \E q \in 1..V : r = g[q]
                       \/ y[r] \in Elems(new) /\ r > g[q0]
  <2> SUFFICES ASSUME NEW r \in 1..W
               PROVE  \/ \E q \in 1..V : r = g[q]
                      \/ y[r] \in Elems(new) /\ r > g[q0]
    OBVIOUS
  <2>1. h[r] \in Live(c) /\ h[r] \in DOMAIN c.slot /\ y[r] = c.slot[h[r]]
    BY <1>2, <1>5
  <2>2. CASE \E p \in DOMAIN b.slot : h[r] = m[p]
    <3>1. PICK p \in DOMAIN b.slot : h[r] = m[p]
      BY <2>2
    <3>2. p \in Live(b)
      BY <1>6, <2>1, <3>1
    <3>3. PICK q \in 1..V : f[q] = p
      BY <1>3, <3>2
    <3>4. h[g[q]] = h[r] /\ g[q] \in 1..W
      BY <1>8, <3>1, <3>3
    <3>5. g[q] = r
      BY <1>4, <3>4
    <3> QED BY <3>5
  <2>3. CASE c.slot[h[r]] \in Elems(new) /\ h[r] > m[p0]
    <3>1. h[r] > h[g[q0]] /\ g[q0] \in 1..W
      BY <1>1, <1>7, <1>8, <2>3 DEF x
    <3>2. r > g[q0]
      <4>1. ~(r < g[q0]) /\ r # g[q0]
        BY <1>4, <3>1
      <4> QED BY <3>1, <4>1
    <3> QED BY <2>1, <2>3, <3>2
  <2> QED BY <1>6, <2>1, <2>2, <2>3
<1>14. /\ g \in [1..Len(x) -> 1..Len(y)]
       /\ \A q \in 1..Len(x) : y[g[q]] = x[q] /\ g[q] >= q
       /\ \A r \in 1..Len(y) : \/ \E q \in 1..Len(x) : r = g[q]
                               \/ y[r] \in Elems(new) /\ r > g[q0]
  BY <1>1, <1>2, <1>9, <1>11, <1>12, <1>13
<1> QED BY <1>14 DEF Inserted, x, y

\* insert_instr behind an instruction that is far enough from the beginning.
LEMMA InsertKnown ==
  ASSUME NEW b, NEW own, Known(b, own), NEW k \in Nat \ {0}, NEW new, Len(new) = k,
         \A j \in 1..k : new[j] \notin own,
         \A i, j \in 1..k : new[i] = new[j] => i = j,
         NEW q0 \in 1..Len(Instrs(b)), k <= q0, NEW before
  PROVE  LET c == InsertInstr(b, new, before, Instrs(b)[q0])
         IN  Known(c, own \cup Elems(new)) /\ Inserted(b, c, new, q0)
<1> DEFINE after == Instrs(b)[q0]
           c == InsertInstr(b, new, before, after)
<1>1. PICK p0 \in Live(b) : after = b.slot[p0] /\ p0 >= q0 - 1
  <2>1. PICK V, f : V \in Nat
         /\ Len(Instrs(b)) = V
         /\ \A q \in 1..V : Instrs(b)[q] = b.slot[f[q]] /\ f[q] \in Live(b) /\ f[q] >= q - 1
    BY KnownShows
  <2> QED BY <2>1
<1> HIDE DEF after
<1>2. p0 \in DOMAIN b.slot /\ p0 < b.pointer /\ p0 \in Nat
      /\ after \in DOMAIN b.index /\ b.index[after] = p0
  BY <1>1 DEF Live, Known
<1>3. IndexOf(b, after) = p0
  BY <1>2 DEF IndexOf
<1>4. p0 + 1 >= k /\ p0 + 1 # 0
  BY <1>1, <1>2
<1>5. CASE WindowFree(b, p0 + 1, k)
  <2>1. c = Place(b, new, p0 + 1)
    BY <1>3, <1>4, <1>5 DEF InsertInstr
  <2>2. Known(c, own \cup Elems(new)) /\ \E m : Moved(b, c, new, p0, m)
    BY <1>2, <1>5, <2>1, PlaceMoves
  <2> HIDE DEF c
  <2>3. Inserted(b, c, new, q0)
    BY <1>1, <1>2, <2>2, MovedShows DEF after
  <2> QED BY <2>2, <2>3 DEF c, after
<1>6. CASE ~WindowFree(b, p0 + 1, k)
  <2>1. c = Splice(b, new, p0 + 1)
    BY <1>3, <1>4, <1>6 DEF InsertInstr
  <2>2. Known(c, own \cup Elems(new)) /\ \E m : Moved(b, c, new, p0, m)
    BY <1>2, <1>4, <2>1, SpliceMoves
  <2> HIDE DEF c
  <2>3. Inserted(b, c, new, q0)
    BY <1>1, <1>2, <2>2, MovedShows DEF after
  <2> QED BY <2>2, <2>3 DEF c, after
<1> QED BY <1>5, <1>6
-----------------------------------------------------------------------------
(* The chunks BranchBraidNextPass collects.                                *)

\* After k turns: the chunks so far, and the one that grows, are what follows
\* the first branch in the body x.
Chunked(p, x, k) ==
    /\ \A c \in DOMAIN p.chunks : p.chunks[c] # <<>>
    /\ p.firstBraid = 0 => p.chunks = <<>> /\ p.current = <<>>
    /\ p.firstBraid # 0 =>
         /\ p.lastHead # 0
         /\ \E f \in 1..k :
              FlattenSeq(p.chunks) \o p.current = [j \in 1..(k - f) |-> x[f + j]]

\* Aiming a branch does not touch them.
LEMMA AimKeepsChunks ==
  ASSUME NEW n \in Nat, NEW bs, NEW f, NEW s, NEW p \in Visits(s, n, bs, f),
         NEW ant, NEW ins, NEW braid
  PROVE  LET q == Aim(p, ant, ins, braid)
         IN  /\ q.chunks = p.chunks /\ q.current = p.current
             /\ q.firstBraid = p.firstBraid /\ q.lastHead = p.lastHead
<1> DEFINE Same(q) == /\ q.chunks = p.chunks /\ q.current = p.current
                      /\ q.firstBraid = p.firstBraid /\ q.lastHead = p.lastHead
<1>1. \A u, l : Same([p EXCEPT !.bb = u, !.labels = l]) /\ Same([p EXCEPT !.bb = u])
  BY DEF Visits
<1>2. \A new : Same(AimAtNext(p, ant, ins, new))
  BY <1>1 DEF AimAtNext
<1>3. \A k : Same(AimAtEarlier(p, ant, k))
  <2> SUFFICES ASSUME NEW k PROVE Same(AimAtEarlier(p, ant, k))
    OBVIOUS
  <2>1. AimAtEarlier(p, ant, k) =
          [p EXCEPT !.bb = IF k \notin DOMAIN p.labels THEN [p.bb EXCEPT !.ok = FALSE]
                           ELSE SetAddress(p.bb, ant,
                                  ToLabel(p.labels[k], Holder(p.bb, p.labels[k])))]
    BY DEF AimAtEarlier
  <2> QED BY <1>1, <2>1
<1> HIDE DEF Same
<1>4. Same(Aim(p, ant, ins, braid))
  BY <1>2, <1>3 DEF Aim
<1> QED BY <1>4 DEF Same

\* One list more in front of one element more.
GrowsByOne(ss, x, a) ==
    /\ FlattenSeq(ss) \o Append(x, a) = Append(FlattenSeq(ss) \o x, a)
    /\ FlattenSeq(Append(ss, Append(x, a))) \o <<>> = Append(FlattenSeq(ss) \o x, a)

\* Both ways to append an element to the lists give the same joined list.
LEMMA FlattenMore ==
  ASSUME NEW S, NEW ss \in Seq(Seq(S)), NEW x \in Seq(S), NEW a \in S
  PROVE  GrowsByOne(ss, x, a)
<1> DEFINE z == FlattenSeq(ss)
           y == Append(x, a)
<1>1. z \in Seq(S) /\ y \in Seq(S)
  <2>1. z \in Seq(S)
    BY FlattenAppend
  <2>2. y \in Seq(S)
    OBVIOUS
  <2> QED BY <2>1, <2>2
<1>2. FlattenSeq(Append(ss, y)) = z \o y
  BY <1>1, FlattenAppend
<1> HIDE DEF z
<1>3. z \o Append(x, a) = Append(z \o x, a)
  BY <1>1
<1>4. (z \o y) \o <<>> = z \o y
  BY <1>1
<1> QED BY <1>2, <1>3, <1>4 DEF z, GrowsByOne

\* One turn of the loop takes one instruction of the body into the chunks.
LEMMA VisitPairChunks ==
  ASSUME NEW n \in Nat, NEW bs, NEW f, NEW s \in States(n, bs, f), NEW x \in Seq(1..n),
         NEW k \in 1..(Len(x) - 1), NEW p \in Visits(s, n, bs, f),
         Chunked(p, x, k - 1), NEW braid
  PROVE  Chunked(VisitPair(p, x[k], x[k + 1], braid), x, k)
<1> DEFINE ant == x[k]
           ins == x[k + 1]
           r == VisitPair(p, ant, ins, braid)
<1>1. /\ Len(x) \in Nat /\ k \in 1..Len(x) /\ k + 1 \in 1..Len(x)
      /\ ant \in 1..n /\ ins \in 1..n /\ ins # 0
      /\ \A j \in 1..Len(x) : x[j] \in 1..n
  OBVIOUS
<1>2. /\ p.current \in Seq(1..n) /\ p.chunks \in Seq(Seq(1..n)) /\ p.firstBraid \in 0..n
      /\ p.chunks \in Seq(Seq(1..n))
  BY DEF Visits
<1> HIDE DEF ant, ins
<1>3. ASSUME NEW g \in 1..(k - 1), NEW z,
             z = [j \in 1..(k - 1 - g) |-> x[g + j]]
      PROVE  Append(z, ant) = [j \in 1..(k - g) |-> x[g + j]] /\ g \in 1..k
  <2>1. k - 1 - g \in Nat /\ k - g = (k - 1 - g) + 1 /\ g + (k - g) = k /\ g \in 1..k
    BY <1>1
  <2>2. PICK m \in Nat : m = k - 1 - g
    BY <2>1
  <2>3. \A j \in 1..m : x[g + j] \in 1..n
    <3>1. \A j \in 1..m : g + j \in 1..Len(x)
      BY <1>1, <2>2
    <3> QED BY <1>1, <3>1
  <2>4. z = [j \in 1..m |-> x[g + j]] /\ z \in Seq(1..n) /\ Len(z) = m
    <3>1. z = [j \in 1..m |-> x[g + j]]
      BY <1>3, <2>2
    <3> QED BY <2>3, <3>1
  <2>5. Append(z, ant) = [j \in 1..(m + 1) |-> IF j = m + 1 THEN ant ELSE z[j]]
    <3>1. \A y \in Seq(1..n), a \in 1..n :
            Append(y, a) = [j \in 1..(Len(y) + 1) |-> IF j = Len(y) + 1 THEN a ELSE y[j]]
      <4> SUFFICES ASSUME NEW y \in Seq(1..n), NEW a \in 1..n
                   PROVE Append(y, a) = [j \in 1..(Len(y) + 1) |-> IF j = Len(y) + 1 THEN a ELSE y[j]]
        OBVIOUS
      <4>1. PICK w : w = Append(y, a)
        OBVIOUS
      <4>2. w \in Seq(1..n) /\ Len(w) = Len(y) + 1 /\ Len(y) \in Nat
            /\ \A j \in 1..(Len(y) + 1) : w[j] = IF j = Len(y) + 1 THEN a ELSE y[j]
        BY <4>1
      <4>3. w = [j \in 1..(Len(y) + 1) |-> w[j]]
        BY <4>2
      <4> QED BY <4>1, <4>2, <4>3
    <3> QED BY <1>1, <2>4, <3>1
  <2>6. \A j \in 1..(m + 1) : (IF j = m + 1 THEN ant ELSE z[j]) = x[g + j]
    <3>1. m + 1 = k - g /\ g + (m + 1) = k
      BY <2>1, <2>2
    <3>2. \A j \in 1..(m + 1) : j # m + 1 => j \in 1..m
      OBVIOUS
    <3> QED BY <2>4, <3>1, <3>2 DEF ant
  <2>7. m + 1 = k - g
    BY <2>1, <2>2
  <2>8. Append(z, ant) = [j \in 1..(m + 1) |-> x[g + j]]
    BY <2>5, <2>6
  <2> QED BY <2>1, <2>7, <2>8
<1>4. /\ FlattenSeq(p.chunks) \o Append(p.current, ant) = Append(FlattenSeq(p.chunks) \o p.current, ant)
      /\ FlattenSeq(Append(p.chunks, Append(p.current, ant))) \o <<>>
           = Append(FlattenSeq(p.chunks) \o p.current, ant)
  <2>1. p.chunks \in Seq(Seq(1..n)) /\ p.current \in Seq(1..n) /\ ant \in 1..n
    BY <1>1, <1>2
  <2>2. GrowsByOne(p.chunks, p.current, ant)
    BY <2>1, FlattenMore
  <2> QED BY <2>2 DEF GrowsByOne
<1>5. CASE ~Branch(p.bb.instr[ant])
  <2> SUFFICES Chunked(r, x, k)
    BY DEF r, ant, ins
  <2> DEFINE c == IF p.firstBraid # 0 THEN Append(p.current, ant) ELSE p.current
  <2>1. r = [p EXCEPT !.current = c]
    BY <1>5 DEF VisitPair
  <2> HIDE DEF r, c
  <2>2. /\ r.current = c /\ r.chunks = p.chunks /\ r.firstBraid = p.firstBraid
        /\ r.lastHead = p.lastHead
    BY <2>1 DEF Visits
  <2>c. \A i \in DOMAIN r.chunks : r.chunks[i] # <<>>
    BY <2>2 DEF Chunked
  <2>3. CASE p.firstBraid = 0
    <3>1. c = <<>> /\ p.chunks = <<>>
      BY <2>3 DEF Chunked, c
    <3> QED BY <2>2, <2>3, <3>1, <2>c DEF Chunked
  <2>4. CASE p.firstBraid # 0
    <3>1. PICK g \in 1..(k - 1) :
            FlattenSeq(p.chunks) \o p.current = [j \in 1..(k - 1 - g) |-> x[g + j]]
      BY <2>4 DEF Chunked
    <3>2. /\ Append(FlattenSeq(p.chunks) \o p.current, ant) = [j \in 1..(k - g) |-> x[g + j]]
          /\ g \in 1..k
      BY <1>3, <3>1
    <3>3. FlattenSeq(r.chunks) \o r.current = [j \in 1..(k - g) |-> x[g + j]]
      BY <1>4, <2>2, <2>4, <3>2 DEF c
    <3>4. p.lastHead # 0
      BY <2>4 DEF Chunked
    <3> QED BY <2>2, <2>4, <3>2, <3>3, <3>4, <2>c DEF Chunked
  <2> QED BY <2>3, <2>4
<1>6. CASE Branch(p.bb.instr[ant])
  <2> SUFFICES Chunked(r, x, k)
    BY DEF r, ant, ins
  <2> DEFINE q == IF HasAddress(p.bb.instr[ant]) /\ ~case.force THEN p
                  ELSE Aim(p, ant, ins, braid)
             m == IF Relative(p.bb.instr[ant]) THEN 0 ELSE 1
             c == IF p.firstBraid = 0 THEN q.chunks
                  ELSE Append(q.chunks, Append(p.current, ant))
             b == IF q.firstBraid = 0 THEN ant ELSE q.firstBraid
  <2>1. r = [q EXCEPT !.counter = q.counter + m, !.allCounter = q.allCounter + 1 - m,
                      !.chunks = c, !.current = <<>>, !.firstBraid = b, !.lastHead = ins]
    BY <1>6 DEF VisitPair
  <2>2. q \in Visits(s, n, bs, f)
    BY <1>1, AimVisits
  <2>3. q.chunks = p.chunks /\ q.firstBraid = p.firstBraid
    BY AimKeepsChunks
  <2> HIDE DEF q, m, c, b, r
  <2>4. r.chunks = c /\ r.current = <<>> /\ r.firstBraid = b /\ r.lastHead = ins
    BY <2>1, <2>2 DEF Visits
  <2>5. b # 0
    BY <1>1, <2>3 DEF b
  <2>6. CASE p.firstBraid = 0
    <3>1. c = <<>>
      BY <2>3, <2>6 DEF Chunked, c
    <3>2. FlattenSeq(r.chunks) \o r.current = <<>>
      <4>1. FlattenSeq(<<>>) = <<>>
        BY DEF FlattenSeq
      <4> QED BY <2>4, <3>1, <4>1
    <3>3. [j \in 1..(k - k) |-> x[k + j]] = <<>> /\ k \in 1..k
      OBVIOUS
    <3>4. \E g \in 1..k : FlattenSeq(r.chunks) \o r.current = [j \in 1..(k - g) |-> x[g + j]]
      <4> DEFINE F(g) == [j \in 1..(k - g) |-> x[g + j]]
      <4>1. FlattenSeq(r.chunks) \o r.current = F(k) /\ k \in 1..k
        BY <3>2, <3>3
      <4> HIDE DEF F
      <4>2. \E g \in 1..k : FlattenSeq(r.chunks) \o r.current = F(g)
        BY <4>1
      <4> QED BY <4>2 DEF F
    <3>5. \A i \in DOMAIN r.chunks : r.chunks[i] # <<>>
      <4>1. DOMAIN <<>> = {}
        OBVIOUS
      <4> QED BY <2>4, <3>1, <4>1
    <3>6. r.firstBraid # 0 /\ r.lastHead # 0
      BY <1>1, <2>4, <2>5
    <3> QED BY <3>4, <3>5, <3>6 DEF Chunked
  <2>7. CASE p.firstBraid # 0
    <3>1. PICK g \in 1..(k - 1) :
            FlattenSeq(p.chunks) \o p.current = [j \in 1..(k - 1 - g) |-> x[g + j]]
      BY <2>7 DEF Chunked
    <3>2. /\ Append(FlattenSeq(p.chunks) \o p.current, ant) = [j \in 1..(k - g) |-> x[g + j]]
          /\ g \in 1..k
      BY <1>3, <3>1
    <3>3. c = Append(p.chunks, Append(p.current, ant))
      BY <2>3, <2>7 DEF c
    <3>4. FlattenSeq(r.chunks) \o r.current = [j \in 1..(k - g) |-> x[g + j]]
      BY <1>4, <2>4, <3>2, <3>3
    <3>5. \A i \in DOMAIN c : c[i] # <<>>
      <4>1. Append(p.current, ant) # <<>>
        <5>1. Len(p.current) + 1 \in DOMAIN Append(p.current, ant)
          BY <1>1, <1>2
        <5> QED BY <5>1
      <4>2. \A i \in DOMAIN p.chunks : p.chunks[i] # <<>>
        BY DEF Chunked
      <4>3. ASSUME NEW ss \in Seq(Seq(1..n)), NEW e \in Seq(1..n), NEW i \in DOMAIN Append(ss, e)
            PROVE  \/ i \in DOMAIN ss /\ Append(ss, e)[i] = ss[i]
                   \/ Append(ss, e)[i] = e
        OBVIOUS
      <4>4. Append(p.current, ant) \in Seq(1..n)
        BY <1>1, <1>2
      <4>5. c \in Seq(Seq(1..n))
        BY <1>2, <3>3, <4>4
      <4> QED BY <1>2, <3>3, <4>1, <4>2, <4>3, <4>4
    <3> QED BY <1>1, <2>4, <2>5, <3>2, <3>4, <3>5 DEF Chunked
  <2> QED BY <2>6, <2>7
<1> QED BY <1>5, <1>6 DEF r, ant, ins

\* The chunks of the braid are pieces of the body x behind position f, where
\* the first branch is.
Pieces(p, x, n, f) ==
    LET flat == FlattenSeq(p.chunks)
    IN  /\ p.firstBraid \in 1..n /\ p.lastHead \in 1..n
        /\ p.chunks \in Seq(Seq(1..n)) /\ \A c \in DOMAIN p.chunks : p.chunks[c] # <<>>
        /\ f \in Nat \ {0} /\ flat \in Seq(1..n) /\ f + Len(flat) <= Len(x)
        /\ \A j \in 1..Len(flat) : flat[j] = x[f + j]

\* The chunks of the pass are such pieces.
LEMMA AimedPieces ==
  ASSUME NEW n \in Nat, NEW bs, NEW fi, NEW s \in States(n, bs, fi), Shows(s, n),
         NEW braid, Aimed(s, braid).firstBraid # 0
  PROVE  \E f : Pieces(Aimed(s, braid), Body(s), n, f)
<1> DEFINE x == Body(s)
           N == Len(x) - 1
           p == VisitPairs(s, braid)
           q == Aimed(s, braid)
           flat == FlattenSeq(p.chunks)
<1>1. PICK t, g : t \in Edits(s, n, bs, fi) /\ Visited(g, s, t, n, bs, fi, braid)
  BY VisitPairsUnroll
<1>2. x \in Seq(1..n) /\ N \in Nat
  <2>1. x \in Seq(1..n) /\ x # <<>>
    BY DEF Shows
  <2> HIDE DEF x
  <2> QED BY <2>1
<1>3. /\ g[0] = Locals(t)
      /\ \A k \in 1..N : g[k] = VisitPair(g[k - 1], x[k], x[k + 1], braid)
      /\ \A k \in 0..N : g[k] \in Visits(t, n, bs, fi)
      /\ p = g[N] /\ t \in States(n, bs, fi)
  BY <1>1 DEF Visited, Edits
<1> HIDE DEF x, p
<1>4. Chunked(Locals(t), x, 0)
  BY DEF Chunked, Locals
<1>5. \A k \in 0..N : Chunked(g[k], x, k)
  <2> DEFINE G == {k \in 0..N : Chunked(g[k], x, k)}
  <2>1. 0 \in G
    BY <1>2, <1>3, <1>4
  <2>2. ASSUME NEW k \in 1..N, k - 1 \in G PROVE k \in G
    <3>1. k - 1 \in 0..N /\ k \in 0..N /\ k \in 1..(Len(x) - 1)
      BY <1>2
    <3>2. g[k - 1] \in Visits(t, n, bs, fi) /\ Chunked(g[k - 1], x, k - 1)
      BY <1>3, <2>2, <3>1
    <3>3. Chunked(VisitPair(g[k - 1], x[k], x[k + 1], braid), x, k)
      BY <1>2, <1>3, <3>1, <3>2, VisitPairChunks
    <3> QED BY <1>3, <3>1, <3>3
  <2> HIDE DEF G, N
  <2>3. 0..N \subseteq G
    BY <1>2, <2>1, <2>2, SetInductionUpTo
  <2> QED BY <2>3 DEF G
<1>6. Chunked(p, x, N) /\ p \in Visits(t, n, bs, fi)
  <2>1. N \in 0..N
    BY <1>2
  <2> QED BY <1>3, <1>5, <2>1
<1>7. /\ p.chunks \in Seq(Seq(1..n)) /\ p.current \in Seq(1..n)
      /\ p.firstBraid \in 0..n /\ p.lastHead \in 0..n
  BY <1>6 DEF Visits
<1>8. /\ q.chunks = p.chunks /\ q.firstBraid = p.firstBraid /\ q.lastHead = p.lastHead
  <2>1. \A u : LET r == [p EXCEPT !.bb = u]
               IN  r.chunks = p.chunks /\ r.firstBraid = p.firstBraid /\ r.lastHead = p.lastHead
    BY <1>6 DEF Visits
  <2>2. q = p \/ \E u : q = [p EXCEPT !.bb = u]
    BY DEF Aimed, AimLast, p
  <2> HIDE DEF q
  <2> QED BY <2>1, <2>2
<1>9. p.firstBraid # 0
  BY <1>8
<1>10. PICK f \in 1..N : flat \o p.current = [j \in 1..(N - f) |-> x[f + j]]
  BY <1>6, <1>9 DEF Chunked
<1>11. flat \in Seq(1..n)
  BY <1>7, FlattenAppend
<1> HIDE DEF flat, q
<1>12. Len(flat) <= N - f /\ \A j \in 1..Len(flat) : flat[j] = x[f + j]
  <2> DEFINE z == flat \o p.current
  <2>1. /\ Len(z) = Len(flat) + Len(p.current) /\ Len(flat) \in Nat /\ Len(p.current) \in Nat
        /\ \A j \in 1..Len(flat) : z[j] = flat[j]
    BY <1>7, <1>11
  <2> HIDE DEF z
  <2>2. z = [j \in 1..(N - f) |-> x[f + j]] /\ N - f \in Nat
    BY <1>2, <1>10 DEF z
  <2>3. PICK m \in Nat : m = N - f
    BY <2>2
  <2>4. z = [j \in 1..m |-> x[f + j]] /\ Len(z) = m
    BY <2>2, <2>3
  <2>5. Len(flat) <= m
    BY <2>1, <2>4
  <2>6. \A j \in 1..Len(flat) : j \in 1..m
    BY <2>1, <2>5
  <2>7. \A j \in 1..m : z[j] = x[f + j]
    BY <2>4
  <2> QED BY <2>1, <2>3, <2>5, <2>6, <2>7
<1>13. /\ f \in Nat \ {0} /\ f + Len(flat) <= Len(x)
       /\ p.firstBraid \in 1..n /\ p.lastHead \in 1..n
       /\ \A c \in DOMAIN p.chunks : p.chunks[c] # <<>>
  <2>1. \A c \in DOMAIN p.chunks : p.chunks[c] # <<>>
    BY <1>6 DEF Chunked
  <2>2. p.lastHead # 0
    BY <1>6, <1>9 DEF Chunked
  <2>3. f \in Nat \ {0} /\ f + Len(flat) <= Len(x)
    <3>1. Len(flat) \in Nat /\ Len(x) \in Nat
      BY <1>2, <1>11
    <3> QED BY <1>12, <3>1
  <2> QED BY <1>7, <1>9, <2>1, <2>2, <2>3
<1>14. Pieces(q, x, n, f)
  BY <1>7, <1>8, <1>11, <1>12, <1>13 DEF Pieces, flat
<1> QED BY <1>14 DEF q, x

\* One joint of the lists that FlattenSeq joins.
Joint(h, ss, c) ==
    /\ Len(h[c - 1]) \in Nat /\ Len(ss[c]) \in Nat /\ Len(h[c]) \in Nat
    /\ Len(h[c]) = Len(h[c - 1]) + Len(ss[c])
    /\ \A j \in 1..Len(h[c - 1]) : h[c][j] = h[c - 1][j]
    /\ \A j \in 1..Len(ss[c]) : h[c][Len(h[c - 1]) + j] = ss[c][j]

\* Every prefix is the one before it and one list.
LEMMA JoinedLists ==
  ASSUME NEW S, NEW ss \in Seq(Seq(S)), NEW h, Joins(h, S, ss)
  PROVE  /\ \A c \in 0..Len(ss) : Len(h[c]) \in Nat
         /\ \A c \in 1..Len(ss) : Joint(h, ss, c)
<1>1. /\ \A c \in 0..Len(ss) : h[c] \in Seq(S)
      /\ \A c \in 1..Len(ss) : h[c] = h[c - 1] \o ss[c]
  BY DEF Joins
<1>2. \A c \in 1..Len(ss) : ss[c] \in Seq(S) /\ c - 1 \in 0..Len(ss)
  OBVIOUS
<1>3. \A c \in 0..Len(ss) : h[c] \in Seq(S) /\ Len(h[c]) \in Nat
  BY <1>1
<1>4. ASSUME NEW c \in 1..Len(ss) PROVE Joint(h, ss, c)
  <2>1. PICK x, y, z : x = h[c - 1] /\ y = ss[c] /\ z = h[c]
    OBVIOUS
  <2>2. x \in Seq(S) /\ y \in Seq(S) /\ z = x \o y
    BY <1>1, <1>2, <2>1
  <2>3. /\ Len(x) \in Nat /\ Len(y) \in Nat /\ Len(z) \in Nat /\ Len(z) = Len(x) + Len(y)
        /\ \A j \in 1..Len(x) : z[j] = x[j]
        /\ \A j \in 1..Len(y) : z[Len(x) + j] = y[j]
    BY <2>2, JoinedIs
  <2> QED BY <2>1, <2>3 DEF Joint
<1> QED BY <1>3, <1>4

\* The first lists are a prefix of all.
LEMMA JoinedPrefix ==
  ASSUME NEW S, NEW ss \in Seq(Seq(S)), NEW h, Joins(h, S, ss), NEW b \in 0..Len(ss)
  PROVE  /\ Len(h[b]) <= Len(h[Len(ss)])
         /\ \A j \in 1..Len(h[b]) : h[Len(ss)][j] = h[b][j]
<1> DEFINE N == Len(ss)
           Prefix(c) == /\ Len(h[b]) <= Len(h[c])
                        /\ \A j \in 1..Len(h[b]) : h[c][j] = h[b][j]
           G == {i \in 0..(N - b) : Prefix(b + i)}
<1>1. N \in Nat /\ b \in 0..N /\ N - b \in Nat
  OBVIOUS
<1>2. /\ \A c \in 0..N : Len(h[c]) \in Nat
      /\ \A c \in 1..N : Joint(h, ss, c)
  BY JoinedLists
<1> HIDE DEF N
<1>3. 0 \in G
  <2>1. b + 0 = b /\ 0 \in 0..(N - b) /\ Len(h[b]) \in Nat
    BY <1>1, <1>2
  <2> QED BY <2>1
<1>4. ASSUME NEW i \in 1..(N - b), i - 1 \in G PROVE i \in G
  <2>1. PICK c \in 1..N : c = b + i /\ b + (i - 1) = c - 1
    BY <1>1
  <2>2. Prefix(c - 1)
    BY <1>4, <2>1
  <2>3. /\ Len(h[c - 1]) \in Nat /\ Len(h[c]) \in Nat /\ Len(ss[c]) \in Nat /\ Len(h[b]) \in Nat
        /\ Len(h[c]) = Len(h[c - 1]) + Len(ss[c])
        /\ \A j \in 1..Len(h[c - 1]) : h[c][j] = h[c - 1][j]
    <3>1. Joint(h, ss, c)
      BY <1>2
    <3> QED BY <1>1, <1>2, <3>1 DEF Joint
  <2>4. Len(h[b]) <= Len(h[c])
    <3>1. Len(h[b]) <= Len(h[c - 1])
      BY <2>2
    <3>2. PICK u, v, w, z : /\ u = Len(h[b]) /\ v = Len(h[c - 1]) /\ w = Len(ss[c]) /\ z = Len(h[c])
      OBVIOUS
    <3>3. u \in Nat /\ v \in Nat /\ w \in Nat /\ z = v + w /\ u <= v
      BY <2>3, <3>1, <3>2
    <3>4. u <= z
      BY <3>3
    <3> QED BY <3>2, <3>4
  <2>5. \A j \in 1..Len(h[b]) : j \in 1..Len(h[c - 1])
    BY <2>2, <2>3
  <2>6. Prefix(c)
    BY <2>2, <2>3, <2>4, <2>5
  <2> HIDE DEF Prefix
  <2>7. i \in 0..(N - b)
    BY <1>1
  <2> QED BY <2>1, <2>6, <2>7
<1> HIDE DEF G
<1>5. 0..(N - b) \subseteq G
  BY <1>1, <1>3, <1>4, SetInductionUpTo
<1>6. N - b \in 0..(N - b) /\ b + (N - b) = N
  BY <1>1
<1>7. Prefix(N)
  <2> HIDE DEF Prefix
  <2> QED BY <1>5, <1>6 DEF G
<1> QED BY <1>7 DEF N

\* Lists a..b of nonempty lists: how many elements they have, and the last one.
LEMMA GroupLengths ==
  ASSUME NEW S, NEW ss \in Seq(Seq(S)), \A c \in DOMAIN ss : ss[c] # <<>>,
         NEW a \in 1..Len(ss), NEW b \in a..Len(ss)
  PROVE  LET L(c) == Len(FlattenSeq(SubSeq(ss, 1, c)))
         IN  /\ L(a - 1) \in Nat /\ L(b) \in Nat /\ L(a - 1) < L(b)
             /\ L(b) <= Len(FlattenSeq(ss))
             /\ Len(FlattenSeq(SubSeq(ss, a, b))) = L(b) - L(a - 1)
             /\ Last(ss[b]) = FlattenSeq(ss)[L(b)]
<1> DEFINE N == Len(ss)
           m == b - a + 1
           t == SubSeq(ss, a, b)
<1>1. N \in Nat /\ a \in Nat /\ b \in Nat /\ a - 1 \in 0..N /\ b \in 1..N /\ b \in 0..N
      /\ m \in Nat /\ m >= 1 /\ b - 1 \in 0..N /\ a - 1 <= b - 1
  OBVIOUS
<1>2. PICK h : /\ Joins(h, S, ss)
               /\ \A c \in 0..N : FlattenSeq(SubSeq(ss, 1, c)) = h[c]
               /\ FlattenSeq(ss) = h[N]
  BY FlattenPrefixes
<1>3. t \in Seq(Seq(S)) /\ Len(t) = m /\ \A i \in 1..m : t[i] = ss[a - 1 + i]
  OBVIOUS
<1>4. PICK k : Joins(k, S, t)
  BY <1>3, JoinsExist
<1>5. FlattenSeq(t) = k[m]
  BY <1>3, <1>4, FlattenJoins
<1>6. /\ \A c \in 0..N : Len(h[c]) \in Nat
      /\ \A c \in 1..N : Joint(h, ss, c)
  BY <1>2, JoinedLists
<1>7. /\ \A c \in 0..m : Len(k[c]) \in Nat
      /\ \A c \in 1..m : Len(k[c]) = Len(k[c - 1]) + Len(t[c])
      /\ k[0] = <<>>
  <2>1. /\ \A c \in 0..Len(t) : Len(k[c]) \in Nat
        /\ \A c \in 1..Len(t) : Joint(k, t, c)
    BY <1>3, <1>4, JoinedLists
  <2>2. k[0] = <<>>
    BY <1>4 DEF Joins
  <2> QED BY <1>3, <2>1, <2>2 DEF Joint
<1>8. \A c \in 1..N : ss[c] \in Seq(S) /\ Len(ss[c]) >= 1
  <2> SUFFICES ASSUME NEW c \in 1..N PROVE ss[c] \in Seq(S) /\ Len(ss[c]) >= 1
    OBVIOUS
  <2>1. ss[c] \in Seq(S) /\ ss[c] # <<>>
    OBVIOUS
  <2>2. \A x \in Seq(S) : x # <<>> => Len(x) >= 1
    OBVIOUS
  <2> QED BY <2>1, <2>2
<1> HIDE DEF N, m, t
<1>9. \A c \in 0..m : Len(k[c]) = Len(h[a - 1 + c]) - Len(h[a - 1])
  <2> DEFINE G == {c \in 0..m : Len(k[c]) = Len(h[a - 1 + c]) - Len(h[a - 1])}
  <2>1. 0 \in G
    <3>1. Len(k[0]) = 0 /\ a - 1 + 0 = a - 1 /\ 0 \in 0..m /\ Len(h[a - 1]) \in Nat
      <4>1. Len(k[0]) = 0 /\ a - 1 + 0 = a - 1 /\ 0 \in 0..m
        BY <1>1, <1>7
      <4> QED BY <1>1, <1>6, <4>1
    <3>2. Len(h[a - 1]) - Len(h[a - 1]) = 0
      BY <3>1
    <3> QED BY <3>1, <3>2
  <2>2. ASSUME NEW c \in 1..m, c - 1 \in G PROVE c \in G
    <3>1. PICK d \in 1..N : d = a - 1 + c /\ a - 1 + (c - 1) = d - 1
      <4>1. a - 1 + c \in 1..N /\ a - 1 + (c - 1) = (a - 1 + c) - 1
        BY <1>1 DEF m
      <4> QED BY <4>1
    <3>2. Len(k[c]) = Len(k[c - 1]) + Len(ss[d])
      <4>1. t[c] = ss[d]
        BY <1>3, <3>1
      <4> QED BY <1>7, <4>1
    <3>3. Len(h[d]) = Len(h[d - 1]) + Len(ss[d]) /\ Len(h[d]) \in Nat /\ Len(h[d - 1]) \in Nat
          /\ Len(ss[d]) \in Nat
      <4>1. Joint(h, ss, d)
        BY <1>6
      <4> QED BY <4>1 DEF Joint
    <3>4. Len(k[c - 1]) = Len(h[d - 1]) - Len(h[a - 1]) /\ Len(h[a - 1]) \in Nat
      BY <1>1, <1>6, <2>2, <3>1
    <3>5. Len(k[c]) = Len(h[d]) - Len(h[a - 1]) /\ c \in 0..m
      BY <1>1, <3>2, <3>3, <3>4
    <3> QED BY <3>1, <3>5
  <2> HIDE DEF G
  <2>3. 0..m \subseteq G
    BY <1>1, <2>1, <2>2, SetInductionUpTo
  <2> QED BY <2>3 DEF G
<1>10. Len(FlattenSeq(t)) = Len(h[b]) - Len(h[a - 1])
  <2>1. m \in 0..m /\ a - 1 + m = b
    BY <1>1 DEF m
  <2> QED BY <1>5, <1>9, <2>1
<1>11. Len(h[a - 1]) <= Len(h[b - 1])
  <2>1. m - 1 \in 0..m /\ a - 1 + (m - 1) = b - 1
    BY <1>1 DEF m
  <2>2. Len(k[m - 1]) = Len(h[b - 1]) - Len(h[a - 1]) /\ Len(k[m - 1]) \in Nat
    BY <1>7, <1>9, <2>1
  <2> QED BY <1>1, <1>6, <2>2
<1>12. /\ Len(h[b]) = Len(h[b - 1]) + Len(ss[b]) /\ Len(ss[b]) \in Nat /\ Len(ss[b]) >= 1
       /\ h[b][Len(h[b - 1]) + Len(ss[b])] = ss[b][Len(ss[b])]
       /\ Len(h[b]) \in Nat /\ Len(h[b - 1]) \in Nat /\ Len(h[a - 1]) \in Nat
  <2>1. Joint(h, ss, b) /\ Len(ss[b]) >= 1
    BY <1>1, <1>6, <1>8
  <2>2. Len(ss[b]) \in 1..Len(ss[b])
    BY <2>1 DEF Joint
  <2>3. Len(h[a - 1]) \in Nat
    BY <1>1, <1>6
  <2> QED BY <2>1, <2>2, <2>3 DEF Joint
<1>13. Last(ss[b]) = h[b][Len(h[b])]
  BY <1>12 DEF Last
<1>14. Len(h[b]) <= Len(h[N]) /\ \A j \in 1..Len(h[b]) : h[N][j] = h[b][j]
  BY <1>1, <1>2, JoinedPrefix DEF N
<1>15. Len(h[b]) \in 1..Len(h[b])
  <2>1. PICK u, v, w : u = Len(h[b]) /\ v = Len(h[b - 1]) /\ w = Len(ss[b])
    OBVIOUS
  <2>2. u \in Nat /\ v \in Nat /\ w \in Nat /\ w >= 1 /\ u = v + w
    BY <1>12, <2>1
  <2>3. u \in 1..u
    BY <2>2
  <2> QED BY <2>1, <2>3
<1>16. /\ Len(h[a - 1]) < Len(h[b]) /\ Len(h[b]) <= Len(h[N])
       /\ Last(ss[b]) = h[N][Len(h[b])]
  <2>1. PICK u, v, w, z : u = Len(h[b]) /\ v = Len(h[b - 1]) /\ w = Len(ss[b]) /\ z = Len(h[a - 1])
    OBVIOUS
  <2>2. u \in Nat /\ v \in Nat /\ w \in Nat /\ w >= 1 /\ u = v + w /\ z \in Nat /\ z <= v
    BY <1>11, <1>12, <2>1
  <2>3. z < u
    BY <2>2
  <2> QED BY <1>13, <1>14, <1>15, <2>1, <2>3
<1>17. FlattenSeq(SubSeq(ss, 1, a - 1)) = h[a - 1] /\ FlattenSeq(SubSeq(ss, 1, b)) = h[b]
  BY <1>1, <1>2
<1> QED BY <1>2, <1>10, <1>12, <1>16, <1>17 DEF t
-----------------------------------------------------------------------------
(* Braiding: labels and targets.                                           *)

\* What braiding does to the instructions there are: labels change, and
\* targets become labels.
Rewoven(s, t, n) ==
    \A i \in 1..n :
        /\ t.instr[i].address = s.instr[i].address
        /\ t.instr[i].target = s.instr[i].target \/ t.instr[i].target.by # "offset"
Weaves(s, n, bs, f) == {t \in States(n, bs, f) : Rewoven(s, t, n)}

\* A new label is such a change.
LEMMA RelabelWeaves ==
  ASSUME NEW n \in Nat, NEW bs, NEW f, NEW s, NEW t \in Weaves(s, n, bs, f),
         NEW i \in 1..n, NEW l \in LabelT
  PROVE  Relabel(t, i, l) \in Weaves(s, n, bs, f)
<1> DEFINE u == Relabel(t, i, l)
<1>1. t \in States(n, bs, f) /\ Rewoven(s, t, n)
  BY DEF Weaves
<1>2. /\ u \in States(n, bs, f)
      /\ u.instr[i] = [t.instr[i] EXCEPT !.label = l]
      /\ u.instr[i].target = t.instr[i].target
      /\ \A j \in 1..n : j # i => u.instr[j] = t.instr[j]
  BY <1>1, RelabelKeeps
<1> HIDE DEF u
<1>3. u.instr[i].address = t.instr[i].address
  <2>1. t.instr[i] \in InstrT(n)
    BY <1>1 DEF States
  <2>2. \A x \in InstrT(n) : [x EXCEPT !.label = l].address = x.address
    BY DEF InstrT
  <2> QED BY <1>2, <2>1, <2>2
<1>4. Rewoven(s, u, n)
  BY <1>1, <1>2, <1>3 DEF Rewoven
<1> QED BY <1>2, <1>4 DEF Weaves, u

\* A new target that is no offset is such a change.
LEMMA RetargetWeaves ==
  ASSUME NEW n \in Nat, NEW bs, NEW f, NEW s, NEW t \in Weaves(s, n, bs, f),
         NEW i \in 1..n, NEW a \in Targets(n), a.by # "offset"
  PROVE  Retarget(t, i, a) \in Weaves(s, n, bs, f)
<1> DEFINE u == Retarget(t, i, a)
<1>1. t \in States(n, bs, f) /\ Rewoven(s, t, n)
  BY DEF Weaves
<1>2. /\ u \in States(n, bs, f)
      /\ u.instr[i] = [t.instr[i] EXCEPT !.target = a]
      /\ u.instr[i].target = a
      /\ \A j \in 1..n : j # i => u.instr[j] = t.instr[j]
  BY <1>1, RetargetKeeps
<1> HIDE DEF u
<1>3. u.instr[i].address = t.instr[i].address
  <2>1. t.instr[i] \in InstrT(n)
    BY <1>1 DEF States
  <2>2. \A x \in InstrT(n) : [x EXCEPT !.target = a].address = x.address
    BY DEF InstrT
  <2> QED BY <1>2, <2>1, <2>2
<1>4. Rewoven(s, u, n)
  BY <1>1, <1>2, <1>3 DEF Rewoven
<1> QED BY <1>2, <1>4 DEF Weaves, u

\* Labels stay labels.
LEMMA SuffixedTypes ==
  ASSUME NEW l \in LabelT, NEW x \in {"_1", "_2", "_braid"}
  PROVE  Suffixed(l, x) \in LabelT
<1>1. Append(l.suffix, x) \in Seq({"_1", "_2", "_braid"})
  BY DEF LabelT
<1> QED BY <1>1 DEF Suffixed, LabelT

\* A branch that goes to an instruction by its label.
LEMMA BraidWeaves ==
  ASSUME NEW n \in Nat, NEW bs, NEW f, NEW s, NEW t \in Weaves(s, n, bs, f),
         NEW i \in 1..n, NEW to \in 1..n
  PROVE  Braid(t, i, to) \in Weaves(s, n, bs, f)
<1> DEFINE a == ToLabel(t.instr[to].label, to)
<1>1. t.instr[to].label \in LabelT
  BY DEF Weaves, States, InstrT
<1>2. a \in Targets(n) /\ a.by = "label"
  <2>1. to \in 0..n
    OBVIOUS
  <2> QED BY <1>1, <2>1, TargetTypes
<1>3. Braid(t, i, to) = Retarget(t, i, a) \/ Braid(t, i, to) = t
  BY DEF Braid
<1> HIDE DEF a
<1>4. Retarget(t, i, a) \in Weaves(s, n, bs, f)
  BY <1>2, RetargetWeaves
<1> QED BY <1>3, <1>4

\* The four instructions where a relative branch changes strand.
LEMMA BraidPairWeaves ==
  ASSUME NEW n \in Nat, NEW bs, NEW f, NEW s, NEW t \in Weaves(s, n, bs, f),
         NEW base \in 1..n, NEW new \in 1..n, NEW jumpBase \in 1..n, NEW jumpNew \in 1..n
  PROVE  BraidPair(t, base, new, jumpBase, jumpNew) \in Weaves(s, n, bs, f)
<1> DEFINE V == Weaves(s, n, bs, f)
           u == Relabel(t, new, Suffixed(t.instr[new].label, "_2"))
           v == Braid(u, jumpBase, new)
           w == Relabel(v, base, Suffixed(v.instr[base].label, "_1"))
           x == IF base = new THEN v ELSE w
           y == Braid(x, jumpNew, base)
<1>1. \A z \in V, i \in 1..n : z.instr[i].label \in LabelT
  BY DEF Weaves, States, InstrT
<1>2. BraidPair(t, base, new, jumpBase, jumpNew) \in {v, y}
  BY DEF BraidPair
<1> HIDE DEF V
<1>3. u \in V
  <2>1. Suffixed(t.instr[new].label, "_2") \in LabelT
    BY <1>1, SuffixedTypes DEF V
  <2> QED BY <2>1, RelabelWeaves DEF V
<1> HIDE DEF u
<1>4. v \in V
  BY <1>3, BraidWeaves DEF V
<1> HIDE DEF v
<1>5. w \in V
  <2>1. Suffixed(v.instr[base].label, "_1") \in LabelT
    BY <1>1, <1>4, SuffixedTypes
  <2> QED BY <1>4, <2>1, RelabelWeaves DEF V
<1>6. x \in V
  BY <1>4, <1>5
<1> HIDE DEF x
<1>7. y \in V
  BY <1>6, BraidWeaves DEF V
<1> QED BY <1>2, <1>4, <1>7 DEF V

\* One instruction and its copy.
LEMMA RelabelPairWeaves ==
  ASSUME NEW n \in Nat, NEW bs, NEW f, NEW s, NEW t \in Weaves(s, n, bs, f),
         NEW x \in Seq(1..n), NEW y \in Seq(1..n), Len(x) = Len(y), NEW k \in 1..Len(x)
  PROVE  RelabelPair(t, x, y, k) \in Weaves(s, n, bs, f)
<1> DEFINE before == IF k = 1 THEN Len(x) ELSE k - 1
           label == t.instr[x[k]].label
           r == RelabelPair(t, x, y, k)
<1>1. before \in 1..Len(x) /\ k \in 1..Len(x)
  OBVIOUS
<1>2. x[k] \in 1..n /\ y[k] \in 1..n /\ x[before] \in 1..n /\ y[before] \in 1..n
  <2> HIDE DEF before
  <2> QED BY <1>1
<1>3. label \in LabelT
  <2>1. \A i \in 1..n : t.instr[i].label \in LabelT
    BY DEF Weaves, States, InstrT
  <2> QED BY <1>2, <2>1
<1>4. r \in {t, BraidPair(t, x[k], y[k], x[before], y[before]),
             Relabel(t, y[k], Suffixed(label, "_braid"))}
  BY DEF RelabelPair
<1> HIDE DEF before, label, r
<1>5. BraidPair(t, x[k], y[k], x[before], y[before]) \in Weaves(s, n, bs, f)
  BY <1>2, BraidPairWeaves
<1>6. Relabel(t, y[k], Suffixed(label, "_braid")) \in Weaves(s, n, bs, f)
  <2>1. Suffixed(label, "_braid") \in LabelT
    BY <1>3, SuffixedTypes
  <2> QED BY <1>2, <2>1, RelabelWeaves
<1> QED BY <1>4, <1>5, <1>6 DEF r

\* All instructions and their copies.
LEMMA RelabelledWeaves ==
  ASSUME NEW n \in Nat, NEW bs, NEW f, NEW s \in States(n, bs, f),
         NEW x \in Seq(1..n), NEW y \in Seq(1..n), Len(x) = Len(y)
  PROVE  Relabelled(s, x, y) \in Weaves(s, n, bs, f)
<1> DEFINE N == Len(x)
           V == Weaves(s, n, bs, f)
           Is(g) == g = [k \in 0..N |-> IF k = 0 THEN s ELSE RelabelPair(g[k - 1], x, y, k)]
           turn == [k \in 1..N |-> [u \in V |-> RelabelPair(u, x, y, k)]]
           g == CHOOSE h : Is(h)
<1>1. N \in Nat
  OBVIOUS
<1>2. \A k \in 1..N, u \in V : RelabelPair(u, x, y, k) \in V
  BY RelabelPairWeaves
<1>3. Relabelled(s, x, y) = g[N]
  BY DEF Relabelled
<1>4. s \in V
  BY DEF Weaves, Rewoven
<1> HIDE DEF V, N
<1>5. \A k \in 1..N : \A u \in V : turn[k][u] = RelabelPair(u, x, y, k)
  OBVIOUS
<1>6. StepsInto(turn, N, V)
  BY <1>2, <1>5 DEF StepsInto
<1> HIDE DEF turn
<1>7. PICK h \in [0..N -> V] : Unrolls(h, N, s, turn)
  BY <1>1, <1>4, <1>6, RecursiveFunction
<1>8. \A k \in 0..N : k # 0 => k \in 1..N /\ k - 1 \in 0..N
  BY <1>1
<1>9. Is(h)
  <2>1. \A k \in 0..N : h[k] = IF k = 0 THEN s ELSE RelabelPair(h[k - 1], x, y, k)
    <3> SUFFICES ASSUME NEW k \in 0..N
                 PROVE h[k] = IF k = 0 THEN s ELSE RelabelPair(h[k - 1], x, y, k)
      OBVIOUS
    <3>1. CASE k = 0
      BY <1>7, <3>1 DEF Unrolls
    <3>2. CASE k # 0
      <4>1. k \in 1..N /\ h[k - 1] \in V
        BY <1>7, <1>8, <3>2
      <4>2. h[k] = turn[k][h[k - 1]]
        BY <1>7, <4>1 DEF Unrolls
      <4> QED BY <1>5, <3>2, <4>1, <4>2
    <3> QED BY <3>1, <3>2
  <2> QED BY <2>1
<1>10. Is(g)
  <2> HIDE DEF Is
  <2> QED BY <1>9
<1> HIDE DEF g
<1>11. g[0] = s /\ \A k \in 1..N : g[k] = RelabelPair(g[k - 1], x, y, k)
  BY <1>1, <1>8, <1>10
<1>12. g[N] \in V
  <2> DEFINE G == {k \in 0..N : g[k] \in V}
  <2>1. 0 \in G
    BY <1>1, <1>4, <1>11
  <2>2. ASSUME NEW k \in 1..N, k - 1 \in G PROVE k \in G
    <3>1. k \in 0..N
      BY <1>1
    <3> QED BY <1>2, <1>11, <2>2, <3>1
  <2> HIDE DEF G
  <2>3. 0..N \subseteq G
    BY <1>1, <2>1, <2>2, SetInductionUpTo
  <2>4. N \in 0..N
    BY <1>1
  <2> QED BY <2>3, <2>4 DEF G
<1> QED BY <1>3, <1>12 DEF V
-----------------------------------------------------------------------------
(* Braiding: the copies are inserted, group by group.                      *)

\* More objects, or a later position, are no reason not to suit.
LEMMA TypesGrow ==
  ASSUME NEW n \in Nat, NEW m \in Nat, n <= m
  PROVE  /\ Targets(n) \subseteq Targets(m) /\ InstrT(n) \subseteq InstrT(m)
         /\ Registers(n) \subseteq Registers(m)
<1>1. 0..n \subseteq 0..m
  OBVIOUS
<1>2. Targets(n) \subseteq Targets(m)
  BY <1>1 DEF Targets
<1>3. InstrT(n) \subseteq InstrT(m)
  BY <1>2 DEF InstrT
<1>4. \A r \in Seq(Targets(n)) : r \in Seq(Targets(m))
  BY <1>2
<1> QED BY <1>2, <1>3, <1>4 DEF Registers

\* What suits a position suits the ones behind it.
LEMMA SuitsGrow ==
  ASSUME NEW n, NEW i \in InstrT(n), NEW p \in Nat, NEW q \in Nat, p <= q, Suits(i, p)
  PROVE  Suits(i, q)
<1>1. i.address \in Int /\ i.target.disp \in Int
  BY DEF InstrT, Targets, None
<1> QED BY <1>1 DEF Suits

\* The instructions of a block may be among more.
LEMMA KnownMore ==
  ASSUME NEW b, NEW own, Known(b, own), NEW more, own \subseteq more
  PROVE  Known(b, more)
<1>1. b.slot \in [DOMAIN b.slot -> more]
  <2>1. b.slot \in [DOMAIN b.slot -> own]
    BY DEF Known
  <2> QED BY <2>1
<1>2. DOMAIN b.index \subseteq more
  BY DEF Known
<1> QED BY <1>1, <1>2 DEF Known

\* While the copies of the body x are inserted, with "used" of the "all" copies
\* in the one block: the m objects are the first n, the copies and the jumps;
\* an instruction of x is where it was or behind, and nothing is closer to the
\* beginning than its address and its offset allow.
Braiding(s, m, n, x, f, all, used, fi) ==
    LET y == Instrs(s.blocks[1])
    IN  /\ m \in Nat /\ n + all <= m /\ s \in States(m, s.blocks, fi) /\ Addressed(s)
        /\ Len(s.blocks) = 1 /\ DOMAIN s.blocks = 1..1
        /\ Known(s.blocks[1], (1..n \ Elems(fi)) \cup (n + 1)..(n + used)
                                 \cup (n + all + 1)..m)
        /\ \A q \in 1..Len(x) : \E r \in 1..Len(y) : r >= q /\ y[r] = x[q]
        /\ \A r \in 1..Len(y) : Suits(s.instr[y[r]], r)
        /\ \A j \in 1..all : Suits(s.instr[n + j], f + j)
        /\ \A j \in 1..Len(fi) : Suits(s.instr[fi[j]], Len(y) + j)

\* A raised exception changes none of this, and more copies may be in use.
LEMMA RaisedBraids ==
  ASSUME NEW n \in Nat, NEW all \in Nat, NEW used \in 0..all, NEW more \in used..all,
         NEW m, NEW x, NEW f, NEW fi, NEW s, Braiding(s, m, n, x, f, all, used, fi)
  PROVE  Braiding([s EXCEPT !.ok = FALSE], m, n, x, f, all, more, fi)
<1> DEFINE t == [s EXCEPT !.ok = FALSE]
           own == (1..n \ Elems(fi)) \cup (n + 1)..(n + used) \cup (n + all + 1)..m
           new == (1..n \ Elems(fi)) \cup (n + 1)..(n + more) \cup (n + all + 1)..m
<1>1. m \in Nat /\ s \in States(m, s.blocks, fi) /\ Known(s.blocks[1], own)
  BY DEF Braiding
<1>2. t.instr = s.instr /\ t.blocks = s.blocks /\ t \in States(m, s.blocks, fi)
  BY <1>1 DEF States
<1>3. own \subseteq new
  <2>1. (n + 1)..(n + used) \subseteq (n + 1)..(n + more)
    OBVIOUS
  <2> QED BY <2>1
<1> HIDE DEF own, new, t
<1>4. Known(s.blocks[1], new)
  BY <1>1, <1>3, KnownMore
<1>5. Addressed(t)
  BY <1>2 DEF Braiding, Addressed
<1>6. Braiding(t, m, n, x, f, all, more, fi)
  BY <1>2, <1>4, <1>5 DEF Braiding, new
<1> QED BY <1>6 DEF t

\* The jump and the copies of a group.
LEMMA NewOfGroup ==
  ASSUME NEW m \in Nat, NEW c \in Nat, NEW size \in Nat
  PROVE  LET new == <<m>> \o [k \in 1..size |-> c + k]
         IN  /\ Len(new) = size + 1
             /\ new[1] = m /\ \A k \in 1..size : new[k + 1] = c + k
             /\ Elems(new) = {m} \cup (c + 1)..(c + size)
             /\ \A j \in 1..(size + 1) : j = 1 \/ j - 1 \in 1..size
<1> DEFINE y == [k \in 1..size |-> c + k]
           new == <<m>> \o y
<1>1. <<m>> \in Seq(Nat) /\ Len(<<m>>) = 1 /\ <<m>>[1] = m
  OBVIOUS
<1>2. y \in Seq(Nat) /\ Len(y) = size /\ \A k \in 1..size : y[k] = c + k
  OBVIOUS
<1> HIDE DEF y
<1>3. /\ Len(new) = 1 + size
      /\ \A j \in 1..1 : new[j] = <<m>>[j]
      /\ \A j \in 1..size : new[1 + j] = y[j]
  BY <1>1, <1>2, JoinedIs
<1> HIDE DEF new
<1>4. new[1] = m /\ \A k \in 1..size : new[k + 1] = c + k
  <2>1. new[1] = m
    BY <1>1, <1>3
  <2>2. \A k \in 1..size : k + 1 = 1 + k
    OBVIOUS
  <2>3. \A k \in 1..size : new[1 + k] = c + k
    BY <1>2, <1>3
  <2> QED BY <2>1, <2>2, <2>3
<1>5. \A j \in 1..(size + 1) : j = 1 \/ j - 1 \in 1..size
  OBVIOUS
<1>6. Elems(new) = {m} \cup (c + 1)..(c + size)
  <2>1. Elems(new) = {new[j] : j \in 1..(size + 1)}
    BY <1>3 DEF Elems
  <2>2. \A j \in 1..(size + 1) : new[j] \in {m} \cup (c + 1)..(c + size)
    <3> SUFFICES ASSUME NEW j \in 1..(size + 1), j # 1
                 PROVE new[j] \in (c + 1)..(c + size)
      BY <1>4
    <3>1. j - 1 \in 1..size /\ (j - 1) + 1 = j
      BY <1>5
    <3>2. new[(j - 1) + 1] = c + (j - 1)
      BY <1>4, <3>1
    <3> QED BY <3>1, <3>2
  <2>3. ASSUME NEW i \in (c + 1)..(c + size) PROVE \E j \in 1..(size + 1) : new[j] = i
    <3>1. i - c \in 1..size /\ c + (i - c) = i /\ i - c + 1 \in 1..(size + 1)
      OBVIOUS
    <3>2. new[(i - c) + 1] = c + (i - c)
      BY <1>4, <3>1
    <3> QED BY <3>1, <3>2
  <2>4. 1 \in 1..(size + 1)
    OBVIOUS
  <2> QED BY <1>4, <2>1, <2>2, <2>3, <2>4
<1> QED BY <1>3, <1>4, <1>5, <1>6 DEF new, y

\* What the insertion of a group needs to know of it: its last instruction and
\* the one its jump goes to, and how many copies have been inserted before.
Group(chunks, a, b, x, n, f, all, used, more, head) ==
    /\ used \in 0..all /\ more \in 1..all /\ used < more /\ f + more <= Len(x)
    /\ Len(FlattenSeq(SubSeq(chunks, a, b))) = more - used
    /\ Last(chunks[b]) = x[f + more]
    /\ (IF b = Len(chunks) THEN head ELSE chunks[b + 1][1]) \in 1..n

\* The insertion of a group of chunks, at its jump.
LEMMA InsertGroupBraids ==
  ASSUME NEW n \in Nat, NEW all \in Nat, NEW f \in Nat \ {0}, NEW x \in Seq(1..n),
         NEW fi \in Seq(1..n), NEW m, NEW s, NEW chunks, NEW a, NEW b, NEW head,
         NEW used, NEW more, Size(case) \in Nat, Braiding(s, m, n, x, f, all, used, fi),
         Group(chunks, a, b, x, n, f, all, used, more, head)
  PROVE  \E k : Braiding(InsertGroup(s, chunks, a, b, head, n + used), k, n, x, f, all, more, fi)
<1> DEFINE t == InsertGroup(s, chunks, a, b, head, n + used)
           after == Last(chunks[b])
           before == IF b = Len(chunks) THEN head ELSE chunks[b + 1][1]
           size == Len(FlattenSeq(SubSeq(chunks, a, b)))
           target == ToLabel(s.instr[before].label, before)
           jump == [kind |-> "jump", origin |-> 0, strand |-> 1,
                    address |-> s.instr[after].address + 1, label |-> NoLabel,
                    target |-> target]
           new == <<Len(s.instr) + 1>> \o [k \in 1..size |-> n + used + k]
           blk == s.blocks[1]
           y == Instrs(blk)
           own == (1..n \ Elems(fi)) \cup (n + 1)..(n + used) \cup (n + all + 1)..m
<1>1. /\ m \in Nat /\ n + all <= m /\ s \in States(m, s.blocks, fi) /\ Addressed(s)
      /\ Len(s.blocks) = 1 /\ DOMAIN s.blocks = 1..1
      /\ Known(blk, own)
      /\ \A q \in 1..Len(x) : \E r \in 1..Len(y) : r >= q /\ y[r] = x[q]
      /\ \A r \in 1..Len(y) : Suits(s.instr[y[r]], r)
      /\ \A j \in 1..all : Suits(s.instr[n + j], f + j)
      /\ \A j \in 1..Len(fi) : Suits(s.instr[fi[j]], Len(y) + j)
  BY DEF Braiding
<1>2. /\ used \in 0..all /\ more \in 1..all /\ used < more /\ f + more <= Len(x)
      /\ size = more - used /\ after = x[f + more] /\ before \in 1..n
  BY DEF Group
<1>n. /\ m \in Nat /\ n \in Nat /\ all \in Nat /\ used \in Nat /\ more \in Nat /\ f \in Nat
      /\ Len(x) \in Nat /\ size \in Nat /\ size + used = more
      /\ n + all <= m /\ used < more /\ more <= all /\ f + more <= Len(x)
  <2>1. m \in Nat /\ n + all <= m
    BY <1>1
  <2>2. used \in Nat /\ more \in Nat /\ Len(x) \in Nat
    BY <1>2
  <2>3. size \in Nat /\ size + used = more
    BY <1>2, <2>2
  <2> QED BY <1>2, <2>1, <2>2, <2>3
<1>3. Len(s.instr) = m /\ s.instr \in [1..m -> InstrT(m)] /\ DOMAIN s.instr = 1..m
      /\ s.registers \in Registers(m)
  BY <1>1, StatesSize DEF States
<1>t. \/ t = [s EXCEPT !.ok = FALSE]
      \/ /\ s.instr[after].address # None
         /\ t = [s EXCEPT !.instr = Append(s.instr, jump),
                          !.blocks[1] = InsertInstr(s.blocks[1], new, before, after)]
  BY <1>1 DEF InsertGroup
<1> HIDE DEF t, after, before, size, y, own, blk, target
<1>4. CASE t = [s EXCEPT !.ok = FALSE]
  <2>1. more \in used..all
    BY <1>2
  <2>2. Braiding([s EXCEPT !.ok = FALSE], m, n, x, f, all, more, fi)
    BY <1>2, <2>1, RaisedBraids
  <2> QED BY <1>4, <2>2 DEF t
<1>5. CASE /\ s.instr[after].address # None
           /\ t = [s EXCEPT !.instr = Append(s.instr, jump),
                            !.blocks[1] = InsertInstr(s.blocks[1], new, before, after)]
  <2> DEFINE c == InsertInstr(blk, new, before, after)
             z == Instrs(c)
             k == size + 1
  <2>1. size \in Nat /\ k \in Nat \ {0} /\ k <= f + more /\ f + more \in 1..Len(x)
    BY <1>2
  <2>2. /\ Len(new) = k
        /\ new[1] = m + 1 /\ \A j \in 1..size : new[j + 1] = n + used + j
        /\ Elems(new) = {m + 1} \cup (n + used + 1)..(n + more)
        /\ \A j \in 1..k : j = 1 \/ j - 1 \in 1..size
    <3>1. m + 1 \in Nat /\ n + used \in Nat /\ n + used + size = n + more
      BY <1>n
    <3>2. new = <<m + 1>> \o [j \in 1..size |-> n + used + j]
      BY <1>3
    <3> HIDE DEF new
    <3> QED BY <2>1, <3>1, <3>2, NewOfGroup
  <2> HIDE DEF new, k
  <2>3. \A j \in 1..k : new[j] \notin own
    <3>1. \A j \in 1..k : new[j] \in Elems(new)
      BY <2>2 DEF Elems
    <3>2. \A i \in Elems(new) : i = m + 1 \/ i \in (n + used + 1)..(n + more)
      BY <2>2
    <3>3. \A i \in own : i \in 1..n \/ i \in (n + 1)..(n + used) \/ i \in (n + all + 1)..m
      BY DEF own
    <3>4. /\ m + 1 \notin 1..n /\ m + 1 \notin (n + 1)..(n + used)
          /\ m + 1 \notin (n + all + 1)..m
      BY <1>n
    <3>5. \A i \in (n + used + 1)..(n + more) :
            i \notin 1..n /\ i \notin (n + 1)..(n + used) /\ i \notin (n + all + 1)..m
      BY <1>n
    <3> QED BY <3>1, <3>2, <3>3, <3>4, <3>5
  <2>4. \A i, j \in 1..k : new[i] = new[j] => i = j
    <3>1. \A j \in 1..k : new[j] = IF j = 1 THEN m + 1 ELSE n + used + (j - 1)
      <4> SUFFICES ASSUME NEW j \in 1..k
                   PROVE new[j] = IF j = 1 THEN m + 1 ELSE n + used + (j - 1)
        OBVIOUS
      <4>1. CASE j = 1
        BY <2>2, <4>1
      <4>2. CASE j # 1
        <5>1. j - 1 \in 1..size /\ (j - 1) + 1 = j
          BY <1>n, <4>2 DEF k
        <5>2. new[(j - 1) + 1] = n + used + (j - 1)
          BY <2>2, <5>1
        <5> QED BY <4>2, <5>1, <5>2
      <4> QED BY <4>1, <4>2
    <3>2. \A j \in 1..k : j # 1 => n + used + (j - 1) < m + 1
      BY <1>n DEF k
    <3>3. k \in Nat /\ n + used \in Nat /\ m \in Nat
      BY <1>n, <2>1
    <3>4. PICK c0 : c0 = n + used
      OBVIOUS
    <3>5. \A i, j \in 1..k :
            (IF i = 1 THEN m + 1 ELSE c0 + (i - 1)) = (IF j = 1 THEN m + 1 ELSE c0 + (j - 1))
              => i = j
      BY <3>2, <3>3, <3>4
    <3> QED BY <3>1, <3>4, <3>5
  <2>5. PICK q0 \in 1..Len(y) : q0 >= f + more /\ y[q0] = after
    BY <1>1, <1>2, <2>1
  <2>6. k <= q0
    BY <1>1, <2>1, <2>5
  <2>7. Known(c, own \cup Elems(new)) /\ Inserted(blk, c, new, q0)
    <3>1. q0 \in 1..Len(Instrs(blk)) /\ after = Instrs(blk)[q0]
      BY <2>5 DEF y
    <3> HIDE DEF c
    <3>2. \A w : w = InsertInstr(blk, new, before, Instrs(blk)[q0]) =>
                   Known(w, own \cup Elems(new)) /\ Inserted(blk, w, new, q0)
      <4>1. k \in Nat \ {0} /\ Len(new) = k /\ Known(blk, own)
        BY <1>1, <2>1, <2>2
      <4>2. SUFFICES Known(InsertInstr(blk, new, before, Instrs(blk)[q0]), own \cup Elems(new))
                     /\ Inserted(blk, InsertInstr(blk, new, before, Instrs(blk)[q0]), new, q0)
        OBVIOUS
      <4> QED BY <2>3, <2>4, <2>6, <3>1, <4>1, InsertKnown
    <3> QED BY <3>1, <3>2 DEF c
  <2> HIDE DEF c, z
  <2>8. PICK g \in [1..Len(y) -> 1..Len(z)] :
          /\ \A q \in 1..Len(y) : z[g[q]] = y[q] /\ g[q] >= q
          /\ \A r \in 1..Len(z) :
               \/ \E q \in 1..Len(y) : r = g[q]
               \/ z[r] \in Elems(new) /\ r > g[q0]
    BY <2>7 DEF Inserted, y, z
  <2>9. /\ Len(y) \in Nat /\ Len(z) \in Nat
        /\ \A r \in 1..Len(y) : y[r] \in own
        /\ \A q \in 1..Len(y) : g[q] \in 1..Len(z)
    <3>1. y \in Seq(own)
      BY <1>1, KnownShows DEF y
    <3>2. z \in Seq(own \cup Elems(new))
      BY <2>7, KnownShows DEF z
    <3>3. Len(y) \in Nat /\ Len(z) \in Nat /\ \A r \in 1..Len(y) : y[r] \in own
      BY <3>1, <3>2
    <3> QED BY <2>8, <3>3
  <2>10. Len(y) <= Len(z)
    <3>1. CASE Len(y) = 0
      BY <2>9, <3>1
    <3>2. CASE Len(y) # 0
      <4>1. Len(y) \in 1..Len(y)
        BY <2>9, <3>2
      <4>2. g[Len(y)] >= Len(y) /\ g[Len(y)] \in 1..Len(z)
        BY <2>8, <2>9, <4>1
      <4> QED BY <2>9, <4>2
    <3> QED BY <3>1, <3>2
  <2>11. own \subseteq 1..m /\ \A i \in 1..n : i \in 1..m /\ i \in 1..(m + 1)
    <3>1. \A i \in 1..n : i \in 1..m /\ i \in 1..(m + 1)
      BY <1>n
    <3>2. \A i \in (n + 1)..(n + used) : i \in 1..m
      BY <1>n
    <3>3. \A i \in (n + all + 1)..m : i \in 1..m
      BY <1>n
    <3> QED BY <3>1, <3>2, <3>3 DEF own
  <2>12. after \in 1..m /\ before \in 1..m /\ s.instr[after].address \in Nat
    <3>1. after \in 1..m /\ before \in 1..m
      BY <1>2, <2>5, <2>9, <2>11
    <3>2. s.instr[after].address \in Nat
      BY <1>3, <1>5, <3>1 DEF InstrT
    <3> QED BY <3>1, <3>2
  <2>13. target \in Targets(m + 1) /\ target.by = "label" /\ jump \in InstrT(m + 1)
    <3>1. target \in Targets(m) /\ target.by = "label"
      <4>1. s.instr[before].label \in LabelT /\ before \in 0..m
        <5>1. s.instr[before] \in InstrT(m) /\ before \in 0..m
          BY <1>n, <1>3, <2>12
        <5> QED BY <5>1 DEF InstrT
      <4> QED BY <1>1, <4>1, TargetTypes DEF target
    <3>2. target \in Targets(m + 1)
      <4>1. m + 1 \in Nat /\ m <= m + 1
        BY <1>1
      <4> QED BY <1>1, <3>1, <4>1, TypesGrow
    <3>3. /\ "jump" \in Kinds /\ 0 \in 0..Size(case) /\ 1 \in {1, 2}
          /\ s.instr[after].address + 1 \in Nat /\ NoLabel \in LabelT
      <4>1. 0 \in 0..Size(case)
        OBVIOUS
      <4> QED BY <2>12, <4>1, LabelTypes DEF Kinds
    <3> QED BY <3>1, <3>2, <3>3 DEF InstrT
  <2> HIDE DEF jump
  <2>14. /\ t.instr = Append(s.instr, jump) /\ t.fini = s.fini
         /\ t.registers = s.registers /\ t.ok = s.ok
         /\ t.blocks = [s.blocks EXCEPT ![1] = c]
         /\ t = [instr |-> t.instr, blocks |-> t.blocks, fini |-> t.fini,
                 registers |-> t.registers, ok |-> t.ok]
    BY <1>1, <1>5 DEF States, c, blk
  <2>15. /\ t.instr \in [1..(m + 1) -> InstrT(m + 1)] /\ DOMAIN t.instr = 1..(m + 1)
         /\ \A i \in 1..m : t.instr[i] = s.instr[i]
         /\ t.instr[m + 1] = jump
    <3>1. PICK v : v = s.instr /\ v \in [1..m -> InstrT(m)]
      BY <1>3
    <3>2. v \in [1..m -> InstrT(m + 1)]
      <4>1. m + 1 \in Nat /\ m <= m + 1
        BY <1>1
      <4>2. InstrT(m) \subseteq InstrT(m + 1)
        BY <1>1, <4>1, TypesGrow
      <4> QED BY <3>1, <4>2
    <3>3. v \in Seq(InstrT(m + 1)) /\ Len(v) = m
      BY <1>1, <3>2
    <3>4. /\ Append(v, jump) \in Seq(InstrT(m + 1)) /\ Len(Append(v, jump)) = m + 1
          /\ \A i \in 1..m : Append(v, jump)[i] = v[i]
          /\ Append(v, jump)[m + 1] = jump
      BY <1>1, <2>13, <3>3
    <3>5. Append(v, jump) \in [1..(m + 1) -> InstrT(m + 1)]
      <4>1. \A z0 \in Seq(InstrT(m + 1)) : z0 \in [1..Len(z0) -> InstrT(m + 1)]
        OBVIOUS
      <4> QED BY <3>4, <4>1
    <3> QED BY <2>14, <3>1, <3>4, <3>5
  <2>16. Len(t.blocks) = 1 /\ DOMAIN t.blocks = 1..1 /\ t.blocks[1] = c
    <3>1. DOMAIN t.blocks = 1..1 /\ t.blocks[1] = c
      BY <1>1, <2>14
    <3>2. t.blocks = [i \in 1..1 |-> c]
      <4>1. t.blocks = [i \in DOMAIN s.blocks |-> IF i = 1 THEN c ELSE s.blocks[i]]
        BY <2>14
      <4> QED BY <1>1, <4>1
    <3> QED BY <3>1, <3>2
  <2>17. t \in States(m + 1, t.blocks, fi) /\ m + 1 \in Nat /\ n + all <= m + 1
    <3>1. t.registers \in Registers(m + 1)
      <4>1. m + 1 \in Nat /\ m <= m + 1
        BY <1>1
      <4> QED BY <1>1, <1>3, <2>14, <4>1, TypesGrow
    <3>2. t.ok \in BOOLEAN /\ t.fini = fi
      BY <1>1, <2>14 DEF States
    <3>3. /\ t.instr \in [1..(m + 1) -> InstrT(m + 1)]
          /\ t = [instr |-> t.instr, blocks |-> t.blocks, fini |-> fi,
                  registers |-> t.registers, ok |-> t.ok]
      BY <2>14, <2>15, <3>2
    <3>4. m + 1 \in Nat /\ n + all <= m + 1
      BY <1>n
    <3> HIDE DEF t
    <3> QED BY <3>1, <3>2, <3>3, <3>4 DEF States
  <2>18. Addressed(t)
    <3>1. jump.address # None
      BY SMTT(30), <2>13, <2>12 DEF jump, None
    <3>2. \A i \in 1..(m + 1) : i \in 1..m \/ i = m + 1
      BY <1>1
    <3> QED BY <1>1, <1>3, <2>15, <3>1, <3>2 DEF Addressed
  <2>19. Known(c, (1..n \ Elems(fi)) \cup (n + 1)..(n + more) \cup (n + all + 1)..(m + 1))
    <3>1. own \cup Elems(new) \subseteq
            (1..n \ Elems(fi)) \cup (n + 1)..(n + more) \cup (n + all + 1)..(m + 1)
      <4>1. (n + 1)..(n + used) \subseteq (n + 1)..(n + more)
        BY <1>n
      <4>2. (n + used + 1)..(n + more) \subseteq (n + 1)..(n + more)
        BY <1>n
      <4>3. (n + all + 1)..m \subseteq (n + all + 1)..(m + 1) /\ m + 1 \in (n + all + 1)..(m + 1)
        BY <1>n
      <4> QED BY <2>2, <4>1, <4>2, <4>3 DEF own
    <3> QED BY <2>7, <3>1, KnownMore
  <2>20. \A q \in 1..Len(x) : \E r \in 1..Len(z) : r >= q /\ z[r] = x[q]
    <3> SUFFICES ASSUME NEW q \in 1..Len(x) PROVE \E r \in 1..Len(z) : r >= q /\ z[r] = x[q]
      OBVIOUS
    <3>1. PICK r \in 1..Len(y) : r >= q /\ y[r] = x[q]
      BY <1>1
    <3>2. g[r] \in 1..Len(z) /\ g[r] >= q /\ z[g[r]] = x[q]
      BY <2>8, <2>9, <3>1
    <3> QED BY <3>2
  <2>21. \A r \in 1..Len(z) : Suits(t.instr[z[r]], r)
    <3> SUFFICES ASSUME NEW r \in 1..Len(z) PROVE Suits(t.instr[z[r]], r)
      OBVIOUS
    <3>1. CASE \E q \in 1..Len(y) : r = g[q]
      <4>1. PICK q \in 1..Len(y) : r = g[q]
        BY <3>1
      <4>2. z[r] = y[q] /\ y[q] \in 1..m /\ r >= q /\ Suits(s.instr[y[q]], q) /\ q \in Nat /\ r \in Nat
        <5>1. z[r] = y[q] /\ r >= q
          BY <2>8, <4>1
        <5>2. y[q] \in 1..m
          BY <2>9, <2>11
        <5> QED BY <1>1, <2>9, <5>1, <5>2
      <4>3. PICK i \in 1..m : i = z[r] /\ i = y[q]
        BY <4>2
      <4>4. t.instr[i] = s.instr[i] /\ s.instr[i] \in InstrT(m)
        BY <1>3, <2>15
      <4> QED BY <4>2, <4>3, <4>4, SuitsGrow
    <3>2. CASE z[r] = m + 1 /\ r > g[q0]
      <4>1. t.instr[z[r]] = jump /\ jump.target = target /\ jump.address = s.instr[after].address + 1
        BY <2>15, <3>2 DEF jump
      <4>2. Suits(s.instr[after], q0) /\ g[q0] >= q0 /\ g[q0] \in Nat /\ q0 \in Nat
        BY <1>1, <2>5, <2>8, <2>9
      <4>3. s.instr[after].address <= q0 - 1
        BY <4>2 DEF Suits
      <4>4. jump.address <= r - 1
        <5>1. PICK d : d = s.instr[after].address
          OBVIOUS
        <5>2. PICK v : v = g[q0]
          OBVIOUS
        <5>3. d \in Nat /\ d <= q0 - 1 /\ v >= q0 /\ v \in Nat /\ q0 \in Nat /\ r > v /\ r \in Nat
          BY <2>12, <3>2, <4>2, <4>3, <5>1, <5>2
        <5>4. d + 1 <= r - 1
          BY <5>3
        <5> QED BY <4>1, <5>1, <5>4
      <4> QED BY <2>13, <4>1, <4>4 DEF Suits
    <3>3. CASE z[r] \in (n + used + 1)..(n + more) /\ r > g[q0]
      <4>1. PICK j \in 1..all : z[r] = n + j /\ j <= more
        <5>1. z[r] - n \in 1..all /\ z[r] = n + (z[r] - n) /\ z[r] - n <= more
          <6>1. PICK i \in (n + used + 1)..(n + more) : i = z[r]
            BY <3>3
          <6>2. i - n \in 1..all /\ i = n + (i - n) /\ i - n <= more
            BY <1>n
          <6> QED BY <6>1, <6>2
        <5> QED BY <5>1
      <4>2. n + j \in 1..m /\ t.instr[z[r]] = s.instr[n + j] /\ Suits(s.instr[n + j], f + j)
        <5>1. n + j \in 1..m
          BY <1>1, <4>1
        <5> QED BY <1>1, <2>15, <4>1, <5>1
      <4>3. f + j <= r /\ f + j \in Nat /\ r \in Nat
        <5>1. g[q0] >= q0 /\ q0 >= f + more /\ g[q0] \in Nat /\ q0 \in Nat
          BY <2>5, <2>8, <2>9
        <5> QED BY <1>2, <3>3, <4>1, <5>1
      <4>4. s.instr[n + j] \in InstrT(m)
        BY <1>3, <4>2
      <4> QED BY <4>2, <4>3, <4>4, SuitsGrow
    <3> QED BY <2>2, <2>8, <3>1, <3>2, <3>3
  <2>22. \A j \in 1..all : Suits(t.instr[n + j], f + j)
    <3>1. \A j \in 1..all : n + j \in 1..m
      BY <1>1
    <3> QED BY <1>1, <2>15, <3>1
  <2>23. \A j \in 1..Len(fi) : Suits(t.instr[fi[j]], Len(z) + j)
    <3> SUFFICES ASSUME NEW j \in 1..Len(fi) PROVE Suits(t.instr[fi[j]], Len(z) + j)
      OBVIOUS
    <3>1. fi[j] \in 1..m /\ s.instr[fi[j]] \in InstrT(m) /\ t.instr[fi[j]] = s.instr[fi[j]]
      <4>1. fi[j] \in 1..n
        OBVIOUS
      <4>2. fi[j] \in 1..m
        BY <2>11, <4>1
      <4> QED BY <1>3, <2>15, <4>2
    <3>2. Len(y) + j \in Nat /\ Len(z) + j \in Nat /\ Len(y) + j <= Len(z) + j
      BY <2>9, <2>10
    <3>3. Suits(s.instr[fi[j]], Len(y) + j)
      BY <1>1
    <3> QED BY <3>1, <3>2, <3>3, SuitsGrow
  <2>24. Braiding(t, m + 1, n, x, f, all, more, fi)
    <3> HIDE DEF t
    <3> QED BY <2>16, <2>17, <2>18, <2>19, <2>20, <2>21, <2>22, <2>23 DEF Braiding, z
  <2> QED BY <2>24 DEF t
<1> QED BY <1>t, <1>4, <1>5

\* A building block with one block, whose dictionary knows where each of its
\* instructions is, none of which is in fini.
Woven(s) ==
    /\ Len(s.blocks) = 1
    /\ Known(s.blocks[1], 1..Len(s.instr) \ Elems(s.fini))

\* A building block with one block shows that block.
LEMMA OneBlockBody ==
  ASSUME NEW s, NEW n \in Nat, Shows(s, n), Len(s.blocks) = 1
  PROVE  DOMAIN s.blocks = 1..1 /\ Instrs(s.blocks[1]) = Body(s)
<1> DEFINE y == Instrs(s.blocks[1])
           all == [b \in DOMAIN s.blocks |-> Instrs(s.blocks[b])]
<1>1. DOMAIN s.blocks = 1..1 /\ y \in Seq(1..n) /\ Body(s) = FlattenSeq(all)
  BY DEF Shows, Body
<1>2. all = [b \in 1..1 |-> y]
  BY <1>1
<1> HIDE DEF y, all
<1>3. all = <<y>>
  BY <1>2
<1>4. FlattenSeq(<<y>>) = y
  <2>1. <<>> \in Seq(Seq(1..n))
    OBVIOUS
  <2> QED BY <1>1, <2>1, FlattenAppend
<1> QED BY <1>1, <1>3, <1>4 DEF y

\* Instruction c has the address of i and no offset that i has not.
Copies(c, i) ==
    /\ c.address = i.address
    /\ c.target.by = "offset" => i.target.by = "offset" /\ c.target.disp = i.target.disp

\* A copy is an instruction at the same place; it is relative to it where the
\* original is.
LEMMA CopySuits ==
  ASSUME NEW n, NEW i \in InstrT(n)
  PROVE  CopyOf(i) \in InstrT(n) /\ Copies(CopyOf(i), i)
<1> DEFINE t == i.target
           c == CopiedBy(t.by)
           u == [t EXCEPT !.by = c]
<1>1. t \in Targets(n)
  BY DEF InstrT
<1>2. c \in Bys /\ (c = "offset" <=> t.by = "offset")
  <2>1. t.by \in Bys
    BY <1>1 DEF Targets
  <2> QED BY <2>1 DEF Bys, CopiedBy
<1>3. u \in Targets(n) /\ u.by = c /\ u.disp = t.disp
  <2> HIDE DEF c, t
  <2> QED BY <1>1, <1>2 DEF Targets
<1>4. CopyOf(i) = [i EXCEPT !.strand = 2, !.target = u]
  BY DEF CopyOf, InstrT
<1> HIDE DEF u, c
<1>5. CopyOf(i) \in InstrT(n) /\ CopyOf(i).address = i.address /\ CopyOf(i).target = u
  BY <1>3, <1>4 DEF InstrT
<1> QED BY <1>2, <1>3, <1>5 DEF Copies

\* The objects of a state, and copies of some of them.
LEMMA CopiesTypes ==
  ASSUME NEW n \in Nat, NEW bs, NEW fi, NEW s \in States(n, bs, fi),
         NEW flat \in Seq(1..n)
  PROVE  LET u == WithCopies(s, flat)
             l == Len(flat)
         IN  /\ l \in Nat /\ u \in States(n + l, bs, fi)
             /\ \A i \in 1..n : u.instr[i] = s.instr[i]
             /\ \A j \in 1..l : Copies(u.instr[n + j], s.instr[flat[j]])
<1> DEFINE l == Len(flat)
           u == WithCopies(s, flat)
           cp == [k \in DOMAIN flat |-> CopyOf(s.instr[flat[k]])]
<1>1. l \in Nat /\ DOMAIN flat = 1..l /\ \A j \in 1..l : flat[j] \in 1..n
  OBVIOUS
<1>2. s.instr \in [1..n -> InstrT(n)] /\ s.registers \in Registers(n)
  BY DEF States
<1>3. cp = [k \in 1..l |-> CopyOf(s.instr[flat[k]])]
  BY <1>1
<1> HIDE DEF cp, l
<1>4. /\ cp \in [1..l -> InstrT(n)]
      /\ \A j \in 1..l : Copies(cp[j], s.instr[flat[j]])
  <2>1. \A k \in 1..l : s.instr[flat[k]] \in InstrT(n)
    BY <1>1, <1>2
  <2>2. \A k \in 1..l : cp[k] = CopyOf(s.instr[flat[k]])
    BY <1>3
  <2> QED BY <1>3, <2>1, <2>2, CopySuits
<1>5. n + l \in Nat /\ n <= n + l
  BY <1>1
<1>6. InstrT(n) \subseteq InstrT(n + l) /\ Registers(n) \subseteq Registers(n + l)
  BY <1>5, TypesGrow
<1>7. PICK v : v = s.instr
  OBVIOUS
<1>8. v \in Seq(InstrT(n + l)) /\ Len(v) = n
  BY <1>2, <1>6, <1>7
<1>9. cp \in Seq(InstrT(n + l)) /\ Len(cp) = l
  BY <1>1, <1>4, <1>6
<1>j. PICK w : w = v \o cp
  OBVIOUS
<1>10. /\ Len(w) = n + l /\ w \in Seq(InstrT(n + l))
       /\ \A i \in 1..n : w[i] = v[i]
       /\ \A j \in 1..l : w[n + j] = cp[j]
  <2>1. /\ Len(v \o cp) = n + l /\ v \o cp \in Seq(InstrT(n + l))
        /\ \A i \in 1..n : (v \o cp)[i] = v[i]
        /\ \A j \in 1..l : (v \o cp)[n + j] = cp[j]
    BY SMTT(30), <1>8, <1>9, JoinedIs
  <2> QED BY <1>j, <2>1
<1>11. u = [s EXCEPT !.instr = w]
  BY <1>7, <1>j DEF WithCopies, cp
<1> HIDE DEF u
<1>12. u.instr = w /\ u \in States(n + l, bs, fi)
  <2>1. \A z \in Seq(InstrT(n + l)) : z \in [1..Len(z) -> InstrT(n + l)]
    OBVIOUS
  <2>2. w \in [1..(n + l) -> InstrT(n + l)]
    BY <1>10, <2>1
  <2>3. /\ u.instr = w /\ u.registers = s.registers /\ u.ok = s.ok
        /\ u = [instr |-> u.instr, blocks |-> bs, fini |-> fi,
                registers |-> u.registers, ok |-> u.ok]
    BY <1>11 DEF States
  <2>4. u.ok \in BOOLEAN
    BY <2>3 DEF States
  <2>5. u.registers \in Registers(n + l)
    BY <1>2, <1>6, <2>3
  <2>6. u.instr \in [1..(n + l) -> InstrT(n + l)]
    BY <2>2, <2>3
  <2>7. u \in States(n + l, bs, fi)
    <3>1. u = [instr |-> u.instr, blocks |-> bs, fini |-> fi,
               registers |-> u.registers, ok |-> u.ok]
      BY <2>3
    <3> QED BY <2>4, <2>5, <2>6, <3>1 DEF States
  <2> QED BY <2>3, <2>7
<1>13. /\ \A i \in 1..n : u.instr[i] = s.instr[i]
       /\ \A j \in 1..l : Copies(u.instr[n + j], s.instr[flat[j]])
  BY <1>4, <1>7, <1>10, <1>12
<1> QED BY <1>1, <1>12, <1>13 DEF u, l

\* Where the insertion of the copies begins: nothing has been inserted, and
\* labels and targets may have changed.
LEMMA CopiesBraid ==
  ASSUME NEW s, Sound(s), Addressed(s), Woven(s), NEW flat \in Seq(1..Len(s.instr)),
         NEW f \in Nat \ {0}, f + Len(flat) <= Len(Body(s)),
         \A j \in 1..Len(flat) : flat[j] = Body(s)[f + j],
         NEW t \in Weaves(WithCopies(s, flat), Len(s.instr) + Len(flat), s.blocks, s.fini)
  PROVE  Braiding(t, Len(s.instr) + Len(flat), Len(s.instr), Body(s), f, Len(flat), 0, s.fini)
<1> DEFINE n == Len(s.instr)
           l == Len(flat)
           x == Body(s)
           fi == s.fini
           u == WithCopies(s, flat)
           blk == s.blocks[1]
<1>1. n \in Nat /\ s \in States(n, s.blocks, fi) /\ Shows(s, n) /\ Lows(s)
  BY DEF Sound
<1>2. /\ Len(s.blocks) = 1 /\ Known(blk, 1..n \ Elems(fi))
      /\ DOMAIN s.blocks = 1..1 /\ Instrs(blk) = x
  BY <1>1, OneBlockBody DEF Woven
<1>3. /\ l \in Nat /\ u \in States(n + l, s.blocks, fi)
      /\ \A i \in 1..n : u.instr[i] = s.instr[i]
      /\ \A j \in 1..l : Copies(u.instr[n + j], s.instr[flat[j]])
  BY <1>1, CopiesTypes
<1>4. /\ flat \in Seq(1..n) /\ f + l <= Len(x) /\ \A j \in 1..l : flat[j] = x[f + j]
      /\ t \in States(n + l, s.blocks, fi) /\ Rewoven(u, t, n + l)
  BY DEF Weaves
<1>5. x \in Seq(1..n) /\ fi \in Seq(1..n) /\ Text(s) = x \o fi
  BY <1>1 DEF Shows, Text
<1>6. Addressed(s) /\ DOMAIN s.instr = 1..n
  BY <1>1 DEF States
<1>e. /\ Len(x) \in Nat /\ Len(fi) \in Nat
      /\ \A r \in 1..Len(x) : x[r] \in 1..n
      /\ \A j \in 1..Len(fi) : fi[j] \in 1..n
      /\ \A j \in 1..l : flat[j] \in 1..n
  <2> HIDE DEF n, l, x, fi
  <2>1. \A S : \A z \in Seq(S) : Len(z) \in Nat /\ \A r \in 1..Len(z) : z[r] \in S
    OBVIOUS
  <2>2. x \in Seq(1..n) /\ fi \in Seq(1..n)
    BY <1>5
  <2>3. \A j \in 1..l : flat[j] \in 1..n
    BY <1>4, <2>1 DEF l
  <2> QED BY <2>1, <2>2, <2>3
<1> HIDE DEF n, l, x, fi, u, blk
<1>7. /\ \A p \in 1..Len(x) : Suits(s.instr[x[p]], p)
      /\ \A j \in 1..Len(fi) : Suits(s.instr[fi[j]], Len(x) + j)
  <2>1. /\ Len(x) \in Nat /\ Len(fi) \in Nat /\ Len(Text(s)) = Len(x) + Len(fi)
        /\ \A p \in 1..Len(x) : Text(s)[p] = x[p]
        /\ \A j \in 1..Len(fi) : Text(s)[Len(x) + j] = fi[j]
    BY <1>5, JoinedIs
  <2>2. DOMAIN Text(s) = 1..Len(Text(s))
    BY <1>1, TextSeq
  <2>3. \A p \in 1..Len(Text(s)) : Suits(s.instr[Text(s)[p]], p)
    BY <1>1, <2>2 DEF Lows
  <2>4. /\ \A p \in 1..Len(x) : p \in 1..Len(Text(s))
        /\ \A j \in 1..Len(fi) : Len(x) + j \in 1..Len(Text(s))
    BY <2>1
  <2> QED BY <2>1, <2>3, <2>4
<1>8. \A i \in 1..(n + l) : \A p : Suits(u.instr[i], p) => Suits(t.instr[i], p)
  BY <1>4 DEF Rewoven, Suits
<1>9. /\ \A i \in 1..n : i \in 1..(n + l)
      /\ \A j \in 1..l : n + j \in 1..(n + l)
      /\ \A i \in 1..(n + l) : i \in 1..n \/ (i - n \in 1..l /\ n + (i - n) = i)
  BY <1>1, <1>3
<1>10. \A r \in 1..Len(x) : Suits(t.instr[x[r]], r)
  <2> QED BY <1>3, <1>7, <1>8, <1>9, <1>e
<1>11. \A j \in 1..Len(fi) : Suits(t.instr[fi[j]], Len(x) + j)
  <2> QED BY <1>3, <1>7, <1>8, <1>9, <1>e
<1>12. \A j \in 1..l : Suits(t.instr[n + j], f + j)
  <2> SUFFICES ASSUME NEW j \in 1..l PROVE Suits(t.instr[n + j], f + j)
    OBVIOUS
  <2>1. f + j \in 1..Len(x) /\ flat[j] = x[f + j] /\ n + j \in 1..(n + l)
    <3>1. f + j \in 1..Len(x)
      <4>1. l \in Nat /\ f \in Nat /\ f + l <= Len(x) /\ Len(x) \in Nat
        BY <1>3, <1>4, <1>e
      <4> QED BY <4>1
    <3>2. flat[j] = x[f + j]
      BY <1>4
    <3>3. n + j \in 1..(n + l)
      BY <1>9
    <3> QED BY <3>1, <3>2, <3>3
  <2>2. Suits(s.instr[flat[j]], f + j)
    BY <1>7, <2>1
  <2>3. Suits(u.instr[n + j], f + j)
    BY <1>3, <2>2 DEF Suits, Copies
  <2> QED BY <1>8, <2>1, <2>3
<1>13. Addressed(t)
  <2>1. \A i \in 1..n : s.instr[i].address # None
    BY <1>6 DEF Addressed
  <2>3. \A i \in 1..(n + l) : u.instr[i].address # None
    <3> SUFFICES ASSUME NEW i \in 1..(n + l) PROVE u.instr[i].address # None
      OBVIOUS
    <3>1. CASE i \in 1..n
      BY <1>3, <2>1, <3>1
    <3>2. CASE i - n \in 1..l /\ n + (i - n) = i
      <4>1. PICK j \in 1..l : n + j = i
        BY <3>2
      <4>2. flat[j] \in 1..n /\ u.instr[n + j].address = s.instr[flat[j]].address
        BY <1>3, <1>e DEF Copies
      <4> QED BY <2>1, <4>1, <4>2
    <3> QED BY <1>9, <3>1, <3>2
  <2>4. DOMAIN t.instr = 1..(n + l)
    BY <1>4 DEF States
  <2> QED BY <1>4, <2>3, <2>4 DEF Addressed, Rewoven
<1>14. t.blocks = s.blocks /\ t.fini = fi
  BY <1>4 DEF States
<1>15. Known(blk, (1..n \ Elems(fi)) \cup (n + 1)..(n + 0) \cup (n + l + 1)..(n + l))
  BY <1>2, KnownMore
<1>16. \A q \in 1..Len(x) : \E r \in 1..Len(x) : r >= q /\ x[r] = x[q]
  BY <1>5
<1>17. n + l \in Nat /\ n + l <= n + l
  BY <1>1, <1>3
<1>18. Braiding(t, n + l, n, x, f, l, 0, fi)
  <2>1. t.blocks[1] = blk /\ Instrs(t.blocks[1]) = x
    BY <1>2, <1>14 DEF blk
  <2>2. Len(t.blocks) = 1 /\ DOMAIN t.blocks = 1..1
    BY <1>2, <1>14
  <2>3. t \in States(n + l, t.blocks, fi)
    BY <1>4, <1>14
  <2> QED BY <1>10, <1>11, <1>12, <1>13, <1>15, <1>16, <1>17, <2>1, <2>2, <2>3 DEF Braiding
<1> QED BY <1>18 DEF n, l, x, fi

\* Where braiding begins, and what it makes of chunk a.
Relaid(s) ==
    LET p == Aimed(s, TRUE)
        flat == FlattenSeq(p.chunks)
        copies == [k \in DOMAIN flat |-> Len(s.instr) + k]
    IN  Relabelled(WithCopies(p.bb, flat),
                   <<p.firstBraid>> \o flat \o <<p.lastHead>>,
                   <<p.firstBraid>> \o copies \o <<p.lastHead>>)
WithChunk(s, u, a) ==
    LET p == Aimed(s, TRUE)
    IN  IF (a - 1) % case.chunk # 0 THEN u
        ELSE InsertGroup(u, p.chunks, a, GroupEnd(p.chunks, a), p.lastHead,
                         Len(s.instr) + Len(FlattenSeq(SubSeq(p.chunks, 1, a - 1))))

Braids(s) == Aimed(s, TRUE).firstBraid # 0
HasChunks(s, C) == C = Len(Aimed(s, TRUE).chunks)

\* g[a] is the building block after the first a chunks.
Insertion(g, s, C) ==
    /\ g[0] = Relaid(s)
    /\ \A a \in 1..C : g[a] = WithChunk(s, g[a - 1], a)
    /\ Braided(s) = g[C]

\* The loop over the chunks, chunk by chunk.
LEMMA BraidedUnrolls ==
  ASSUME NEW s, Braids(s), NEW C \in Nat, HasChunks(s, C)
  PROVE  \E g : Insertion(g, s, C)
<1> DEFINE Is(h) == h = [a \in 0..C |-> IF a = 0 THEN Relaid(s) ELSE WithChunk(s, h[a - 1], a)]
           g == CHOOSE h : Is(h)
           Upto(c, h) == h = [a \in 0..c |-> IF a = 0 THEN Relaid(s)
                                             ELSE WithChunk(s, h[a - 1], a)]
           G == {c \in 0..C : \E h : Upto(c, h)}
<1>1. Braided(s) = g[C]
  <2>1. Braided(s) =
          (CHOOSE h : h = [a \in 0..Len(Aimed(s, TRUE).chunks) |->
              IF a = 0 THEN Relaid(s)
              ELSE IF (a - 1) % case.chunk # 0 THEN h[a - 1]
              ELSE InsertGroup(h[a - 1], Aimed(s, TRUE).chunks, a,
                               GroupEnd(Aimed(s, TRUE).chunks, a), Aimed(s, TRUE).lastHead,
                               Len(s.instr)
                                 + Len(FlattenSeq(SubSeq(Aimed(s, TRUE).chunks, 1, a - 1))))])
            [Len(Aimed(s, TRUE).chunks)]
    BY DEF Braided, Relaid, Braids
  <2> QED BY <2>1 DEF WithChunk, HasChunks
<1>2. 0 \in G
  <2>1. Upto(0, [a \in 0..0 |-> Relaid(s)])
    <3>1. \A a \in 0..0 : a = 0
      OBVIOUS
    <3> QED BY <3>1
  <2>2. 0 \in 0..C
    OBVIOUS
  <2> HIDE DEF Upto
  <2>3. \E h : Upto(0, h)
    BY <2>1
  <2> QED BY <2>2, <2>3
<1>3. ASSUME NEW c \in 1..C, c - 1 \in G PROVE c \in G
  <2>1. PICK h : Upto(c - 1, h)
    BY <1>3
  <2> DEFINE k == [a \in 0..c |-> IF a = c THEN WithChunk(s, h[c - 1], c) ELSE h[a]]
  <2>2. \A a \in 0..c : a # 0 => a - 1 \in 0..(c - 1) /\ a - 1 \in 0..c /\ a - 1 # c
    OBVIOUS
  <2>3. \A a \in 0..c : a # c => a \in 0..(c - 1)
    OBVIOUS
  <2>4. \A a \in 0..(c - 1) : h[a] = IF a = 0 THEN Relaid(s) ELSE WithChunk(s, h[a - 1], a)
    BY <2>1
  <2>5. \A a \in 0..c : k[a] = IF a = c THEN WithChunk(s, h[c - 1], c) ELSE h[a]
    OBVIOUS
  <2>6. DOMAIN k = 0..c /\ c # 0 /\ k = [a \in 0..c |-> k[a]]
    OBVIOUS
  <2> HIDE DEF k
  <2>7. \A a \in 0..c : k[a] = IF a = 0 THEN Relaid(s) ELSE WithChunk(s, k[a - 1], a)
    <3> SUFFICES ASSUME NEW a \in 0..c
                 PROVE k[a] = IF a = 0 THEN Relaid(s) ELSE WithChunk(s, k[a - 1], a)
      OBVIOUS
    <3>1. CASE a = c
      BY <2>2, <2>5, <2>6, <3>1
    <3>2. CASE a # c
      <4>1. k[a] = h[a] /\ a \in 0..(c - 1)
        BY <2>3, <2>5, <3>2
      <4>2. a # 0 => k[a - 1] = h[a - 1]
        BY <2>2, <2>5
      <4> QED BY <2>4, <4>1, <4>2
    <3> QED BY <3>1, <3>2
  <2>8. Upto(c, k)
    BY <2>6, <2>7
  <2>9. c \in 0..C
    OBVIOUS
  <2> QED BY <2>8, <2>9
<1> HIDE DEF G
<1>4. C \in G
  <2>1. 0..C \subseteq G
    BY <1>2, <1>3, SetInductionUpTo
  <2> QED BY <2>1
<1>5. \E h : Is(h)
  BY <1>4 DEF G
<1>6. Is(g)
  <2> HIDE DEF Is
  <2> QED BY <1>5
<1> HIDE DEF g
<1>7. \A a \in 0..C : g[a] = IF a = 0 THEN Relaid(s) ELSE WithChunk(s, g[a - 1], a)
  BY <1>6
<1>8. \A a \in 1..C : a \in 0..C /\ a # 0
  OBVIOUS
<1>9. g[0] = Relaid(s) /\ \A a \in 1..C : g[a] = WithChunk(s, g[a - 1], a)
  BY <1>7, <1>8
<1> QED BY <1>1, <1>9 DEF Insertion

\* Multiples of a number that are closer to each other than it are the same.
LEMMA MultiplesApart ==
  ASSUME NEW b \in Nat \ {0}, NEW d \in Nat, NEW e \in Nat, d % b = 0, e % b = 0,
         d <= e, e < d + b
  PROVE  e = d
<1>1. PICK q \in Nat : d = b * q
  BY Divides
<1>2. PICK r \in Nat : e = b * r
  BY Divides
<1>3. b * (r - q) = b * r - b * q /\ r - q \in Int
  OBVIOUS
<1>4. -b < b * (r - q) /\ b * (r - q) < b
  BY <1>1, <1>2, <1>3
<1>5. r - q = 0
  BY <1>3, <1>4, NoMultiple
<1>6. r = q
  BY <1>5
<1> QED BY <1>1, <1>2, <1>6

\* Chunks a..b are a group to insert, behind the copies of those before.
LEMMA PiecesGroup ==
  ASSUME NEW p, NEW n \in Nat, NEW x \in Seq(1..n), NEW f, Pieces(p, x, n, f),
         NEW a \in 1..Len(p.chunks), NEW b \in a..Len(p.chunks)
  PROVE  Group(p.chunks, a, b, x, n, f, Len(FlattenSeq(p.chunks)),
               Len(FlattenSeq(SubSeq(p.chunks, 1, a - 1))),
               Len(FlattenSeq(SubSeq(p.chunks, 1, b))), p.lastHead)
<1> DEFINE chunks == p.chunks
           flat == FlattenSeq(chunks)
           used == Len(FlattenSeq(SubSeq(chunks, 1, a - 1)))
           more == Len(FlattenSeq(SubSeq(chunks, 1, b)))
           all == Len(flat)
           size == Len(FlattenSeq(SubSeq(chunks, a, b)))
           head == IF b = Len(chunks) THEN p.lastHead ELSE chunks[b + 1][1]
<1>1. /\ p.lastHead \in 1..n /\ chunks \in Seq(Seq(1..n))
      /\ \A c \in DOMAIN chunks : chunks[c] # <<>>
      /\ f \in Nat /\ flat \in Seq(1..n) /\ f + all <= Len(x)
      /\ \A j \in 1..all : flat[j] = x[f + j]
  BY DEF Pieces
<1> HIDE DEF chunks, flat
<1>2. /\ used \in Nat /\ more \in Nat /\ used < more /\ more <= all
      /\ size = more - used /\ Last(chunks[b]) = flat[more]
  BY <1>1, GroupLengths DEF flat, chunks
<1>3. head \in 1..n
  <2>1. CASE b = Len(chunks)
    BY <1>1, <2>1
  <2>2. CASE b # Len(chunks)
    <3>1. b + 1 \in 1..Len(chunks)
      BY <1>1, <2>2 DEF chunks
    <3>2. PICK c \in 1..Len(chunks) : c = b + 1
      BY <3>1
    <3>3. chunks[c] \in Seq(1..n) /\ chunks[c] # <<>>
      BY <1>1
    <3>4. \A z \in Seq(1..n) : z # <<>> => z[1] \in 1..n
      OBVIOUS
    <3>5. chunks[c][1] \in 1..n
      BY <3>3, <3>4
    <3> QED BY <2>2, <3>2, <3>5
  <2> QED BY <2>1, <2>2
<1> HIDE DEF used, more, size, head, all
<1>4. all \in Nat
  BY <1>1 DEF all
<1>5. more \in 1..all /\ used \in 0..all /\ f + more <= Len(x)
  <2>1. Len(x) \in Nat
    OBVIOUS
  <2> QED BY <1>1, <1>2, <1>4, <2>1
<1>6. Last(chunks[b]) = x[f + more]
  BY <1>1, <1>2, <1>5
<1>7. Group(chunks, a, b, x, n, f, all, used, more, p.lastHead)
  BY <1>2, <1>3, <1>5, <1>6 DEF Group, size, head
<1> QED BY <1>7 DEF chunks, all, used, more, flat

\* Aiming the branches leaves a building block woven and with addresses.
LEMMA AimedWoven ==
  ASSUME NEW s, Sound(s), Addressed(s), Woven(s), NEW braid
  PROVE  LET u == Aimed(s, braid).bb
         IN  /\ Sound(u) /\ Addressed(u) /\ Woven(u) /\ Len(u.instr) = Len(s.instr)
             /\ u.blocks = s.blocks /\ u.fini = s.fini /\ Body(u) = Body(s)
<1> DEFINE u == Aimed(s, braid).bb
           n == Len(s.instr)
<1>1. /\ Sound(u) /\ Len(u.instr) = n /\ u.blocks = s.blocks /\ u.fini = s.fini
  BY NextSound DEF Kept
<1>2. n \in Nat /\ s \in States(n, s.blocks, s.fini) /\ Shows(s, n)
  BY DEF Sound
<1>3. Aimed(s, braid) \in Visits(s, n, s.blocks, s.fini)
  <2> HIDE DEF n
  <2> QED BY <1>2, AimedVisits
<1>4. u \in Edits(s, n, s.blocks, s.fini)
  BY <1>3 DEF Visits
<1> HIDE DEF u, n
<1>5. Addressed(u)
  BY <1>2, <1>4, EditsSuit
<1>6. Woven(u)
  BY <1>1 DEF Woven, n
<1>7. Body(u) = Body(s)
  BY <1>1 DEF Body
<1> QED BY <1>1, <1>5, <1>6, <1>7 DEF u, n

\* The instructions that are relabelled and those beside them are objects.
LEMMA RelaidPairs ==
  ASSUME NEW n \in Nat, NEW flat \in Seq(1..n), NEW i \in 1..n, NEW j \in 1..n
  PROVE  LET l == Len(flat)
             copies == [k \in DOMAIN flat |-> n + k]
             x == <<i>> \o flat \o <<j>>
             y == <<i>> \o copies \o <<j>>
         IN  /\ n + l \in Nat /\ x \in Seq(1..(n + l)) /\ y \in Seq(1..(n + l))
             /\ Len(x) = Len(y)
<1> DEFINE l == Len(flat)
           copies == [k \in DOMAIN flat |-> n + k]
           T == 1..(n + l)
<1>1. l \in Nat /\ DOMAIN flat = 1..l
  OBVIOUS
<1>2. \A k \in 1..l : n + k \in T
  BY <1>1
<1>3. copies = [k \in 1..l |-> n + k]
  BY <1>1
<1> HIDE DEF copies
<1>4. copies \in Seq(T) /\ Len(copies) = l
  <2> HIDE DEF l, T
  <2> QED BY <1>1, <1>2, <1>3
<1>5. 1..n \subseteq T /\ n + l \in Nat
  BY <1>1
<1>6. flat \in Seq(T) /\ i \in T /\ j \in T
  <2> HIDE DEF T
  <2> QED BY <1>5
<1> HIDE DEF T
<1>7. ASSUME NEW z \in Seq(T) PROVE <<i>> \o z \o <<j>> \in Seq(T)
                                     /\ Len(<<i>> \o z \o <<j>>) = Len(z) + 2
  BY <1>6
<1> QED BY <1>1, <1>4, <1>5, <1>6, <1>7 DEF T, copies

Begins(p, s) == p = Aimed(s, TRUE)

\* Where braiding begins nothing has been inserted.
LEMMA RelaidBraids ==
  ASSUME NEW s, Sound(s), Addressed(s), Woven(s), Braids(s),
         NEW n, n = Len(s.instr), NEW p, Begins(p, s),
         NEW l, l = Len(FlattenSeq(p.chunks))
  PROVE  \E f : /\ Pieces(p, Body(s), n, f)
                /\ Braiding(Relaid(s), n + l, n, Body(s), f, l, 0, s.fini)
<1> DEFINE flat == FlattenSeq(p.chunks)
           u == p.bb
<1>1. n \in Nat /\ s \in States(n, s.blocks, s.fini) /\ Shows(s, n)
  BY DEF Sound
<1>2. PICK f : Pieces(p, Body(s), n, f)
  <2>1. Aimed(s, TRUE).firstBraid # 0
    BY DEF Braids
  <2>2. p = Aimed(s, TRUE)
    BY DEF Begins
  <2> QED BY <1>1, <2>1, <2>2, AimedPieces
<1>3. /\ Sound(u) /\ Addressed(u) /\ Woven(u) /\ Len(u.instr) = n
      /\ u.blocks = s.blocks /\ u.fini = s.fini /\ Body(u) = Body(s)
  BY AimedWoven DEF Begins
<1>4. /\ p.firstBraid \in 1..n /\ p.lastHead \in 1..n /\ flat \in Seq(1..n)
      /\ f \in Nat \ {0} /\ f + l <= Len(Body(s)) /\ \A j \in 1..l : flat[j] = Body(s)[f + j]
  BY <1>2 DEF Pieces
<1> DEFINE v == WithCopies(u, flat)
           x == <<p.firstBraid>> \o flat \o <<p.lastHead>>
           y == <<p.firstBraid>> \o [k \in DOMAIN flat |-> n + k] \o <<p.lastHead>>
<1>5. Relaid(s) = Relabelled(v, x, y)
  BY DEF Relaid, Begins
<1> HIDE DEF u
<1>6. n + l \in Nat /\ x \in Seq(1..(n + l)) /\ y \in Seq(1..(n + l)) /\ Len(x) = Len(y)
  <2> HIDE DEF flat
  <2>1. l = Len(flat)
    BY DEF flat
  <2>2. flat \in Seq(1..n) /\ p.firstBraid \in 1..n /\ p.lastHead \in 1..n
    BY <1>4
  <2>3. /\ n + Len(flat) \in Nat
        /\ x \in Seq(1..(n + Len(flat))) /\ y \in Seq(1..(n + Len(flat)))
        /\ Len(x) = Len(y)
    BY <1>1, <2>2, RelaidPairs
  <2> QED BY <2>1, <2>3
<1>7. v \in States(n + l, s.blocks, s.fini)
  <2>1. u \in States(n, s.blocks, s.fini)
    BY <1>3 DEF Sound
  <2> HIDE DEF flat
  <2>2. l = Len(flat)
    BY DEF flat
  <2> QED BY <1>1, <1>4, <2>1, <2>2, CopiesTypes
<1> HIDE DEF x, y
<1>8. Relaid(s) \in Weaves(v, n + l, s.blocks, s.fini)
  <2> HIDE DEF v
  <2> QED BY ZenonT(30), <1>5, <1>6, <1>7, RelabelledWeaves
<1>9. Braiding(Relaid(s), n + l, n, Body(s), f, l, 0, s.fini)
  <2> DEFINE t == Relaid(s)
  <2>1. t \in Weaves(WithCopies(u, flat), Len(u.instr) + Len(flat), u.blocks, u.fini)
    BY <1>3, <1>8
  <2>2. /\ flat \in Seq(1..Len(u.instr)) /\ f \in Nat \ {0}
        /\ f + Len(flat) <= Len(Body(u)) /\ \A j \in 1..Len(flat) : flat[j] = Body(u)[f + j]
    BY <1>3, <1>4
  <2> HIDE DEF t, flat
  <2>3. Braiding(t, Len(u.instr) + Len(flat), Len(u.instr), Body(u), f, Len(flat), 0, u.fini)
    BY <1>3, <2>1, <2>2, CopiesBraid
  <2>4. Len(flat) = l
    BY DEF flat
  <2> QED BY <1>3, <2>3, <2>4 DEF t
<1> QED BY <1>2, <1>9
-----------------------------------------------------------------------------
(* Braiding leaves a sound building block.                                 *)

\* A text that is one block and fini, each without repetitions.
LEMMA TextOnce ==
  ASSUME NEW S, NEW y \in Seq(S), NEW fi \in Seq(S),
         \A i, j \in 1..Len(y) : y[i] = y[j] => i = j,
         \A i, j \in 1..Len(fi) : fi[i] = fi[j] => i = j,
         \A i \in 1..Len(y) : y[i] \notin Elems(fi)
  PROVE  /\ DOMAIN (y \o fi) = 1..(Len(y) + Len(fi))
         /\ \A p, q \in DOMAIN (y \o fi) : (y \o fi)[p] = (y \o fi)[q] => p = q
<1>1. PICK z : z = y \o fi
  OBVIOUS
<1>2. PICK a \in Nat : a = Len(y)
  OBVIOUS
<1>3. PICK b \in Nat : b = Len(fi)
  OBVIOUS
<1>4. /\ DOMAIN z = 1..(a + b)
      /\ \A p \in 1..a : z[p] = y[p]
      /\ \A j \in 1..b : z[a + j] = fi[j]
  <2>1. y \o fi = [j \in 1..(a + b) |-> IF j <= a THEN y[j] ELSE fi[j - a]]
    BY <1>2, <1>3, JoinedIs
  <2>2. /\ \A p \in 1..a : (y \o fi)[p] = y[p]
        /\ \A j \in 1..b : (y \o fi)[a + j] = fi[j]
    BY <1>2, <1>3, JoinedIs
  <2> QED BY <1>1, <2>1, <2>2
<1>5. \A p \in 1..(a + b) : p \in 1..a \/ p - a \in 1..b
  OBVIOUS
<1>6. \A p \in 1..(a + b) : p \notin 1..a => z[p] = fi[p - a] /\ z[p] \in Elems(fi)
  <2> SUFFICES ASSUME NEW p \in 1..(a + b), p \notin 1..a
               PROVE z[p] = fi[p - a] /\ z[p] \in Elems(fi)
    OBVIOUS
  <2>1. PICK j \in 1..b : p = a + j
    <3>1. p - a \in 1..b /\ p = a + (p - a)
      BY <1>5
    <3> QED BY <3>1
  <2>2. z[p] = fi[j] /\ j = p - a
    BY <1>4, <2>1
  <2> QED BY <1>3, <2>2 DEF Elems
<1>7. ASSUME NEW p \in 1..(a + b), NEW q \in 1..(a + b), z[p] = z[q] PROVE p = q
  <2>1. CASE p \in 1..a /\ q \in 1..a
    BY <1>2, <1>4, <1>7, <2>1
  <2>2. CASE p \in 1..a /\ q \notin 1..a
    BY <1>2, <1>4, <1>6, <1>7, <2>2
  <2>3. CASE p \notin 1..a /\ q \in 1..a
    BY <1>2, <1>4, <1>6, <1>7, <2>3
  <2>4. CASE p \notin 1..a /\ q \notin 1..a
    <3>1. fi[p - a] = fi[q - a] /\ p - a \in 1..b /\ q - a \in 1..b
      BY <1>5, <1>6, <1>7, <2>4
    <3>2. p - a = q - a
      BY <1>3, <3>1
    <3> QED BY <3>2
  <2> QED BY <2>1, <2>2, <2>3, <2>4
<1> QED BY <1>1, <1>2, <1>3, <1>4, <1>7

\* Once all copies are inserted the building block is sound and woven again.
LEMMA BraidingSound ==
  ASSUME NEW s, Sound(s), NEW n, n = Len(s.instr), NEW m, NEW f, NEW l \in Nat, NEW t,
         Braiding(t, m, n, Body(s), f, l, l, s.fini)
  PROVE  Sound(t) /\ Woven(t) /\ Addressed(t)
<1> DEFINE x == Body(s)
           fi == s.fini
           blk == t.blocks[1]
           y == Instrs(blk)
           own == (1..n \ Elems(fi)) \cup (n + 1)..(n + l) \cup (n + l + 1)..m
<1>1. /\ n \in Nat /\ Shows(s, n) /\ OncePlaced(s)
      /\ x \in Seq(1..n) /\ x # <<>> /\ fi \in Seq(1..n) /\ Text(s) = x \o fi
  BY DEF Sound, Shows, Text
<1>2. /\ m \in Nat /\ n + l <= m /\ t \in States(m, t.blocks, fi) /\ Addressed(t)
      /\ Len(t.blocks) = 1 /\ DOMAIN t.blocks = 1..1 /\ Known(blk, own)
      /\ \A q \in 1..Len(x) : \E r \in 1..Len(y) : r >= q /\ y[r] = x[q]
      /\ \A r \in 1..Len(y) : Suits(t.instr[y[r]], r)
      /\ \A j \in 1..Len(fi) : Suits(t.instr[fi[j]], Len(y) + j)
  BY DEF Braiding
<1>3. Len(t.instr) = m /\ t.fini = fi /\ DOMAIN t.instr = 1..m
  <2>1. t.fini = fi /\ DOMAIN t.instr = 1..m
    BY <1>2 DEF States
  <2> QED BY <1>2, <2>1, StatesSize
<1> HIDE DEF x, fi
<1>4. own \subseteq 1..m \ Elems(fi)
  <2>1. \A i \in Elems(fi) : i \in 1..n
    BY <1>1 DEF Elems
  <2>2. \A i \in 1..n : i \in 1..m
    BY <1>1, <1>2
  <2>3. \A i \in (n + 1)..(n + l) : i \in 1..m /\ i \notin 1..n
    BY <1>1, <1>2
  <2>4. \A i \in (n + l + 1)..m : i \in 1..m /\ i \notin 1..n
    BY <1>1, <1>2
  <2> QED BY <2>1, <2>2, <2>3, <2>4
<1> HIDE DEF own, y, blk
<1>5. Woven(t)
  <2>1. Known(blk, 1..m \ Elems(fi))
    BY <1>2, <1>4, KnownMore
  <2> QED BY <1>2, <1>3, <2>1 DEF Woven, blk
<1>6. y \in Seq(own) /\ \A i, j \in 1..Len(y) : y[i] = y[j] => i = j
  BY <1>2, KnownShows DEF y
<1>7. /\ y \in Seq(1..m) /\ \A i \in 1..Len(y) : y[i] \in 1..m /\ y[i] \notin Elems(fi)
      /\ Len(y) \in Nat /\ fi \in Seq(1..m)
  <2>1. \A i \in 1..Len(y) : y[i] \in own
    BY <1>6
  <2>2. \A i \in own : i \in 1..m /\ i \notin Elems(fi)
    BY <1>4
  <2>3. y \in Seq(1..m) /\ Len(y) \in Nat
    <3>1. \A S, T : S \subseteq T => Seq(S) \subseteq Seq(T)
      OBVIOUS
    <3>2. own \subseteq 1..m
      BY <2>2
    <3>3. Seq(own) \subseteq Seq(1..m)
      BY <3>1, <3>2
    <3>4. Len(y) \in Nat
      BY <1>6
    <3> QED BY <1>6, <3>3, <3>4
  <2>4. 1..n \subseteq 1..m
    BY <1>1, <1>2
  <2>5. fi \in Seq(1..m)
    <3>1. \A S, T : S \subseteq T => Seq(S) \subseteq Seq(T)
      OBVIOUS
    <3> QED BY <1>1, <2>4, <3>1
  <2> QED BY <2>1, <2>2, <2>3, <2>5
<1>8. \A i, j \in 1..Len(fi) : fi[i] = fi[j] => i = j
  <2>1. /\ Len(x) \in Nat /\ Len(fi) \in Nat /\ Len(Text(s)) = Len(x) + Len(fi)
        /\ \A j \in 1..Len(fi) : Text(s)[Len(x) + j] = fi[j]
    BY <1>1, JoinedIs
  <2>2. DOMAIN Text(s) = 1..Len(Text(s))
    BY <1>1, TextSeq
  <2>3. \A j \in 1..Len(fi) : Len(x) + j \in DOMAIN Text(s)
    BY <2>1, <2>2
  <2>4. \A i, j \in 1..Len(fi) : fi[i] = fi[j] => Len(x) + i = Len(x) + j
    BY <1>1, <2>1, <2>3 DEF OncePlaced
  <2> QED BY <2>1, <2>4
<1>9. Body(t) = y
  <2>1. [b \in DOMAIN t.blocks |-> Instrs(t.blocks[b])] = <<y>>
    <3>1. [b \in DOMAIN t.blocks |-> Instrs(t.blocks[b])] = [b \in 1..1 |-> y]
      BY <1>2 DEF y, blk
    <3> QED BY <3>1
  <2>2. FlattenSeq(<<y>>) = y
    <3>1. <<>> \in Seq(Seq(1..m))
      OBVIOUS
    <3> QED BY <1>7, <3>1, FlattenAppend
  <2> QED BY <2>1, <2>2 DEF Body
<1>10. y # <<>>
  <2>1. 1 \in 1..Len(x)
    BY <1>1
  <2>2. PICK r \in 1..Len(y) : r >= 1
    BY <1>2, <2>1
  <2> QED BY <1>7, <2>2
<1>11. Shows(t, m)
  <2>1. \A b \in DOMAIN t.blocks : Instrs(t.blocks[b]) \in Seq(1..m)
    BY <1>2, <1>7 DEF y, blk
  <2> QED BY <1>2, <1>3, <1>7, <1>9, <1>10, <2>1 DEF Shows
<1>12. Text(t) = y \o fi
  BY <1>3, <1>9 DEF Text
<1>13. DOMAIN Text(t) = 1..(Len(y) + Len(fi)) /\ OncePlaced(t)
  <2>1. \A i \in 1..Len(y) : y[i] \notin Elems(fi)
    BY <1>7
  <2>2. y \in Seq(1..m) /\ fi \in Seq(1..m)
    BY <1>7
  <2>3. \A i, j \in 1..Len(y) : y[i] = y[j] => i = j
    BY <1>6
  <2>4. /\ DOMAIN (y \o fi) = 1..(Len(y) + Len(fi))
        /\ \A p, q \in DOMAIN (y \o fi) : (y \o fi)[p] = (y \o fi)[q] => p = q
    BY <1>8, <2>1, <2>2, <2>3, TextOnce
  <2> QED BY <1>12, <2>4 DEF OncePlaced
<1>14. Lows(t)
  <2> SUFFICES ASSUME NEW p \in 1..(Len(y) + Len(fi))
               PROVE Suits(t.instr[Text(t)[p]], p)
    BY <1>13 DEF Lows
  <2>1. /\ Len(fi) \in Nat
        /\ \A q \in 1..Len(y) : Text(t)[q] = y[q]
        /\ \A j \in 1..Len(fi) : Text(t)[Len(y) + j] = fi[j]
    BY <1>7, <1>12, JoinedIs
  <2>2. CASE p \in 1..Len(y)
    BY <1>2, <2>1, <2>2
  <2>3. CASE p \notin 1..Len(y)
    <3>1. PICK j \in 1..Len(fi) : p = Len(y) + j
      <4>1. p - Len(y) \in 1..Len(fi) /\ p = Len(y) + (p - Len(y))
        BY <1>7, <2>1, <2>3
      <4> QED BY <4>1
    <3> QED BY <1>2, <2>1, <3>1
  <2> QED BY <2>2, <2>3
<1>15. OthersAddressed(t)
  BY <1>2 DEF Addressed, OthersAddressed
<1>16. t \in States(Len(t.instr), t.blocks, t.fini) /\ Len(t.instr) \in Nat /\ Shows(t, Len(t.instr))
  BY <1>2, <1>3, <1>11
<1> QED BY <1>2, <1>5, <1>13, <1>14, <1>15, <1>16 DEF Sound

\* The copies of the first c chunks.
Used(chunks, c) == Len(FlattenSeq(SubSeq(chunks, 1, c)))

\* After chunk a the copies of all groups that have begun are in the block u:
\* those of the first d chunks, or of all.
Stage(u, chunks, n, x, f, fi, a) ==
    \E d \in Nat :
        /\ d % case.chunk = 0 /\ a <= d /\ d < a + case.chunk
        /\ \E m : Braiding(u, m, n, x, f, Len(FlattenSeq(chunks)),
                           Used(chunks, IF d < Len(chunks) THEN d ELSE Len(chunks)), fi)

\* One turn of the loop over the chunks.
LEMMA StageNext ==
  ASSUME Size(case) \in Nat, case.chunk \in Nat \ {0},
         NEW s, NEW p, Begins(p, s), NEW n \in Nat, n = Len(s.instr),
         NEW x \in Seq(1..n), NEW f, Pieces(p, x, n, f), NEW fi \in Seq(1..n),
         NEW a \in 1..Len(p.chunks), NEW u, Stage(u, p.chunks, n, x, f, fi, a - 1)
  PROVE  Stage(WithChunk(s, u, a), p.chunks, n, x, f, fi, a)
<1> DEFINE chunks == p.chunks
           C == Len(chunks)
           g == case.chunk
           b == GroupEnd(chunks, a)
           l == Len(FlattenSeq(chunks))
           t == WithChunk(s, u, a)
<1>1. t = IF (a - 1) % g # 0 THEN u
          ELSE InsertGroup(u, chunks, a, b, p.lastHead, n + Used(chunks, a - 1))
  BY DEF WithChunk, Begins, Used
<1>2. /\ chunks \in Seq(Seq(1..n)) /\ f \in Nat \ {0} /\ FlattenSeq(chunks) \in Seq(1..n)
  BY DEF Pieces
<1>3. C \in Nat /\ DOMAIN chunks = 1..C /\ l \in Nat
  BY <1>2
<1>4. PICK d \in Nat :
        /\ d % g = 0 /\ a - 1 <= d /\ d < a - 1 + g
        /\ \E m : Braiding(u, m, n, x, f, l, Used(chunks, IF d < C THEN d ELSE C), fi)
  BY DEF Stage
<1>5. g \in Nat \ {0} /\ a \in 1..C
  OBVIOUS
<1>6. b = IF a + g - 1 \in 1..C THEN a + g - 1 ELSE C
  BY <1>3 DEF GroupEnd
<1> HIDE DEF t, b, C, l, g
<1>7. CASE (a - 1) % g # 0
  <2>1. a <= d /\ d < a + g
    <3>1. d # a - 1
      BY <1>4, <1>7
    <3>2. a - 1 <= d /\ d < a - 1 + g
      BY <1>4
    <3>3. a \in Int /\ g \in Int /\ d \in Int
      BY <1>3, <1>5
    <3> QED BY <3>1, <3>2, <3>3
  <2>2. t = u
    BY <1>1, <1>7
  <2> QED BY <1>4, <2>1, <2>2 DEF Stage, t, g, C, l, chunks
<1>8. CASE (a - 1) % g = 0
  <2>1. d = a - 1
    <3>1. a - 1 \in Nat /\ d < (a - 1) + g
      BY <1>3, <1>4, <1>5
    <3> QED BY <1>4, <1>5, <1>8, <3>1, MultiplesApart
  <2>2. d < C /\ d + g \in Nat /\ a <= d + g /\ d + g < a + g
    BY <1>3, <1>5, <2>1
  <2>3. PICK m : Braiding(u, m, n, x, f, l, Used(chunks, a - 1), fi)
    BY <1>4, <2>1, <2>2
  <2>4. b \in a..C /\ b = IF d + g < C THEN d + g ELSE C
    <3>1. a \in Nat /\ g \in Nat /\ C \in Nat /\ d = a - 1 /\ a >= 1 /\ g >= 1 /\ a <= C
      BY <1>3, <1>5, <2>1
    <3>2. CASE a + g - 1 \in 1..C
      BY <1>6, <3>1, <3>2
    <3>3. CASE a + g - 1 \notin 1..C
      BY <1>6, <3>1, <3>3
    <3> QED BY <3>2, <3>3
  <2>5. Group(chunks, a, b, x, n, f, l, Used(chunks, a - 1), Used(chunks, b), p.lastHead)
    <3>1. b \in a..Len(p.chunks)
      BY <2>4 DEF C, chunks
    <3> QED BY <3>1, PiecesGroup DEF Used, l, chunks
  <2>6. t = InsertGroup(u, chunks, a, b, p.lastHead, n + Used(chunks, a - 1))
    BY <1>1, <1>8
  <2>7. \E k : Braiding(t, k, n, x, f, l, Used(chunks, b), fi)
    <3> HIDE DEF chunks
    <3>1. \A z : z = InsertGroup(u, chunks, a, b, p.lastHead, n + Used(chunks, a - 1)) =>
                   \E k : Braiding(z, k, n, x, f, l, Used(chunks, b), fi)
      BY <1>2, <1>3, <2>3, <2>5, InsertGroupBraids
    <3> QED BY <2>6, <3>1
  <2>8. (d + g) % g = 0
    <3>1. g % g = 0
      <4>1. g = g * 1 /\ 1 \in Nat
        BY <1>5
      <4> QED BY <1>5, <4>1, Multiple
    <3> QED BY <1>4, <1>5, <3>1, ModKeeps
  <2> QED BY <2>2, <2>4, <2>7, <2>8 DEF Stage, t, g, C, l, chunks
<1> QED BY <1>7, <1>8

\* After the last chunk every copy is in the block.
LEMMA BraidedBraids ==
  ASSUME Size(case) \in Nat, case.chunk \in Nat \ {0},
         NEW s, Sound(s), Addressed(s), Woven(s), Braids(s),
         NEW p, Begins(p, s), NEW n, n = Len(s.instr), NEW l, l = Len(FlattenSeq(p.chunks))
  PROVE  l \in Nat /\ \E m, f : Braiding(Braided(s), m, n, Body(s), f, l, l, s.fini)
<1> DEFINE x == Body(s)
           fi == s.fini
           chunks == p.chunks
           C == Len(chunks)
<1>1. n \in Nat /\ x \in Seq(1..n) /\ fi \in Seq(1..n)
  BY DEF Sound, Shows
<1>2. PICK f : Pieces(p, x, n, f) /\ Braiding(Relaid(s), n + l, n, x, f, l, 0, fi)
  BY RelaidBraids
<1>3. chunks \in Seq(Seq(1..n)) /\ FlattenSeq(chunks) \in Seq(1..n)
  BY <1>2 DEF Pieces
<1>4. C \in Nat /\ l \in Nat
  BY <1>3
<1>5. Used(chunks, 0) = 0 /\ Used(chunks, C) = l
  <2>1. \A z \in Seq(Seq(1..n)) : SubSeq(z, 1, 0) = <<>> /\ SubSeq(z, 1, Len(z)) = z
    OBVIOUS
  <2>2. FlattenSeq(<<>>) = <<>>
    <3>1. <<>> \in Seq(Seq(1..n)) /\ <<>> \in Seq(1..n)
      OBVIOUS
    <3> QED BY <3>1, FlattenAppend
  <2>3. Len(<<>>) = 0
    OBVIOUS
  <2> QED BY <1>3, <2>1, <2>2, <2>3 DEF Used
<1> HIDE DEF x, fi
<1>6. PICK g : Insertion(g, s, C)
  <2>1. HasChunks(s, C)
    BY DEF HasChunks, Begins
  <2> HIDE DEF C
  <2> QED BY <1>4, <2>1, BraidedUnrolls
<1>7. /\ g[0] = Relaid(s) /\ \A a \in 1..C : g[a] = WithChunk(s, g[a - 1], a)
      /\ Braided(s) = g[C]
  BY <1>6 DEF Insertion
<1>8. Stage(g[0], chunks, n, x, f, fi, 0)
  <2>1. 0 % case.chunk = 0 /\ 0 \in Nat /\ 0 <= 0 /\ 0 < 0 + case.chunk
    OBVIOUS
  <2>2. (IF 0 < C THEN 0 ELSE C) = 0
    BY <1>4
  <2>3. Braiding(g[0], n + l, n, x, f, Len(FlattenSeq(chunks)),
                 Used(chunks, IF 0 < C THEN 0 ELSE C), fi)
    BY <1>2, <1>5, <1>7, <2>2
  <2> QED BY <2>1, <2>3 DEF Stage
<1>9. \A a \in 0..C : Stage(g[a], chunks, n, x, f, fi, a)
  <2> DEFINE G == {a \in 0..C : Stage(g[a], chunks, n, x, f, fi, a)}
  <2>1. 0 \in G
    BY <1>4, <1>8
  <2>2. ASSUME NEW a \in 1..C, a - 1 \in G PROVE a \in G
    <3>1. Stage(g[a - 1], chunks, n, x, f, fi, a - 1) /\ a \in 0..C
      BY <1>4, <2>2
    <3>2. Stage(WithChunk(s, g[a - 1], a), chunks, n, x, f, fi, a)
      BY <1>1, <1>2, <3>1, StageNext DEF x, fi
    <3> QED BY <1>7, <3>1, <3>2
  <2> HIDE DEF G
  <2>3. 0..C \subseteq G
    BY <1>4, <2>1, <2>2, SetInductionUpTo
  <2> QED BY <2>3 DEF G
<1>10. PICK d \in Nat :
         /\ C <= d
         /\ \E m : Braiding(g[C], m, n, x, f, l, Used(chunks, IF d < C THEN d ELSE C), fi)
  <2>1. C \in 0..C
    BY <1>4
  <2>2. Stage(g[C], chunks, n, x, f, fi, C)
    BY <1>9, <2>1
  <2> QED BY <2>2 DEF Stage
<1>11. (IF d < C THEN d ELSE C) = C
  BY <1>4, <1>10
<1> QED BY <1>4, <1>5, <1>7, <1>10, <1>11 DEF x, fi

\* Braiding leaves a sound, woven building block.
LEMMA BraidSound ==
  ASSUME case \in Cases, NEW s, Sound(s), Addressed(s), Woven(s)
  PROVE  Sound(Braided(s)) /\ Woven(Braided(s))
<1>1. PICK p : Begins(p, s)
  BY DEF Begins
<1>2. CASE ~Braids(s)
  <2>1. Braided(s) = Aimed(s, TRUE).bb
    BY <1>2 DEF Braids, Braided
  <2> QED BY <2>1, AimedWoven
<1>3. CASE Braids(s)
  <2>1. Size(case) \in Nat /\ case.chunk \in Nat \ {0}
    <3>1. case.chunk \in Nat \ {0} /\ case.fini \in Nat
      BY CaseParts
    <3>2. PICK k \in Nat \ {0} : Size(case) = k + case.fini
      BY BuiltText
    <3> QED BY <3>1, <3>2
  <2>2. PICK l : l = Len(FlattenSeq(p.chunks))
    OBVIOUS
  <2>3. PICK n : n = Len(s.instr)
    OBVIOUS
  <2>4. l \in Nat /\ \E m, f : Braiding(Braided(s), m, n, Body(s), f, l, l, s.fini)
    BY <1>1, <1>3, <2>1, <2>2, <2>3, BraidedBraids
  <2>5. PICK t : t = Braided(s)
    OBVIOUS
  <2>6. PICK m, f : Braiding(t, m, n, Body(s), f, l, l, s.fini)
    BY <2>4, <2>5
  <2>7. Sound(t) /\ Woven(t)
    BY <2>3, <2>4, <2>6, BraidingSound
  <2> QED BY <2>5, <2>7
<1> QED BY <1>2, <1>3
-----------------------------------------------------------------------------
(* The inductive invariant and the theorems.                               *)

\* A new block knows where its instructions are.
LEMMA NewBlockKnown ==
  ASSUME NEW k \in Nat
  PROVE  Known(NewBlock(NewInstrs(0, k)), 1..k)
<1> DEFINE new == NewInstrs(0, k)
           b == NewBlock(new)
           D == {Stride * j : j \in 1..k}
<1>1. Len(new) = k /\ \A j \in 1..k : new[j] = j
  BY DEF NewInstrs
<1> HIDE DEF new
<1>2. /\ DOMAIN b.slot = D
      /\ \A j \in 1..k : b.slot[Stride * j] = j
      /\ b.pointer = Stride * (k + 1) /\ b.index = IndexOfSlots(b.slot)
      /\ b = [slot |-> b.slot, pointer |-> b.pointer, index |-> b.index]
  BY <1>1, NewBlockSlots
<1> HIDE DEF b
<1>3. \A j \in 1..k : Stride * j \in Nat
  BY StrideAssumption
<1>4. Stride * (k + 1) \in Nat
  BY StrideAssumption
<1>5. D \in SUBSET Nat /\ IsFiniteSet(D)
  <2> DEFINE f == [j \in 1..k |-> Stride * j]
  <2>1. f \in Surjection(1..k, D)
    BY DEF Surjection
  <2>2. IsFiniteSet(1..k)
    BY FS_Interval
  <2> QED BY <1>3, <2>1, <2>2, FS_Surjection
<1>6. \A p \in D : \E j \in 1..k : p = Stride * j
  OBVIOUS
<1>m. \A j \in 1..k : Stride * j \in D
  OBVIOUS
<1> HIDE DEF D
<1>7. \A p \in D : b.slot[p] \in 1..k
  BY <1>2, <1>6
<1>8. \A p, q \in D : b.slot[p] = b.slot[q] => p = q
  BY <1>2, <1>6
<1>9. b.slot = [p \in D |-> b.slot[p]]
  <2>1. b.slot = [p \in D |-> new[CHOOSE j \in 1..k : p = Stride * j]]
    BY <1>1 DEF NewBlock, b, D
  <2> QED BY <2>1
<1>10. b.slot \in [D -> 1..k]
  BY <1>7, <1>9
<1>11. b.index = [i \in {b.slot[p] : p \in D} |-> CHOOSE p \in D : b.slot[p] = i]
  BY <1>2 DEF IndexOfSlots
<1>12. \A p \in D : b.slot[p] \in DOMAIN b.index /\ b.index[b.slot[p]] = p
  <2> SUFFICES ASSUME NEW p \in D PROVE b.slot[p] \in DOMAIN b.index /\ b.index[b.slot[p]] = p
    OBVIOUS
  <2>1. b.slot[p] \in DOMAIN b.index
    BY <1>11
  <2>2. b.index[b.slot[p]] = CHOOSE q \in D : b.slot[q] = b.slot[p]
    BY <1>11, <2>1
  <2>3. (CHOOSE q \in D : b.slot[q] = b.slot[p]) = p
    BY <1>8
  <2> QED BY <2>1, <2>2, <2>3
<1>13. DOMAIN b.index \subseteq 1..k /\ b.index \in [DOMAIN b.index -> Nat]
  <2>1. \A i \in DOMAIN b.index : \E p \in D : i = b.slot[p]
    BY <1>11
  <2>2. \A i \in DOMAIN b.index : i \in 1..k /\ b.index[i] \in Nat
    BY <1>5, <1>7, <1>12, <2>1
  <2>3. b.index = [i \in DOMAIN b.index |-> b.index[i]]
    BY <1>11
  <2> QED BY <2>2, <2>3
<1> QED BY <1>2, <1>4, <1>5, <1>10, <1>12, <1>13 DEF Known, b, new

\* A program of one block is woven.
LEMMA BuiltWoven ==
  ASSUME case \in Cases, Len(case.blocks) = 1
  PROVE  Woven(Built(case))
<1> DEFINE s == Built(case)
           m == Len(FlattenSeq(case.blocks))
           n == Len(s.instr)
<1>1. case.blocks \in Seq(Seq(Items)) /\ DOMAIN case.blocks = 1..1
  BY CaseParts
<1>2. case.blocks[1] \in Seq(Items) /\ case.blocks = <<case.blocks[1]>>
  BY <1>1
<1>3. FlattenSeq(case.blocks) = case.blocks[1]
  <2>1. <<>> \in Seq(Seq(Items))
    OBVIOUS
  <2>2. FlattenSeq(<<case.blocks[1]>>) = case.blocks[1]
    BY <1>2, <2>1, FlattenAppend
  <2> QED BY <1>2, <2>2
<1>4. Len(FlattenSeq(SubSeq(case.blocks, 1, 1 - 1))) = 0
  <2>1. SubSeq(case.blocks, 1, 1 - 1) = <<>>
    BY <1>1
  <2>2. FlattenSeq(<<>>) = <<>>
    <3>1. <<>> \in Seq(Seq(Items)) /\ <<>> \in Seq(Items)
      OBVIOUS
    <3> QED BY <3>1, FlattenAppend
  <2>3. Len(<<>>) = 0
    OBVIOUS
  <2> QED BY <2>1, <2>2, <2>3
<1>5. s.blocks = [b \in DOMAIN case.blocks |->
                    NewBlock(NewInstrs(Len(FlattenSeq(SubSeq(case.blocks, 1, b - 1))),
                                       Len(case.blocks[b])))]
  BY DEF Built
<1>6. s.blocks[1] = NewBlock(NewInstrs(0, m)) /\ DOMAIN s.blocks = 1..1
  BY <1>1, <1>3, <1>4, <1>5
<1>7. /\ m \in Nat \ {0} /\ Size(case) = m + case.fini /\ case.fini \in Nat
      /\ s.fini = [j \in 1..case.fini |-> m + j]
  BY BuiltText, CaseParts
<1>8. n = m + case.fini
  BY <1>7, BuiltSound
<1>9. Sound(s)
  BY BuiltSound
<1> HIDE DEF s, m, n
<1>10. Len(s.blocks) = 1
  <2>1. Len(s.blocks) \in Nat /\ DOMAIN s.blocks = 1..Len(s.blocks)
    BY <1>9 DEF Sound, Shows
  <2>2. \A k \in Nat : 1..k = 1..1 => k = 1
    <3> SUFFICES ASSUME NEW k \in Nat, 1..k = 1..1 PROVE k = 1
      OBVIOUS
    <3>1. 1 \in 1..k /\ (k >= 1 => k \in 1..k)
      OBVIOUS
    <3> QED BY <3>1
  <2> QED BY <1>6, <2>1, <2>2
<1>11. \A i \in Elems(s.fini) : i \notin 1..m
  <2>1. \A j \in 1..case.fini : s.fini[j] = m + j /\ m + j \notin 1..m
    BY <1>7
  <2>2. Len(s.fini) = case.fini
    BY <1>7
  <2> QED BY <2>1, <2>2 DEF Elems
<1>12. 1..m \subseteq 1..n \ Elems(s.fini)
  BY <1>7, <1>8, <1>11
<1>13. Known(s.blocks[1], 1..n \ Elems(s.fini))
  <2>1. Known(s.blocks[1], 1..m)
    BY <1>6, <1>7, NewBlockKnown
  <2> QED BY <1>12, <2>1, KnownMore
<1> QED BY <1>10, <1>13 DEF Woven, s, n

PassNames == {"address", "next", "braid", "fix", "resolve"}

\* The addresses are computed before every other pass that is left to run.
Alternates(passes) ==
    \A k \in DOMAIN passes : k > 1 /\ passes[k] # "address" => passes[k - 1] = "address"

\* Where the generated loop stands.
Running ==
    /\ done \in 0..Size(case)
    /\ IF code = <<>> THEN pc = 1
       ELSE todo = <<>> /\ Runnable(code) /\ pc \in DOMAIN code

\* No pass braids; the program that a pass braids has one block.
NoBraid == "braid" \notin ToSet(case.passes)
Served == NoBraid \/ Len(case.blocks) = 1

\* The inductive invariant.
Safe ==
    /\ case \in Cases /\ Sound(bb)
    /\ NoBraid => Agreed(bb)
    /\ Len(case.blocks) = 1 => Woven(bb)
    /\ todo \in Seq(PassNames) /\ Alternates(todo)
    /\ \A k \in DOMAIN todo : todo[k] = "braid" => ~NoBraid
    /\ todo # <<>> => todo[1] = "address" \/ Addressed(bb)
    /\ Running

\* Addresses are computed before every pass of a case.
LEMMA PassesTypes ==
  ASSUME NEW c \in Cases
  PROVE  /\ PassesOf(c) \in Seq(PassNames) /\ Alternates(PassesOf(c))
         /\ PassesOf(c) # <<>> => PassesOf(c)[1] = "address"
         /\ \A k \in DOMAIN PassesOf(c) :
              PassesOf(c)[k] = "braid" => "braid" \in ToSet(c.passes)
<1> DEFINE more == IF c.output = "bin" THEN <<"resolve">> ELSE <<>>
           passes == c.passes \o more
           N == 2 * Len(passes)
           x == PassesOf(c)
<1>1. passes \in Seq(PassNames)
  <2>1. c.passes \in Seq({"next", "braid", "fix"})
    BY CasesAssumption
  <2>2. c.passes \in Seq(PassNames)
    <3>1. {"next", "braid", "fix"} \subseteq PassNames
      BY DEF PassNames
    <3> QED BY <2>1, <3>1
  <2>3. "resolve" \in PassNames
    BY DEF PassNames
  <2> QED BY <2>2, <2>3
<1>2. \A k \in DOMAIN passes : passes[k] = "braid" => "braid" \in ToSet(c.passes)
  <2>1. c.passes \in Seq({"next", "braid", "fix"})
    BY CasesAssumption
  <2>2. SUFFICES ASSUME NEW k \in DOMAIN passes, passes[k] = "braid"
                 PROVE  "braid" \in ToSet(c.passes)
    OBVIOUS
  <2>3. k \in DOMAIN c.passes /\ c.passes[k] = "braid"
    <3>1. Len(c.passes) \in Nat /\ DOMAIN c.passes = 1..Len(c.passes)
      BY <2>1
    <3>m. more = <<>> \/ more = <<"resolve">>
      OBVIOUS
    <3> HIDE DEF more
    <3>2. CASE more = <<>>
      <4>1. passes = c.passes
        <5>1. \A y \in Seq({"next", "braid", "fix"}) : y \o <<>> = y
          OBVIOUS
        <5> QED BY <2>1, <3>2, <5>1
      <4> QED BY <2>2, <4>1
    <3>3. CASE more = <<"resolve">>
      <4>1. /\ DOMAIN passes = 1..(Len(c.passes) + 1)
            /\ \A j \in 1..Len(c.passes) : passes[j] = c.passes[j]
            /\ passes[Len(c.passes) + 1] = "resolve"
        <5>1. \A y \in Seq({"next", "braid", "fix"}) :
                /\ DOMAIN (y \o <<"resolve">>) = 1..(Len(y) + 1)
                /\ \A j \in 1..Len(y) : (y \o <<"resolve">>)[j] = y[j]
                /\ (y \o <<"resolve">>)[Len(y) + 1] = "resolve"
          OBVIOUS
        <5> QED BY <2>1, <3>3, <5>1
      <4> HIDE DEF passes
      <4>2. k # Len(c.passes) + 1
        BY <2>2, <4>1
      <4>3. k \in 1..Len(c.passes)
        BY <2>2, <3>1, <4>1, <4>2
      <4> QED BY <2>2, <3>1, <4>1, <4>3
    <3> QED BY <3>m, <3>2, <3>3
  <2> QED BY <2>3 DEF ToSet
<1>3. x = [k \in 1..N |-> IF k % 2 = 1 THEN "address" ELSE passes[k \div 2]]
  BY DEF PassesOf
<1> HIDE DEF passes, x, more
<1>4. Len(passes) \in Nat /\ DOMAIN passes = 1..Len(passes) /\ N \in Nat
      /\ \A k \in 1..Len(passes) : passes[k] \in PassNames
  BY <1>1
<1>5. \A k \in 1..N : k % 2 # 1 => k \div 2 \in 1..Len(passes)
  BY <1>4
<1>6. \A k \in 1..N : x[k] = IF k % 2 = 1 THEN "address" ELSE passes[k \div 2]
  BY <1>3
<1>7. \A k \in 1..N : x[k] \in PassNames
  <2>1. "address" \in PassNames
    BY DEF PassNames
  <2> QED BY <1>4, <1>5, <1>6, <2>1
<1> HIDE DEF N
<1>8. x \in Seq(PassNames) /\ DOMAIN x = 1..N
  BY <1>3, <1>4, <1>7
<1>9. Alternates(x)
  <2> SUFFICES ASSUME NEW k \in 1..N, k > 1, x[k] # "address" PROVE x[k - 1] = "address"
    BY <1>8 DEF Alternates
  <2>1. k % 2 # 1
    BY <1>6
  <2>2. k - 1 \in 1..N /\ (k - 1) % 2 = 1
    BY <1>4, <2>1
  <2> QED BY <1>6, <2>2
<1>10. x # <<>> => x[1] = "address"
  <2> SUFFICES ASSUME x # <<>> PROVE x[1] = "address"
    OBVIOUS
  <2>1. 1 \in 1..N /\ 1 % 2 = 1
    BY <1>4, <1>8
  <2> QED BY <1>6, <2>1
<1>11. \A k \in 1..N : x[k] = "braid" => "braid" \in ToSet(c.passes)
  BY <1>2, <1>4, <1>5, <1>6
<1> QED BY <1>8, <1>9, <1>10, <1>11 DEF x

\* A sound building block is one of the values of TypeOK.
LEMMA SafeTypes ==
  ASSUME Safe
  PROVE  TypeOK /\ (NoBraid => TargetsAgree)
<1> DEFINE n == Len(bb.instr)
<1>1. /\ n \in Nat /\ bb \in States(n, bb.blocks, bb.fini) /\ Shows(bb, n)
      /\ NoBraid => Agreed(bb)
  BY DEF Safe, Sound
<1> HIDE DEF n
<1>2. bb.instr \in [1..n -> InstrT(n)] /\ bb.registers \in Registers(n)
  BY <1>1 DEF States
<1>3. ToSet(Text(bb)) \subseteq 1..n
  BY <1>1, TextSeq
<1>4. TypeOK
  <2>1. done \in 0..Size(case)
    BY DEF Safe, Running
  <2>2. pc \in 1..(Len(code) + 1) /\ (code # <<>> => pc \in DOMAIN code)
    <3>1. CASE code = <<>>
      <4>1. pc = 1
        BY <3>1 DEF Safe, Running
      <4>2. Len(code) = 0
        BY <3>1
      <4> QED BY <3>1, <4>1, <4>2
    <3>2. CASE code # <<>>
      <4>1. Runnable(code) /\ pc \in DOMAIN code
        BY <3>2 DEF Safe, Running
      <4>2. Len(code) \in Nat /\ DOMAIN code = 1..Len(code)
        BY <4>1 DEF Runnable
      <4> QED BY <4>1, <4>2
    <3> QED BY <3>1, <3>2
  <2>3. \A i \in DOMAIN bb.instr :
           /\ bb.instr[i].kind \in Kinds
           /\ bb.instr[i].origin \in 0..Size(case)
           /\ bb.instr[i].target.to \in 0..n
    <3>1. \A i \in DOMAIN bb.instr : bb.instr[i] \in InstrT(n)
      BY <1>2
    <3>2. \A x \in InstrT(n) : x.kind \in Kinds /\ x.origin \in 0..Size(case)
                               /\ x.target \in Targets(n)
      BY DEF InstrT
    <3>3. \A t \in Targets(n) : t.to \in 0..n
      BY DEF Targets
    <3> QED BY <3>1, <3>2, <3>3
  <2>4. ToSet(Text(bb)) \subseteq DOMAIN bb.instr /\ Len(bb.registers) <= FreeRegisters
    BY <1>2, <1>3 DEF Registers
  <2> QED BY <2>1, <2>2, <2>3, <2>4 DEF TypeOK, n
<1>5. ASSUME NoBraid PROVE TargetsAgree
  <2>1. \A i \in DOMAIN bb.instr : AgreesAt(bb, i) \/ Excepted(bb, i)
    BY <1>1, <1>5 DEF Agreed
  <2>2. \A i \in ToSet(Text(bb)) : i \in DOMAIN bb.instr
    BY <1>2, <1>3
  <2> QED BY <2>1, <2>2 DEF TargetsAgree, AgreesAt, Excepted
<1> QED BY <1>4, <1>5

\* Initial states are safe.
LEMMA InitSafe == Init => Safe
<1> SUFFICES ASSUME Init PROVE Safe
  OBVIOUS
<1>1. case \in Cases /\ bb = Built(case) /\ todo = PassesOf(case)
      /\ code = <<>> /\ pc = 1 /\ done = 0
  BY DEF Init
<1>2. Sound(bb) /\ Agreed(bb) /\ Len(bb.instr) = Size(case)
  BY <1>1, BuiltSound
<1>3. Len(case.blocks) = 1 => Woven(bb)
  BY <1>1, BuiltWoven
<1>4. Running
  <2>1. Size(case) \in Nat
    BY <1>2 DEF Sound
  <2> QED BY <1>1, <2>1 DEF Running
<1>5. /\ todo \in Seq(PassNames) /\ Alternates(todo)
      /\ todo # <<>> => todo[1] = "address"
      /\ \A k \in DOMAIN todo : todo[k] = "braid" => "braid" \in ToSet(case.passes)
  BY <1>1, PassesTypes
<1> QED BY <1>1, <1>2, <1>3, <1>4, <1>5 DEF Safe, NoBraid

\* The next pass to run and those behind it.
LEMMA PassesLeft ==
  ASSUME NEW S, NEW x \in Seq(S), x # <<>>, Alternates(x)
  PROVE  /\ Tail(x) \in Seq(S) /\ Alternates(Tail(x)) /\ Head(x) \in S /\ Head(x) = x[1]
         /\ Tail(x) # <<>> /\ Tail(x)[1] # "address" => Head(x) = "address"
         /\ 1 \in DOMAIN x
         /\ \A k \in DOMAIN Tail(x) : \E j \in DOMAIN x : Tail(x)[k] = x[j]
<1> DEFINE y == Tail(x)
<1>1. /\ Len(x) \in Nat \ {0} /\ y \in Seq(S) /\ Len(y) = Len(x) - 1
      /\ DOMAIN x = 1..Len(x) /\ DOMAIN y = 1..Len(y) /\ Head(x) = x[1] /\ Head(x) \in S
      /\ \A k \in 1..Len(y) : y[k] = x[k + 1]
  BY HeadTailProperties
<1> HIDE DEF y
<1>2. \A k \in DOMAIN y : k + 1 \in DOMAIN x /\ k + 1 > 1
  BY <1>1
<1>3. Alternates(y)
  <2> SUFFICES ASSUME NEW k \in DOMAIN y, k > 1, y[k] # "address" PROVE y[k - 1] = "address"
    BY DEF Alternates
  <2>1. x[k + 1] # "address" /\ k + 1 \in DOMAIN x /\ k + 1 > 1
    BY <1>1, <1>2
  <2>2. x[(k + 1) - 1] = "address"
    BY <2>1 DEF Alternates
  <2>3. k - 1 \in 1..Len(y) /\ (k + 1) - 1 = k /\ (k - 1) + 1 = k
    BY <1>1
  <2> QED BY <1>1, <2>2, <2>3
<1>4. y # <<>> /\ y[1] # "address" => x[1] = "address"
  <2> SUFFICES ASSUME y # <<>>, y[1] # "address" PROVE x[1] = "address"
    OBVIOUS
  <2>1. 1 \in 1..Len(y) /\ 1 + 1 = 2 /\ 2 - 1 = 1
    BY <1>1
  <2>2. x[2] # "address" /\ 2 \in DOMAIN x
    BY <1>1, <2>1
  <2>3. \A k \in DOMAIN x : k > 1 /\ x[k] # "address" => x[k - 1] = "address"
    BY DEF Alternates
  <2>4. PICK k \in DOMAIN x : k = 2
    BY <2>2
  <2>5. k > 1 /\ x[k] # "address" /\ k - 1 = 1
    BY <2>2, <2>4
  <2>6. x[k - 1] = "address"
    BY <2>3, <2>5
  <2> QED BY <2>5, <2>6
<1>5. 1 \in DOMAIN x /\ \A k \in DOMAIN y : \E j \in DOMAIN x : y[k] = x[j]
  BY <1>1, <1>2
<1> QED BY <1>1, <1>3, <1>4, <1>5 DEF y

\* What a pass leaves is safe where its result is.
LEMMA PassSafe ==
  ASSUME Safe, NEW name, NEW t, Pass(name, t), Sound(t), NoBraid => Agreed(t),
         Len(case.blocks) = 1 => Woven(t), name = "address" => Addressed(t)
  PROVE  Safe'
<1>1. /\ todo # <<>> /\ Head(todo) = name /\ bb' = t /\ todo' = Tail(todo)
      /\ case' = case /\ code' = code /\ pc' = pc /\ done' = done
  BY DEF Pass
<1>2. case' \in Cases /\ (NoBraid' <=> NoBraid)
  BY <1>1 DEF Safe, NoBraid
<1>3. /\ Sound(bb)' /\ (NoBraid' => Agreed(bb)') /\ (Addressed(t) => Addressed(bb)')
      /\ (Len(case.blocks) = 1)' => Woven(bb)'
  <2>1. Sound(t)' = Sound(t)
    BY <1>1 DEF Sound, States, InstrT, Size
  <2>2. /\ Sound(bb') /\ (NoBraid' => Agreed(bb')) /\ (Addressed(t) => Addressed(bb'))
        /\ Len(case'.blocks) = 1 => Woven(bb')
    BY <1>1, <1>2
  <2> QED BY <1>1, <2>1, <2>2 DEF Sound, States, InstrT, Size
<1>4. /\ todo' \in Seq(PassNames) /\ Alternates(todo')
      /\ todo' # <<>> /\ todo'[1] # "address" => name = "address"
      /\ \A k \in DOMAIN todo' : \E j \in DOMAIN todo : todo'[k] = todo[j]
  BY <1>1, PassesLeft DEF Safe
<1>5. todo' # <<>> => todo'[1] = "address" \/ Addressed(bb')
  BY <1>1, <1>3, <1>4
<1>6. \A k \in DOMAIN todo' : todo'[k] = "braid" => ~NoBraid'
  BY <1>2, <1>4 DEF Safe
<1>7. Running'
  BY <1>1 DEF Safe, Running, Runnable, Size
<1> QED BY <1>2, <1>3, <1>4, <1>5, <1>6, <1>7 DEF Safe

\* A pass that adds no instruction keeps the blocks.
LEMMA KeptSafe ==
  ASSUME Safe, NEW name, NEW t, Pass(name, t), Kept(bb, t),
         name = "address" => Addressed(t)
  PROVE  Safe'
<1>1. Sound(t) /\ (NoBraid => Agreed(t))
  BY DEF Kept, Safe
<1>2. Len(case.blocks) = 1 => Woven(t)
  BY DEF Kept, Safe, Woven
<1> QED BY <1>1, <1>2, PassSafe

\* Every step keeps it.
LEMMA NextSafe == Served /\ Safe /\ [Next]_vars => Safe'
<1> SUFFICES ASSUME Served, Safe, [Next]_vars PROVE Safe'
  OBVIOUS
<1>1. Sound(bb)
  BY DEF Safe
<1>2. CASE UpdateInstructionAddressesPass
  <2> PICK t : t = UpdatedAddresses(bb)
    OBVIOUS
  <2>1. Kept(bb, t) /\ Addressed(t)
    BY <1>1, AddressSound
  <2>2. Pass("address", t)
    BY <1>2 DEF UpdateInstructionAddressesPass
  <2> QED BY <2>1, <2>2, KeptSafe
<1>3. CASE BranchNextPass
  <2> PICK t : t = Aimed(bb, FALSE).bb
    OBVIOUS
  <2>1. Kept(bb, t)
    BY <1>1, NextSound
  <2>2. Pass("next", t)
    BY <1>3 DEF BranchNextPass
  <2> QED BY <2>1, <2>2, KeptSafe
<1>4. CASE BranchBraidNextPass
  <2> PICK t : t = Braided(bb)
    OBVIOUS
  <2>1. Pass("braid", t)
    BY <1>4 DEF BranchBraidNextPass
  <2>2. Head(todo) = "braid" /\ todo # <<>>
    BY <2>1 DEF Pass
  <2>3. todo[1] = "braid" /\ 1 \in DOMAIN todo
    BY <2>2, PassesLeft DEF Safe
  <2>4. ~NoBraid /\ Addressed(bb) /\ case \in Cases
    BY <2>2, <2>3 DEF Safe
  <2>5. Len(case.blocks) = 1 /\ Woven(bb)
    BY <2>4 DEF Safe, Served
  <2>6. Sound(t) /\ Woven(t)
    BY <1>1, <2>4, <2>5, BraidSound
  <2> QED BY <2>1, <2>4, <2>6, PassSafe
<1>5. CASE FixIndirectBranchPass
  <2> PICK t : t = Fixed(bb)
    OBVIOUS
  <2>1. Kept(bb, t)
    BY <1>1, FixSound
  <2>2. Pass("fix", t)
    BY <1>5 DEF FixIndirectBranchPass
  <2> QED BY <2>1, <2>2, KeptSafe
<1>6. CASE ResolveSymbolicReferencesPass
  <2> PICK t : t = Resolved(bb)
    OBVIOUS
  <2>1. Pass("resolve", t)
    BY <1>6 DEF ResolveSymbolicReferencesPass
  <2>2. Head(todo) = "resolve" /\ todo # <<>>
    BY <2>1 DEF Pass
  <2>3. todo[1] # "address"
    BY <2>2, PassesLeft DEF Safe
  <2>4. Addressed(bb)
    BY <2>2, <2>3 DEF Safe
  <2>5. Kept(bb, t)
    BY <1>1, <2>4, ResolveSound
  <2> QED BY <2>1, <2>5, KeptSafe
<1>7. CASE WrapThread
  <2>1. /\ todo = <<>> /\ code = <<>> /\ Assembles(bb) /\ code' = Assembled(bb)
        /\ case' = case /\ bb' = bb /\ todo' = todo /\ pc' = pc /\ done' = done
    BY <1>7 DEF WrapThread
  <2>2. Runnable(code')
    BY <1>1, <2>1, AssembledRuns
  <2>3. pc' = 1 /\ done' \in 0..Size(case)
    BY <2>1 DEF Safe, Running
  <2>4. Running'
    <3>1. 1 \in DOMAIN code' /\ code' # <<>>
      BY <2>2 DEF Runnable
    <3>2. Runnable(code)'
      BY <2>1, <2>2 DEF Runnable, Size
    <3>3. done' \in 0..Size(case)'
      BY <2>1, <2>3 DEF Size
    <3> QED BY <2>1, <2>3, <3>1, <3>2, <3>3 DEF Running
  <2> QED BY <2>1, <2>4 DEF Safe, NoBraid, Sound, States, InstrT, Size
<1>8. ASSUME NEW next \in Nat \ {0}, Execute(next) PROVE Safe'
  <2>1. /\ code # <<>> /\ pc' = Looping(next) /\ case' = case /\ bb' = bb
        /\ todo' = todo /\ code' = code
        /\ done' = IF code[pc].origin = 0 THEN done ELSE code[pc].origin
    BY <1>8 DEF Execute
  <2>2. Runnable(code) /\ pc \in DOMAIN code /\ todo = <<>> /\ done \in 0..Size(case)
    BY <2>1 DEF Safe, Running
  <2>3. pc' \in DOMAIN code
    BY <1>8, <2>1, <2>2 DEF Looping, Runnable
  <2>4. done' \in 0..Size(case)
    BY <2>1, <2>2 DEF Runnable
  <2>5. Running'
    <3>1. Runnable(code)'
      BY <2>1, <2>2 DEF Runnable, Size
    <3>2. done' \in 0..Size(case)'
      BY <2>1, <2>4 DEF Size
    <3> QED BY <2>1, <2>2, <2>3, <3>1, <3>2 DEF Running
  <2> QED BY <2>1, <2>5 DEF Safe, NoBraid, Sound, States, InstrT, Size
<1>9. CASE FallThrough
  <2>1. code # <<>> /\ Execute(pc + 1)
    BY <1>9 DEF FallThrough
  <2>2. Runnable(code) /\ pc \in DOMAIN code
    BY <2>1 DEF Safe, Running
  <2>3. pc + 1 \in Nat \ {0}
    BY <2>2 DEF Runnable
  <2> PICK next : next = pc + 1
    OBVIOUS
  <2> QED BY <1>8, <2>1, <2>3
<1>10. CASE Taken
  <2>1. code # <<>>
    BY <1>10 DEF Taken
  <2>2. PICK next \in code[pc].goals : Execute(next)
    BY <1>10 DEF Taken
  <2>3. Runnable(code) /\ pc \in DOMAIN code
    BY <2>1 DEF Safe, Running
  <2>4. next \in Nat \ {0}
    BY <2>2, <2>3 DEF Runnable
  <2> QED BY <1>8, <2>2, <2>4
<1>11. CASE UNCHANGED vars
  BY <1>11 DEF vars, Safe, NoBraid, Sound, States, InstrT, Size, Running, Runnable
<1> QED BY <1>2, <1>3, <1>4, <1>5, <1>6, <1>7, <1>9, <1>10, <1>11 DEF Next

\* The case never changes.
LEMMA ServedSafe ==
  /\ Init => (Served => Safe)
  /\ (Served => Safe) /\ [Next]_vars => (Served => Safe)'
<1>1. Init => (Served => Safe)
  BY InitSafe
<1>2. (Served => Safe) /\ [Next]_vars => (Served => Safe)'
  <2> SUFFICES ASSUME Served => Safe, [Next]_vars, Served' PROVE Safe'
    OBVIOUS
  <2>1. case' = case
    BY DEF Next, vars, UpdateInstructionAddressesPass, BranchNextPass, BranchBraidNextPass,
           FixIndirectBranchPass, ResolveSymbolicReferencesPass, Pass, WrapThread,
           FallThrough, Taken, Execute
  <2>2. Served
    BY <2>1 DEF Served, NoBraid
  <2> QED BY <2>2, NextSafe
<1> QED BY <1>1, <1>2

\* The types: the execution stays inside the code and every instruction of the
\* text is an object, whatever passes run, if a program that is braided has one
\* block.
THEOREM BranchesTypeCorrect == Spec => [](Served => TypeOK)
<1>1. (Served => Safe) => (Served => TypeOK)
  BY SafeTypes
<1> QED BY <1>1, ServedSafe, PTL DEF Spec

\* Where no pass braids, the label in the operand of a branch and the
\* instruction noted beside it are the same place.
THEOREM BranchTargetsAgree == Spec => [](NoBraid => TargetsAgree)
<1>1. (Served => Safe) => (NoBraid => TargetsAgree)
  BY SafeTypes DEF Served
<1> QED BY <1>1, ServedSafe, PTL DEF Spec
=============================================================================
