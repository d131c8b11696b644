---------------------------- MODULE SeqTuneProofs ----------------------------
(***************************************************************************)
(* The policy builds what it should, for any registers, reserved           *)
(* registers, loops and streams.                                           *)
(*                                                                         *)
(* NoHazardsAllocationPass serves reads and writes from lists that stay    *)
(* apart.  A phase hands the next one what it needs: the pools of the      *)
(* classes have no register in common, unless the block had one on two of  *)
(* them already; nor have the lists made of them, which hold each register *)
(* once, so that balancing takes a register away from its donor; and while *)
(* registers are given, no list gains one, but for a register an operand   *)
(* must have, so that a register is given from the same list every time.   *)
(*                                                                         *)
(* DefaultRegisterAllocationPass keeps the dependency distance.  Whatever  *)
(* the passes before it insert, the loop is code and its block has each    *)
(* instruction at most once (BuildInv), so that giving one its registers   *)
(* changes no other; and the list of the last definitions tells what each  *)
(* instruction has set (Tracks), which is where the pass looks.            *)
(*                                                                         *)
(* Registers are set to what is asked.  A run of instructions is the last  *)
(* of the register files in between, so the paths of set_register are      *)
(* followed one instruction after the other: what a register is taken from *)
(* holds what is known of it, LUI and ADDI make half a word up to its      *)
(* multiples, and every shift and OR of the long path append a piece; what *)
(* the multiples become falls out of the word.  Hence until the streams    *)
(* are declared, what is known of the registers is what they hold.         *)
(*                                                                         *)
(* The streams' walk stays in their variables.                             *)
(***************************************************************************)
EXTENDS SeqTune, FiniteFacts, SequenceTheorems

Classes == {"in", "io", "out"}

\* No two of three sets have a member in common.
Apart(p) == \A a, b \in Classes : a # b => p[a] \cap p[b] = {}
Pools == [Classes -> SUBSET Regs]

LEMMA ClassOf == ASSUME NEW op PROVE Class(op) \in Classes
BY DEF Class, Classes

LEMMA ClassCases == ASSUME NEW op
 PROVE Class(op) = "io" \/ Class(op) = "in" \/ Class(op) = "out"
BY DEF Class

\* An operand adds to one pool what is in none of the others.
LEMMA PooledApart ==
  ASSUME NEW p \in Pools, NEW op, NEW q \in Pooled(p, op)
  PROVE  q \in Pools /\ (Apart(p) => Apart(q))
<1> DEFINE free == (Regs \cap op.regs) \ reserved
<1>1. \/ q = [p EXCEPT !.io = @ \cup (free \ (p.in \cup p.out))]
      \/ \E r \in free \ (p.io \cup p.in \cup p.out) : q = [p EXCEPT !.out = @ \cup {r}]
      \/ \E r \in free \ (p.io \cup p.out) : q = [p EXCEPT !.in = @ \cup {r}]
      \/ q = p
  BY ClassCases DEF Pooled
<1>2. free \subseteq Regs
  OBVIOUS
<1> HIDE DEF free
<1>3. q \in Pools
  BY <1>1, <1>2 DEF Pools
<1>4. Apart(p) => Apart(q)
  BY <1>1, <1>2, <1>3 DEF Pools, Apart, Classes
<1> QED BY <1>3, <1>4

LEMMA PoolingApart ==
  ASSUME NEW i, NEW o, NEW P, \A p \in P : p \in Pools /\ (~shared => Apart(p))
  PROVE  \A p \in Pooling(i, o, P) : p \in Pools /\ (~shared => Apart(p))
BY PooledApart DEF Pooling

-----------------------------------------------------------------------------
(* Lists of registers.                                                     *)

Distinct(s) == \A j, k \in DOMAIN s : j # k => s[j] # s[k]
Queues == [Classes -> Seq(Regs)]
QueuesApart(q) ==
    /\ \A c \in Classes : Distinct(q[c])
    /\ \A c, d \in Classes : c # d => ToSet(q[c]) \cap ToSet(q[d]) = {}

\* A set of numbers that is not empty has a first one.
LEMMA FirstIn == ASSUME NEW S \in SUBSET Nat, S # {} PROVE First(S) \in S
<1> DEFINE R == OpToRel(<, Nat)
<1>1. IsWellFoundedOn(R, Nat)
  BY NatLessThanWellFounded
<1>2. PICK x \in S : \A y \in S : ~(<<y, x>> \in R)
  <2> HIDE DEF R
  <2> QED BY <1>1, WFMin
<1>3. \A y \in S : x <= y
  <2> SUFFICES ASSUME NEW y \in S, ~(x <= y) PROVE FALSE
    OBVIOUS
  <2>1. x \in Nat /\ y \in Nat
    OBVIOUS
  <2>2. <<y, x>> \in R
    BY <2>1 DEF OpToRel
  <2> QED BY <1>2, <2>2
<1> QED BY <1>3 DEF First

LEMMA SortedSet ==
  ASSUME NEW S \in SUBSET Regs
  PROVE  Sorted(S) \in Seq(Regs) /\ Distinct(Sorted(S)) /\ ToSet(Sorted(S)) = S
<1> DEFINE n == Cardinality(S)
           f == [k \in 1..n |-> At(S, k)]
<1>1. S \in SUBSET Nat /\ IsFiniteSet(S)
  BY RiscvAssumption, FS_Subset
<1>2. n \in Nat /\ Ascends(f, n, S)
  BY <1>1, AtAscends
<1>3. Sorted(S) = f
  BY DEF Sorted, SortedBy, At, Below
<1> HIDE DEF f, n
<1>4. /\ f \in [1..n -> S] /\ \A i, j \in 1..n : i < j => f[i] < f[j]
      /\ \A p \in S : \E i \in 1..n : f[i] = p
  BY <1>2 DEF Ascends
<1>5. f \in [1..n -> Regs]
  BY <1>4
<1>6. f \in Seq(Regs)
  BY <1>2, <1>5
<1>7. Distinct(f)
  <2> SUFFICES ASSUME NEW i \in 1..n, NEW j \in 1..n, i # j PROVE f[i] # f[j]
    BY <1>5 DEF Distinct
  <2>1. f[i] \in Nat /\ f[j] \in Nat
    BY <1>1, <1>4
  <2>2. i < j \/ j < i
    BY <1>2
  <2> QED BY <1>4, <2>1, <2>2
<1>8. ToSet(f) = S
  BY <1>4 DEF ToSet
<1> QED BY <1>3, <1>6, <1>7, <1>8

LEMMA RemovedAt ==
  ASSUME NEW T, NEW s \in Seq(T), NEW k \in 1..Len(s)
  PROVE  /\ RemoveAt(s, k) \in Seq(T) /\ Len(RemoveAt(s, k)) = Len(s) - 1
         /\ \A n \in 1..(Len(s) - 1) :
               RemoveAt(s, k)[n] = s[IF n < k THEN n ELSE n + 1]
<1> DEFINE a == SubSeq(s, 1, k - 1)
           b == SubSeq(s, k + 1, Len(s))
<1>1. Len(s) \in Nat /\ k \in Nat /\ 1 <= k /\ k <= Len(s)
  OBVIOUS
<1>2. a \in Seq(T) /\ Len(a) = k - 1 /\ \A n \in 1..(k - 1) : a[n] = s[n]
  <2>1. \A n \in 1..(k - 1) : s[n] \in T
    BY <1>1
  <2> QED BY <1>1, <2>1
<1>3. /\ b \in Seq(T) /\ Len(b) = Len(s) - k
      /\ \A n \in 1..(Len(s) - k) : b[n] = s[k + n]
  <2>1. \A n \in (k + 1)..Len(s) : s[n] \in T
    BY <1>1
  <2> QED BY <1>1, <2>1
<1> HIDE DEF a, b
<1>4. RemoveAt(s, k) = a \o b
  BY DEF RemoveAt, a, b
<1>5. /\ a \o b \in Seq(T) /\ Len(a \o b) = Len(s) - 1
      /\ \A n \in 1..(Len(s) - 1) :
           (a \o b)[n] = IF n <= k - 1 THEN a[n] ELSE b[n - (k - 1)]
  <2>1. a \in Seq(T) /\ b \in Seq(T)
    BY <1>2, <1>3
  <2>2. /\ a \o b \in Seq(T) /\ Len(a \o b) = Len(a) + Len(b)
        /\ \A n \in 1..(Len(a) + Len(b)) :
             (a \o b)[n] = IF n <= Len(a) THEN a[n] ELSE b[n - Len(a)]
    BY <2>1, ConcatProperties
  <2>3. Len(a) + Len(b) = Len(s) - 1
    BY <1>1, <1>2, <1>3
  <2> QED BY <1>1, <1>2, <2>2, <2>3
<1>6. ASSUME NEW n \in 1..(Len(s) - 1)
      PROVE  (a \o b)[n] = s[IF n < k THEN n ELSE n + 1]
  <2>1. CASE n < k
    BY <1>1, <1>2, <1>5, <2>1
  <2>2. CASE ~(n < k)
    <3>1. n - (k - 1) \in 1..(Len(s) - k) /\ k + (n - (k - 1)) = n + 1
      BY <1>1, <2>2
    <3>2. b[n - (k - 1)] = s[n + 1]
      BY <1>3, <3>1
    <3> QED BY <1>1, <1>5, <2>2, <3>2
  <2> QED BY <2>1, <2>2
<1> QED BY <1>4, <1>5, <1>6

LEMMA WithoutFirstOf ==
  ASSUME NEW s \in Seq(Regs), NEW r, Contains(s, r)
  PROVE  LET w == WithoutFirst(s, r)
         IN  /\ w \in Seq(Regs) /\ ToSet(w) \subseteq ToSet(s)
             /\ Distinct(s) => Distinct(w) /\ r \notin ToSet(w)
<1> DEFINE K == {j \in DOMAIN s : s[j] = r}
           k == First(K)
           w == WithoutFirst(s, r)
<1>1. K \in SUBSET Nat /\ K # {}
  BY DEF Contains
<1>2. k \in 1..Len(s) /\ s[k] = r
  <2>1. k \in K
    BY <1>1, FirstIn
  <2> QED BY <2>1
<1>3. w = RemoveAt(s, k)
  BY DEF WithoutFirst
<1> HIDE DEF k, w
<1>4. /\ w \in Seq(Regs) /\ Len(w) = Len(s) - 1 /\ DOMAIN w = 1..(Len(s) - 1)
      /\ \A n \in 1..(Len(s) - 1) : w[n] = s[IF n < k THEN n ELSE n + 1]
  <2>1. /\ w \in Seq(Regs) /\ Len(w) = Len(s) - 1
        /\ \A n \in 1..(Len(s) - 1) : w[n] = s[IF n < k THEN n ELSE n + 1]
    BY <1>2, <1>3, RemovedAt
  <2> QED BY <2>1
<1>5. \A n \in DOMAIN w : (IF n < k THEN n ELSE n + 1) \in DOMAIN s
  BY <1>4
<1>6. ToSet(w) \subseteq ToSet(s)
  BY <1>4, <1>5 DEF ToSet
<1>7. ASSUME Distinct(s) PROVE Distinct(w)
  <2> SUFFICES ASSUME NEW i \in DOMAIN w, NEW j \in DOMAIN w, i # j
               PROVE  w[i] # w[j]
    BY DEF Distinct
  <2> DEFINE of(n) == IF n < k THEN n ELSE n + 1
  <2>1. of(i) # of(j)
    BY <1>2, <1>4
  <2>2. of(i) \in DOMAIN s /\ of(j) \in DOMAIN s
    BY <1>5
  <2> QED BY <1>4, <1>7, <2>1, <2>2 DEF Distinct
<1>8. ASSUME Distinct(s), NEW n \in DOMAIN w PROVE w[n] # r
  <2>1. (IF n < k THEN n ELSE n + 1) # k
    BY <1>2, <1>4
  <2> QED BY <1>2, <1>4, <1>5, <1>8, <2>1 DEF Distinct
<1> QED BY <1>4, <1>6, <1>7, <1>8 DEF ToSet, w

LEMMA Appended ==
  ASSUME NEW s \in Seq(Regs), NEW r \in Regs
  PROVE  /\ Append(s, r) \in Seq(Regs) /\ ToSet(Append(s, r)) = ToSet(s) \cup {r}
         /\ Distinct(s) /\ r \notin ToSet(s) => Distinct(Append(s, r))
<1> DEFINE t == Append(s, r)
<1>1. /\ t \in Seq(Regs) /\ DOMAIN t = 1..(Len(s) + 1) /\ DOMAIN s = 1..Len(s)
      /\ Len(s) \in Nat
      /\ \A n \in 1..Len(s) : t[n] = s[n]
      /\ t[Len(s) + 1] = r
  OBVIOUS
<1> HIDE DEF t
<1>2. \A n \in DOMAIN t : n \in DOMAIN s \/ n = Len(s) + 1
  BY <1>1
<1>3. ToSet(t) = ToSet(s) \cup {r}
  <2>1. ToSet(t) \subseteq ToSet(s) \cup {r}
    BY <1>1, <1>2 DEF ToSet
  <2>2. \A n \in DOMAIN s : n \in DOMAIN t /\ t[n] = s[n]
    BY <1>1
  <2>3. Len(s) + 1 \in DOMAIN t
    BY <1>1
  <2> QED BY <1>1, <2>1, <2>2, <2>3 DEF ToSet
<1>4. Distinct(s) /\ r \notin ToSet(s) => Distinct(t)
  BY <1>1, <1>2 DEF ToSet, Distinct
<1> QED BY <1>1, <1>3, <1>4 DEF t

\* Collect makes pools, and sees whether they have registers in common.
LEMMA PoolsOf ==
  ASSUME NEW a \in SUBSET Regs, NEW b \in SUBSET Regs, NEW c \in SUBSET Regs
  PROVE  LET p == [in |-> a, io |-> b, out |-> c]
         IN  /\ p \in Pools
             /\ ~(\E x, y \in DOMAIN p : x # y /\ p[x] \cap p[y] # {}) => Apart(p)
BY DEF Pools, Apart, Classes

LEMMA ListsOf ==
  ASSUME NEW p \in Pools
  PROVE  LET q == [class \in DOMAIN p |-> Sorted(p[class])]
         IN  q \in Queues /\ (Apart(p) => QueuesApart(q))
<1>1. \A c \in Classes : /\ p[c] \in SUBSET Regs
                         /\ Sorted(p[c]) \in Seq(Regs) /\ Distinct(Sorted(p[c]))
                         /\ ToSet(Sorted(p[c])) = p[c]
  BY SortedSet DEF Pools
<1>2. DOMAIN p = Classes
  BY DEF Pools
<1> QED BY <1>1, <1>2 DEF Queues, QueuesApart, Apart

LEMMA HeadIn ==
  ASSUME NEW s \in Seq(Regs), s # <<>>
  PROVE  Head(s) \in Regs /\ Contains(s, Head(s)) /\ Head(s) \in ToSet(s)
<1>1. Len(s) \in Nat /\ Len(s) >= 1 /\ 1 \in DOMAIN s /\ 1 \in 1..Len(s)
      /\ s[1] \in Regs /\ Head(s) = s[1]
  OBVIOUS
<1> QED BY <1>1 DEF Contains, ToSet

LEMMA ContainsSet ==
  ASSUME NEW s \in Seq(Regs), NEW r
  PROVE  Contains(s, r) <=> r \in ToSet(s)
<1>1. DOMAIN s = 1..Len(s)
  OBVIOUS
<1> QED BY <1>1 DEF Contains, ToSet

\* Balancing takes the first register of one list to the end of another.
LEMMA OneMoved ==
  ASSUME NEW q \in Queues, NEW a \in Classes, NEW b \in Classes, q[b] # <<>>
  PROVE  LET r == Head(q[b])
             more == [q EXCEPT ![a] = Append(@, r)]
             done == [more EXCEPT ![b] = WithoutFirst(@, r)]
         IN  done \in Queues /\ (a # b /\ QueuesApart(q) => QueuesApart(done))
<1> DEFINE r == Head(q[b])
           more == [q EXCEPT ![a] = Append(@, r)]
           done == [more EXCEPT ![b] = WithoutFirst(@, r)]
<1>1. \A c \in Classes : q[c] \in Seq(Regs)
  BY DEF Queues
<1>2. r \in Regs /\ Contains(q[b], r) /\ r \in ToSet(q[b])
  BY <1>1, HeadIn
<1> HIDE DEF r
<1>3. /\ Append(q[a], r) \in Seq(Regs)
      /\ ToSet(Append(q[a], r)) = ToSet(q[a]) \cup {r}
      /\ Distinct(q[a]) /\ r \notin ToSet(q[a]) => Distinct(Append(q[a], r))
  BY <1>1, <1>2, Appended
<1>4. more \in Queues
  BY <1>3 DEF Queues
<1>5. more[b] \in Seq(Regs) /\ Contains(more[b], r)
  <2>1. more[b] = IF a = b THEN Append(q[a], r) ELSE q[b]
    BY DEF Queues
  <2>2. CASE a = b
    BY <1>3, <2>1, <2>2, ContainsSet
  <2>3. CASE a # b
    BY <1>1, <1>2, <2>1, <2>3
  <2> QED BY <2>2, <2>3
<1> DEFINE w == WithoutFirst(more[b], r)
<1>6. /\ w \in Seq(Regs) /\ ToSet(w) \subseteq ToSet(more[b])
      /\ Distinct(more[b]) => Distinct(w) /\ r \notin ToSet(w)
  BY <1>5, WithoutFirstOf
<1>7. done = [more EXCEPT ![b] = w]
  BY DEF Queues
<1> HIDE DEF w
<1>8. done \in Queues
  BY <1>4, <1>6, <1>7 DEF Queues
<1>9. ASSUME a # b, QueuesApart(q) PROVE QueuesApart(done)
  <2>1. more[b] = q[b]
    BY <1>9 DEF Queues
  <2>2. Distinct(q[a]) /\ Distinct(q[b]) /\ ToSet(q[a]) \cap ToSet(q[b]) = {}
    BY <1>9 DEF QueuesApart
  <2>3. Distinct(w) /\ r \notin ToSet(w) /\ ToSet(w) \subseteq ToSet(q[b])
    BY <1>6, <2>1, <2>2
  <2>4. Distinct(Append(q[a], r))
    BY <1>2, <1>3, <2>2
  <2>5. \A c \in Classes : done[c] = IF c = b THEN w
                                     ELSE IF c = a THEN Append(q[a], r) ELSE q[c]
    BY <1>4, <1>7, <1>9 DEF Queues
  <2>6. \A c \in Classes : Distinct(done[c])
    BY <1>9, <2>3, <2>4, <2>5 DEF QueuesApart
  <2>7. \A c \in Classes : /\ ToSet(done[c]) \subseteq ToSet(q[c]) \cup {r}
                           /\ r \in ToSet(done[c]) => c = a \/ r \in ToSet(q[c])
                           /\ r \in ToSet(done[c]) => c # b
    BY <1>3, <2>3, <2>5
  <2>8. \A c, d \in Classes : c # d => ToSet(q[c]) \cap ToSet(q[d]) = {}
    BY <1>9 DEF QueuesApart
  <2>9. ASSUME NEW c \in Classes, NEW d \in Classes, c # d,
               NEW x \in ToSet(done[c]) \cap ToSet(done[d])
        PROVE  FALSE
    <3>1. CASE x = r
      BY <1>2, <2>7, <2>8, <2>9, <3>1
    <3>2. CASE x # r
      <4>1. x \in ToSet(q[c]) /\ x \in ToSet(q[d])
        BY <2>7, <2>9, <3>2
      <4>2. ToSet(q[c]) \cap ToSet(q[d]) = {}
        BY <2>8, <2>9
      <4> QED BY <4>1, <4>2
    <3> QED BY <3>1, <3>2
  <2> QED BY <2>6, <2>9 DEF QueuesApart
<1> QED BY <1>8, <1>9 DEF r

-----------------------------------------------------------------------------
(* Giving registers to operands.                                           *)

\* The registers of a list that no operand must have
Loose(s) == ToSet(s) \ Fixed

\* Such a register is on one list, and is given from no other, now and later.
PickedApart(q, given) ==
    /\ \A c, d \in Classes : c # d => Loose(q[c]) \cap Loose(q[d]) = {}
    /\ \A k \in given :
          /\ k.queue \in Classes /\ (k.queue = "io" \/ k.queue = k.class)
          /\ \A c \in Classes : c # k.queue => k.reg \notin Loose(q[c])
    /\ \A j, k \in given :
          j.reg = k.reg /\ j.reg \notin Fixed => j.queue = k.queue

\* None is added to a list.
Shrinks(q, r) == \A c \in Classes : Loose(r[c]) \subseteq Loose(q[c])

LEMMA ShrinksApart ==
  ASSUME NEW q, NEW r, NEW given, Shrinks(q, r), PickedApart(q, given)
  PROVE  PickedApart(r, given)
BY DEF Shrinks, PickedApart

LEMMA ToEndOf ==
  ASSUME NEW s \in Seq(Regs), NEW r, Contains(s, r)
  PROVE  ToEnd(s, r) \in Seq(Regs) /\ ToSet(ToEnd(s, r)) \subseteq ToSet(s)
<1>1. r \in ToSet(s) /\ r \in Regs
  <2>1. \A n \in 1..Len(s) : s[n] \in Regs
    OBVIOUS
  <2> QED BY <2>1, ContainsSet DEF Contains
<1>2. WithoutFirst(s, r) \in Seq(Regs) /\ ToSet(WithoutFirst(s, r)) \subseteq ToSet(s)
  BY WithoutFirstOf
<1> QED BY <1>1, <1>2, Appended DEF ToEnd

LEMMA WithoutOf ==
  ASSUME NEW s \in Seq(Regs), NEW r
  PROVE  Without(s, r) \in Seq(Regs) /\ ToSet(Without(s, r)) \subseteq ToSet(s)
BY WithoutFirstOf DEF Without

LEMMA ConstantShrinks ==
  ASSUME NEW q \in Queues, NEW op, First(op.regs) \in Regs => First(op.regs) \in Fixed
  PROVE  ConstantTurn(q, op) \in Queues /\ Shrinks(q, ConstantTurn(q, op))
<1> DEFINE r == First(op.regs)
           ended(c) == [q EXCEPT ![c] = ToEnd(@, r)]
           taken(c) == [[q EXCEPT ![c] = WithoutFirst(@, r)] EXCEPT !["io"] = Append(@, r)]
<1>0. r \in Regs => r \in Fixed
  OBVIOUS
<1> HIDE DEF r
<1>1. \A c \in Classes : q[c] \in Seq(Regs)
  BY DEF Queues
<1>2. ASSUME NEW c \in Classes, Contains(q[c], r)
      PROVE  ended(c) \in Queues /\ Shrinks(q, ended(c))
  <2>1. ToEnd(q[c], r) \in Seq(Regs) /\ ToSet(ToEnd(q[c], r)) \subseteq ToSet(q[c])
    BY <1>1, <1>2, ToEndOf
  <2> QED BY <2>1 DEF Queues, Classes, Shrinks, Loose
<1>3. ASSUME NEW c \in {"in", "out"}, Contains(q[c], r)
      PROVE  taken(c) \in Queues /\ Shrinks(q, taken(c))
  <2>1. WithoutFirst(q[c], r) \in Seq(Regs) /\ ToSet(WithoutFirst(q[c], r)) \subseteq ToSet(q[c])
    BY <1>1, <1>3, WithoutFirstOf DEF Classes
  <2>2. r \in Regs /\ r \in Fixed
    BY <1>0, <1>1, <1>3 DEF Contains, Classes
  <2>3. Append(q["io"], r) \in Seq(Regs) /\ ToSet(Append(q["io"], r)) = ToSet(q["io"]) \cup {r}
    BY <1>1, <2>2, Appended DEF Classes
  <2> QED BY <2>1, <2>2, <2>3 DEF Queues, Classes, Shrinks, Loose
<1>4. \/ Contains(q["io"], r) /\ ConstantTurn(q, op) = ended("io")
      \/ \E c \in {"in", "out"} : Contains(q[c], r) /\ ConstantTurn(q, op) \in {ended(c), taken(c)}
      \/ ConstantTurn(q, op) = q
  BY DEF ConstantTurn, r, Queues, Classes
<1>5. "io" \in Classes /\ "in" \in Classes /\ "out" \in Classes /\ Shrinks(q, q)
  BY DEF Classes, Shrinks
<1> HIDE DEF ended, taken
<1> QED BY <1>2, <1>3, <1>4, <1>5

LEMMA ListOfOf == ASSUME NEW q, NEW op
  PROVE ListOf(q, op) \in Classes /\ (ListOf(q, op) = "io" \/ ListOf(q, op) = Class(op))
BY ClassOf DEF ListOf, Classes

LEMMA PresetShrinks ==
  ASSUME NEW q \in Queues, NEW op, NEW r
  PROVE  PresetTurn(q, op, r) \in Queues /\ Shrinks(q, PresetTurn(q, op, r))
<1> DEFINE lists == <<ListOf(q, op), "in", "out", "io">>
           has == {k \in 1..4 : Contains(q[lists[k]], r)}
           c == lists[First(has)]
<1>1. CASE r \in reserved \/ has = {}
  BY <1>1 DEF PresetTurn, Shrinks
<1>2. CASE ~(r \in reserved \/ has = {})
  <2>1. First(has) \in has
    BY <1>2, FirstIn
  <2>2. Contains(q[c], r)
    BY <2>1
  <2>3. \A k \in 1..4 : lists[k] \in Classes
    BY ListOfOf DEF Classes
  <2>4. c \in Classes
    BY <2>1, <2>3
  <2>5. PresetTurn(q, op, r) = [q EXCEPT ![c] = ToEnd(@, r)]
    BY <1>2 DEF PresetTurn
  <2> HIDE DEF c
  <2>6. q[c] \in Seq(Regs)
    BY <2>4 DEF Queues
  <2>7. ToEnd(q[c], r) \in Seq(Regs) /\ ToSet(ToEnd(q[c], r)) \subseteq ToSet(q[c])
    BY <2>2, <2>6, ToEndOf
  <2> QED BY <2>4, <2>5, <2>7 DEF Queues, Classes, Shrinks, Loose
<1> QED BY <1>1, <1>2

LEMMA GivenShrinks ==
  ASSUME NEW q \in Queues, NEW c \in Classes, NEW r \in ToSet(q[c])
  PROVE  Given(q, c, r) \in Queues /\ Shrinks(q, Given(q, c, r))
<1> DEFINE none == [d \in DOMAIN q |-> Without(q[d], r)]
<1>1. q[c] \in Seq(Regs) /\ r \in Regs
  <2>1. q[c] \in Seq(Regs)
    BY DEF Queues
  <2>2. \A n \in DOMAIN q[c] : q[c][n] \in Regs
    BY <2>1
  <2> QED BY <2>1, <2>2 DEF ToSet
<1>2. \A d \in Classes : /\ none[d] \in Seq(Regs)
                         /\ ToSet(none[d]) \subseteq ToSet(q[d])
  BY WithoutOf DEF Queues
<1>3. DOMAIN none = Classes
  BY DEF Queues
<1>4. Given(q, c, r) = [none EXCEPT ![c] = Append(@, r)]
  BY DEF Given
<1>6. none \in Queues
  BY <1>2, <1>3 DEF Queues
<1> HIDE DEF none
<1>5. /\ Append(none[c], r) \in Seq(Regs)
      /\ ToSet(Append(none[c], r)) \subseteq ToSet(q[c])
  <2>1. none[c] \in Seq(Regs) /\ ToSet(none[c]) \subseteq ToSet(q[c])
    BY <1>2
  <2>2. /\ Append(none[c], r) \in Seq(Regs)
        /\ ToSet(Append(none[c], r)) = ToSet(none[c]) \cup {r}
    BY <1>1, <2>1, Appended
  <2> QED BY <2>1, <2>2
<1> QED BY <1>2, <1>3, <1>4, <1>5, <1>6 DEF Queues, Shrinks, Classes, Loose

\* What holds of the lists and picks while an instruction's operands take turns
Turning(s) ==
    /\ DOMAIN s = {"instr", "queues", "picks"}
    /\ s.queues \in Queues
    /\ ~shared => PickedApart(s.queues, s.picks)

LEMMA FreeKeeps ==
  ASSUME NEW s, Turning(s), NEW o, NEW op
  PROVE  Turning(FreeTurn(s, o, op))
<1> DEFINE own == ListOf(s.queues, op)
           places(queue, regs) == {k \in DOMAIN s.queues[queue] :
                                      s.queues[queue][k] \in regs}
           first == places(own, op.regs \ reserved)
           queue == IF first = {} THEN "io" ELSE own
           possible == IF first = {} THEN places("io", op.regs) ELSE first
           r == IF possible = {} THEN First(op.regs)
                ELSE s.queues[queue][First(possible)]
           set == [s EXCEPT !.instr.val[o] = r]
           pick == [reg |-> r, class |-> Class(op), queue |-> queue]
<1>1. queue \in Classes /\ (queue = "io" \/ queue = Class(op))
  BY ListOfOf DEF Classes
<1>2. /\ DOMAIN set = {"instr", "queues", "picks"}
      /\ set.queues = s.queues /\ set.picks = s.picks
  BY DEF Turning
<1>3. CASE possible = {}
  <2>1. FreeTurn(s, o, op) = IF op.out THEN [set EXCEPT !.instr.allow = @ \cup {r}]
                             ELSE set
    BY <1>3 DEF FreeTurn
  <2> HIDE DEF set, possible, r
  <2> QED BY <1>2, <2>1 DEF Turning
<1>4. CASE possible # {}
  <2>1. FreeTurn(s, o, op) = [set EXCEPT !.queues = Given(@, queue, r),
                                         !.picks = @ \cup {pick}]
    BY <1>4 DEF FreeTurn
  <2>2. r \in ToSet(s.queues[queue])
    <3>1. /\ possible \subseteq DOMAIN s.queues[queue]
      OBVIOUS
    <3>2. s.queues[queue] \in Seq(Regs)
      BY <1>1 DEF Turning, Queues
    <3>3. DOMAIN s.queues[queue] \subseteq Nat
      BY <3>2
    <3>4. First(possible) \in possible
      BY <1>4, <3>1, <3>3, FirstIn
    <3>5. r = s.queues[queue][First(possible)]
      BY <1>4
    <3> HIDE DEF possible, r, queue
    <3> QED BY <3>1, <3>4, <3>5 DEF ToSet
  <2> DEFINE given == Given(s.queues, queue, r)
             picked == s.picks \cup {pick}
  <2>3. FreeTurn(s, o, op) = [set EXCEPT !.queues = given, !.picks = picked]
    BY <1>2, <2>1
  <2> HIDE DEF set, possible, r, queue
  <2>4. given \in Queues /\ Shrinks(s.queues, given)
    BY <1>1, <2>2, GivenShrinks DEF Turning
  <2>5. /\ DOMAIN FreeTurn(s, o, op) = {"instr", "queues", "picks"}
        /\ FreeTurn(s, o, op).queues = given /\ FreeTurn(s, o, op).picks = picked
    BY <1>2, <2>3
  <2>6. ASSUME ~shared PROVE PickedApart(given, picked)
    <3>1. PickedApart(s.queues, s.picks) /\ PickedApart(given, s.picks)
      BY <2>4, <2>6, ShrinksApart DEF Turning
    <3>2. \A c \in Classes : c # queue => r \notin Loose(s.queues[c]) /\ r \notin Loose(given[c])
      BY <1>1, <2>2, <2>4, <3>1 DEF PickedApart, Shrinks, Loose
    <3>3. \A k \in s.picks : k.reg = r /\ r \notin Fixed => k.queue = queue
      BY <1>1, <2>2, <3>1 DEF PickedApart, Loose
    <3>4. pick.queue = queue /\ pick.reg = r /\ pick.class = Class(op)
      OBVIOUS
    <3> HIDE DEF pick, given
    <3>5. ASSUME NEW j \in picked, NEW k \in picked, j.reg = k.reg, j.reg \notin Fixed
          PROVE  j.queue = k.queue
      BY <3>1, <3>3, <3>4, <3>5 DEF PickedApart
    <3>6. ASSUME NEW k \in picked
          PROVE  /\ k.queue \in Classes /\ (k.queue = "io" \/ k.queue = k.class)
                 /\ \A c \in Classes : c # k.queue => k.reg \notin Loose(given[c])
      BY <1>1, <3>1, <3>2, <3>4 DEF PickedApart
    <3> QED BY <3>1, <3>5, <3>6 DEF PickedApart
  <2> QED BY <2>4, <2>5, <2>6 DEF Turning
<1> QED BY <1>3, <1>4

-----------------------------------------------------------------------------
(* The passes.                                                             *)

Before == {"initialize", "declare", "streams", "finish", "collect"}
After == {"default", "run", "error"}

\* The pools are apart, the lists made of them are, and so is what is given
\* from the lists, unless a register was shared from the start.
HazardInv ==
    /\ phase \in Before \cup After \cup {"minimum", "balance", "rotate"}
    /\ phase \in Before => picks = {}
    /\ phase = "minimum" => /\ picks = {} /\ pools \in Pools
                            /\ ~shared => Apart(pools)
    /\ phase = "balance" => /\ picks = {} /\ step \in 1..3 /\ queues \in Queues
                            /\ ~shared => QueuesApart(queues)
    /\ phase = "rotate" => /\ queues \in Queues
                           /\ ~shared => PickedApart(queues, picks)
    /\ phase \in After => NoHazards

LEMMA PickedNoHazards ==
  ASSUME ~shared => PickedApart(queues, picks) PROVE NoHazards
<1> SUFFICES ASSUME ~shared, NEW p \in picks, NEW q \in picks,
                    p.reg = q.reg, p.reg \notin Fixed
             PROVE  /\ p.queue = "in" => q.class = "in"
                    /\ p.queue = "out" => q.class = "out"
  BY DEF NoHazards
<1> QED BY DEF PickedApart

LEMMA HazardInit == Init => HazardInv
BY DEF Init, InitBuilding, InitAllocation, HazardInv, Before, After

\* Other passes and the machine only go on to where the allocation begins, or
\* past it.
LEMMA HazardStutter ==
  ASSUME HazardInv, UNCHANGED <<pools, queues, shared, picks>>,
         \/ UNCHANGED <<phase, step>>
         \/ phase \in After /\ UNCHANGED phase
         \/ phase \in Before /\ phase' \in Before \cup After
         \/ phase = "default" /\ phase' \in After
  PROVE  HazardInv'
<1>1. CASE UNCHANGED <<phase, step>>
  BY <1>1 DEF HazardInv, NoHazards
<1>2. CASE phase \in After /\ UNCHANGED phase
  BY <1>2 DEF HazardInv, NoHazards, After
<1>3. CASE phase \in Before /\ phase' \in Before \cup After
  BY <1>3 DEF HazardInv, NoHazards, Before, After
<1>4. CASE phase = "default" /\ phase' \in After
  BY <1>4 DEF HazardInv, NoHazards, Before, After
<1> QED BY <1>1, <1>2, <1>3, <1>4

LEMMA StreamsPhases ==
  ASSUME StreamsNext
  PROVE  phase \in Before /\ phase' \in Before \cup After
<1>1. CASE DeclareStream
  BY <1>1 DEF DeclareStream, Fails, Before, After
<1>2. CASE DeclareDone
  BY <1>2 DEF DeclareDone, Proceed, Before, After
<1>3. CASE ModelOther
  BY <1>3 DEF ModelOther, Modelling, Modelled, Before, After
<1>4. CASE ModelAccess
  BY <1>4 DEF ModelAccess, Modelling, Modelled, Before, After
<1>5. CASE ModelDone
  BY <1>5 DEF ModelDone, Proceed, Before, After
<1>6. CASE FinishStream
  BY <1>6 DEF FinishStream, Fails, Before, After
<1>7. CASE FinishDone
  BY <1>7 DEF FinishDone, Proceed, Before, After
<1> QED BY <1>1, <1>2, <1>3, <1>4, <1>5, <1>6, <1>7 DEF StreamsNext

LEMMA DefaultPhases ==
  ASSUME DefaultNext
  PROVE  /\ UNCHANGED <<pools, queues, shared, picks>>
         /\ phase = "default" /\ phase' \in After
<1>1. CASE Shuffle
  BY <1>1 DEF Shuffle, building, After
<1>2. CASE Allocate
  BY <1>2 DEF Allocate, Fails, After
<1>3. CASE AllocateDone
  BY <1>3 DEF AllocateDone, Proceed, allocation, After
<1> QED BY <1>1, <1>2, <1>3 DEF DefaultNext

-----------------------------------------------------------------------------
(* Powers of two and the parts of an immediate                             *)

Imms == TwoTo(ImmBits)
HalfImms == TwoTo(ImmBits - 1)
Uppers == TwoTo(UpperBits)
HalfUppers == TwoTo(UpperBits - 1)
LastBits == Half - 2 * (ImmBits - 1)

LEMMA PowerLaw ==
  ASSUME NEW a \in Nat, NEW b \in Nat, a + b <= 2 * Half
  PROVE  TwoTo(a) \in Nat \ {0} /\ TwoTo(a + b) = TwoTo(a) * TwoTo(b)
<1>1. Half \in Nat
  BY RiscvAssumption DEF Half
<1>2. a \in 0..(2 * Half) /\ b \in 0..(2 * Half)
  BY <1>1
<1> QED BY <1>2, PowersAssumption

LEMMA Powers ==
  /\ HalfImms \in Nat \ {0, 1} /\ HalfUppers \in Nat \ {0} /\ TwoTo(LastBits) \in Nat \ {0}
  /\ Imms = 2 * HalfImms /\ Uppers = 2 * HalfUppers
  /\ TwoTo(Half) = Imms * Uppers /\ TwoTo(Half - 1) = Imms * HalfUppers
  /\ TwoTo(2 * Half) = TwoTo(Half) * TwoTo(Half)
  /\ TwoTo(Half + ImmBits) = TwoTo(Half) * Imms
  /\ TwoTo(ImmBits - 1 + LastBits) = HalfImms * TwoTo(LastBits)
  /\ TwoTo(Half) = HalfImms * (HalfImms * TwoTo(LastBits))
<1>1. /\ ImmBits \in Nat \ {0, 1} /\ UpperBits \in Nat \ {0} /\ UpperBits + 2 > ImmBits
      /\ Half = ImmBits + UpperBits /\ LastBits = Half - 2 * (ImmBits - 1)
  BY RiscvAssumption DEF Half, LastBits
<1>2. /\ LastBits \in Nat /\ Half \in Nat /\ ImmBits - 1 \in Nat /\ UpperBits - 1 \in Nat
      /\ ImmBits - 2 \in Nat /\ ImmBits - 1 + LastBits \in Nat
  BY <1>1
<1> HIDE DEF LastBits
<1>3. /\ HalfImms \in Nat \ {0} /\ TwoTo(1 + (ImmBits - 1)) = TwoTo(1) * HalfImms
      /\ 1 + (ImmBits - 1) = ImmBits
  BY <1>1, <1>2, PowerLaw DEF HalfImms
<1>4. /\ HalfUppers \in Nat \ {0} /\ TwoTo(1 + (UpperBits - 1)) = TwoTo(1) * HalfUppers
      /\ 1 + (UpperBits - 1) = UpperBits
  BY <1>1, <1>2, PowerLaw DEF HalfUppers
<1>5. /\ TwoTo(ImmBits + UpperBits) = Imms * Uppers
  BY <1>1, <1>2, PowerLaw DEF Imms, Uppers
<1>6. /\ TwoTo(ImmBits + (UpperBits - 1)) = Imms * HalfUppers
      /\ ImmBits + (UpperBits - 1) = Half - 1
  BY <1>1, <1>2, PowerLaw DEF Imms, HalfUppers
<1>7. TwoTo(Half + Half) = TwoTo(Half) * TwoTo(Half) /\ Half + Half = 2 * Half
  BY <1>1, <1>2, PowerLaw
<1>8. TwoTo(Half + ImmBits) = TwoTo(Half) * Imms
  BY <1>1, <1>2, PowerLaw DEF Imms
<1>9. /\ TwoTo(ImmBits - 1 + LastBits) = HalfImms * TwoTo(LastBits) /\ TwoTo(LastBits) \in Nat \ {0}
  BY <1>1, <1>2, PowerLaw DEF HalfImms
<1>10. /\ TwoTo((ImmBits - 1) + (ImmBits - 1 + LastBits)) = HalfImms * TwoTo(ImmBits - 1 + LastBits)
       /\ (ImmBits - 1) + (ImmBits - 1 + LastBits) = Half
  BY <1>1, <1>2, PowerLaw DEF HalfImms
<1>11. HalfImms # 1
  <2>1. /\ TwoTo(1 + (ImmBits - 2)) = TwoTo(1) * TwoTo(ImmBits - 2)
        /\ TwoTo(ImmBits - 2) \in Nat \ {0} /\ 1 + (ImmBits - 2) = ImmBits - 1
    BY <1>1, <1>2, PowerLaw
  <2>2. HalfImms = 2 * TwoTo(ImmBits - 2)
    BY <2>1, PowersAssumption DEF HalfImms
  <2> QED BY <2>1, <2>2
<1>12. Imms = 2 * HalfImms /\ Uppers = 2 * HalfUppers
  BY <1>3, <1>4, PowersAssumption DEF Imms, Uppers
<1> QED BY <1>1, <1>3, <1>4, <1>5, <1>6, <1>7, <1>8, <1>9, <1>10, <1>11, <1>12


\* The two operands of LUI and ADDI: together they are the value shifted, but
\* for multiples of half a word.
LEMMA UpperLowerIs ==
  ASSUME NEW value \in Int, NEW s, NEW v \in Int,
         ShiftRight(value, s) = v, ShiftRight(value, s + ImmBits) = v \div Imms
  PROVE  LET u == UpperLower(value, s)[1]
             l == UpperLower(value, s)[2]
         IN  /\ UpperLower(value, s) = <<u, l>>
             /\ u \in 0..(Uppers - 1) /\ l \in Int
             /\ -HalfImms <= l /\ l < HalfImms
             /\ \E k \in Int : Imms * u + l = v + (Imms * Uppers) * k
<1> DEFINE half == Imms * Uppers
           q == v \div Imms
           low == v % Imms
           p == q \div Uppers
           upper == q % Uppers
           n == upper + 1
           t == n \div Uppers
           m == n % Uppers
<1>1. /\ HalfImms \in Nat \ {0, 1} /\ Imms = 2 * HalfImms /\ HalfUppers \in Nat \ {0}
      /\ Uppers = 2 * HalfUppers /\ Imms \in Nat \ {0} /\ Uppers \in Nat \ {0}
  BY Powers
<1>2. q \in Int /\ low \in 0..(Imms - 1) /\ v = Imms * q + low
  BY <1>1, Division
<1>3. UpperLower(value, s) = IF low >= HalfImms THEN <<m, low - Imms>> ELSE <<upper, low>>
  BY DEF UpperLower, Low, HalfImms, Imms, Uppers
<1> HIDE DEF q, low
<1>4. p \in Int /\ upper \in 0..(Uppers - 1) /\ q = Uppers * p + upper
  BY <1>1, <1>2, Division
<1>5. n \in Int
  BY <1>4
<1> HIDE DEF p, upper
<1>6. t \in Int /\ m \in 0..(Uppers - 1) /\ n = Uppers * t + m
  <2> HIDE DEF n
  <2> QED BY <1>1, <1>5, Division
<1>7. n = upper + 1
  OBVIOUS
<1> HIDE DEF n, t, m
<1>8. CASE low >= HalfImms
  <2>1. Imms * m + (low - Imms) = v + half * (-(p + t))
    <3>1. m = q - Uppers * p + 1 - Uppers * t
      BY <1>1, <1>4, <1>6, <1>7
    <3>2. Imms * m = Imms * q + Imms - (Imms * Uppers) * (p + t)
      BY <1>1, <1>2, <1>4, <1>6, <3>1
    <3> QED BY <1>1, <1>2, <1>4, <1>6, <3>2
  <2>2. -(p + t) \in Int /\ low - Imms \in Int /\ -HalfImms <= low - Imms /\ low - Imms < HalfImms
    BY <1>1, <1>2, <1>4, <1>6, <1>8
  <2> HIDE DEF half
  <2>3. UpperLower(value, s) = <<m, low - Imms>>
    BY <1>3, <1>8
  <2>4. \E k \in Int : Imms * m + (low - Imms) = v + half * k
    BY <2>1, <2>2
  <2> QED BY <1>6, <2>2, <2>3, <2>4 DEF half
<1>9. CASE ~(low >= HalfImms)
  <2>1. Imms * upper + low = v + half * (-p)
    <3>1. upper = q - Uppers * p
      BY <1>1, <1>4
    <3>2. Imms * upper = Imms * q - (Imms * Uppers) * p
      BY <1>1, <1>2, <1>4, <3>1
    <3> QED BY <1>1, <1>2, <1>4, <3>2
  <2>2. -p \in Int /\ low \in Int /\ -HalfImms <= low /\ low < HalfImms
    BY <1>1, <1>2, <1>4, <1>9
  <2> HIDE DEF half
  <2>3. UpperLower(value, s) = <<upper, low>>
    BY <1>3, <1>9
  <2>4. \E k \in Int : Imms * upper + low = v + half * k
    BY <2>1, <2>2
  <2> QED BY <1>4, <2>2, <2>3, <2>4 DEF half
<1> QED BY <1>8, <1>9

-----------------------------------------------------------------------------
(* Lists of instructions                                                   *)

\* A list of instructions, each of its kind, made by a function
LEMMA CodeMade ==
  ASSUME NEW n \in Nat, NEW f, f = [k \in 1..n |-> f[k]],
         \A k \in 1..n : IsInstr(f[k])
  PROVE  IsCode(f) /\ Len(f) = n
<1>1. DOMAIN f = 1..n
  OBVIOUS
<1>2. \A k \in 1..n : f[k] \in ToSet(f)
  BY <1>1 DEF ToSet
<1>3. f \in [1..n -> ToSet(f)]
  BY <1>2
<1>4. f \in Seq(ToSet(f)) /\ Len(f) = n
  BY <1>3
<1> QED BY <1>1, <1>4 DEF IsCode, ToSet

LEMMA CodeOf ==
  ASSUME NEW s, IsCode(s)
  PROVE  /\ Len(s) \in Nat /\ DOMAIN s = 1..Len(s)
         /\ s = [k \in 1..Len(s) |-> s[k]]
         /\ \A k \in 1..Len(s) : IsInstr(s[k])
<1>1. s \in Seq(ToSet(s))
  BY DEF IsCode
<1>2. Len(s) \in Nat /\ DOMAIN s = 1..Len(s)
  BY <1>1
<1>3. s \in [1..Len(s) -> ToSet(s)]
  BY <1>1
<1>4. \A k \in 1..Len(s) : s[k] \in ToSet(s)
  BY <1>3
<1> QED BY <1>2, <1>3, <1>4 DEF IsCode

LEMMA CodeJoined ==
  ASSUME NEW s, NEW t, IsCode(s), IsCode(t)
  PROVE  IsCode(s \o t) /\ Len(s \o t) = Len(s) + Len(t)
         /\ \A k \in 1..Len(s) : (s \o t)[k] = s[k]
<1> DEFINE T == ToSet(s) \cup ToSet(t)
           n == Len(s) + Len(t)
<1>1. s \in Seq(T) /\ t \in Seq(T)
  <2>1. s \in Seq(ToSet(s)) /\ t \in Seq(ToSet(t))
    BY DEF IsCode
  <2> QED BY <2>1, SeqMonotonic
<1>2. /\ Len(s) \in Nat /\ Len(t) \in Nat
      /\ \A k \in 1..Len(s) : IsInstr(s[k])
      /\ \A k \in 1..Len(t) : IsInstr(t[k])
  BY CodeOf
<1> HIDE DEF T
<1>3. /\ s \o t \in Seq(T) /\ Len(s \o t) = n
      /\ \A k \in 1..n : (s \o t)[k] = IF k <= Len(s) THEN s[k] ELSE t[k - Len(s)]
  BY <1>1, ConcatProperties
<1>4. s \o t = [k \in 1..n |-> (s \o t)[k]]
  <2> DEFINE st == s \o t
  <2>1. st \in Seq(T) /\ Len(st) = n
    BY <1>3
  <2> HIDE DEF st, n
  <2>2. st = [k \in 1..n |-> st[k]]
    BY <2>1
  <2> QED BY <2>2 DEF st
<1>5. \A k \in 1..n : IsInstr((s \o t)[k])
  <2> SUFFICES ASSUME NEW k \in 1..n PROVE IsInstr((s \o t)[k])
    OBVIOUS
  <2>1. CASE k <= Len(s)
    <3>1. k \in 1..Len(s)
      BY <1>2, <2>1
    <3> QED BY <1>2, <1>3, <2>1, <3>1
  <2>2. CASE ~(k <= Len(s))
    <3>1. k - Len(s) \in 1..Len(t)
      BY <1>2, <2>2
    <3> QED BY <1>2, <1>3, <2>2, <3>1
  <2> QED BY <2>1, <2>2
<1>6. n \in Nat
  BY <1>2
<1> HIDE DEF n
<1>7. IsCode(s \o t)
  BY <1>4, <1>5, <1>6, CodeMade
<1>8. \A k \in 1..Len(s) : k \in 1..n /\ k <= Len(s)
  BY <1>2 DEF n
<1>9. \A k \in 1..Len(s) : (s \o t)[k] = s[k]
  BY <1>3, <1>8
<1> QED BY <1>3, <1>7, <1>9 DEF n

LEMMA OneInstr == ASSUME NEW i, IsInstr(i) PROVE IsCode(<<i>>) /\ Len(<<i>>) = 1
BY DEF IsCode, ToSet

LEMMA NoInstr == IsCode(<<>>) /\ Len(<<>>) = 0
BY DEF IsCode, ToSet

LEMMA AddiIs == ASSUME NEW n, NEW s, NEW d
                PROVE  IsInstr(Addi(n, s, d)) /\ Addi(n, s, d).kind = "addi"
BY DEF IsInstr, Addi, Instr, Operands

LEMMA SetByNameIs ==
  ASSUME NEW r, NEW a PROVE IsCode(SetByName(r, a)) /\ Len(SetByName(r, a)) = 2
<1> DEFINE s == SetByName(r, a)
<1>1. IsInstr(s[1]) /\ IsInstr(s[2])
  BY DEF SetByName, IsInstr, Instr, Operands
<1>2. s = [k \in 1..2 |-> s[k]]
  BY DEF SetByName
<1> HIDE DEF s
<1>3. \A k \in 1..2 : IsInstr(s[k])
  BY <1>1
<1> QED BY <1>2, <1>3, CodeMade DEF s

\* Additions to a register
AreAdds(s) == IsCode(s) /\ \A k \in 1..Len(s) : s[k].kind = "addi"

LEMMA AddsJoined ==
  ASSUME NEW s, NEW t, AreAdds(s), AreAdds(t)
  PROVE  AreAdds(s \o t)
<1>1. /\ IsCode(s) /\ IsCode(t) /\ IsCode(s \o t)
      /\ Len(s) \in Nat /\ Len(t) \in Nat /\ Len(s \o t) = Len(s) + Len(t)
  BY CodeOf, CodeJoined DEF AreAdds
<1> DEFINE T == ToSet(s) \cup ToSet(t)
           n == Len(s) + Len(t)
<1>2. s \in Seq(T) /\ t \in Seq(T)
  <2>1. s \in Seq(ToSet(s)) /\ t \in Seq(ToSet(t))
    BY <1>1 DEF IsCode
  <2> QED BY <2>1, SeqMonotonic
<1> HIDE DEF T
<1>3. \A k \in 1..n : (s \o t)[k] = IF k <= Len(s) THEN s[k] ELSE t[k - Len(s)]
  BY <1>2, ConcatProperties
<1>4. ASSUME NEW k \in 1..n PROVE (s \o t)[k].kind = "addi"
  <2>1. CASE k <= Len(s)
    <3>1. k \in 1..Len(s)
      BY <1>1, <2>1
    <3> QED BY <1>3, <2>1, <3>1 DEF AreAdds
  <2>2. CASE ~(k <= Len(s))
    <3>1. k - Len(s) \in 1..Len(t)
      BY <1>1, <2>2
    <3> QED BY <1>3, <2>2, <3>1 DEF AreAdds
  <2> QED BY <2>1, <2>2
<1> QED BY <1>1, <1>4 DEF AreAdds

LEMMA AbsIs == ASSUME NEW n \in Int PROVE Abs(n) \in Nat /\ (n # 0 => Abs(n) > 0)
BY DEF Abs

LEMMA AddToRegisterIs ==
  ASSUME NEW r, NEW n \in Int
  PROVE  AreAdds(AddToRegister(r, n))
<1> DEFINE most == TwoTo(ImmBits - 1) - 1
           steps == IF n = 0 THEN 0 ELSE (Abs(n) - 1) \div most
           sign == IF n < 0 THEN -1 ELSE 1
           first == [s \in 1..steps |-> Addi(sign * most, r, r)]
           rest == IF n = 0 THEN <<>> ELSE <<Addi(n - sign * steps * most, r, r)>>
<1>1. steps \in Nat
  <2>1. most \in Nat \ {0}
    <3> DEFINE p == TwoTo(ImmBits - 1)
    <3>1. p \in Nat \ {0, 1}
      BY Powers DEF HalfImms
    <3> HIDE DEF p
    <3>2. p - 1 \in Nat \ {0}
      BY <3>1
    <3> QED BY <3>2 DEF p
  <2> HIDE DEF most
  <2>2. CASE n = 0
    BY <2>2
  <2>3. CASE n # 0
    <3>1. Abs(n) - 1 \in Nat
      BY <2>3, AbsIs
    <3>2. (Abs(n) - 1) \div most \in Nat
      BY <2>1, <3>1, DivMod
    <3> QED BY <2>3, <3>2
  <2> QED BY <2>2, <2>3
<1>2. AddToRegister(r, n) = first \o rest
  BY DEF AddToRegister
<1> HIDE DEF most, steps, sign
<1>3. IsCode(first) /\ Len(first) = steps
  <2>1. first = [k \in 1..steps |-> first[k]]
    OBVIOUS
  <2>2. \A k \in 1..steps : IsInstr(first[k])
    BY AddiIs
  <2> HIDE DEF first
  <2> QED BY <1>1, <2>1, <2>2, CodeMade
<1>4. \A k \in 1..steps : first[k].kind = "addi"
  BY AddiIs
<1>5. IsCode(rest) /\ \A k \in 1..Len(rest) : rest[k].kind = "addi"
  <2>1. CASE n = 0
    BY <2>1, NoInstr
  <2>2. CASE n # 0
    <3> DEFINE i == Addi(n - sign * steps * most, r, r)
    <3>1. rest = <<i>> /\ IsInstr(i) /\ i.kind = "addi"
      BY <2>2, AddiIs
    <3> HIDE DEF i, rest
    <3> QED BY <3>1, OneInstr
  <2> QED BY <2>1, <2>2
<1> HIDE DEF first, rest
<1> QED BY <1>2, <1>3, <1>4, <1>5, AddsJoined DEF AreAdds

IsKnown(k) == DOMAIN k \in SUBSET Regs /\ \A r \in DOMAIN k : k[r].n \in Int

\* A register with a value of the same kind is closest to a value, or none is.
LEMMA ClosestIn ==
  ASSUME NEW k, IsKnown(k), NEW v, v.n \in Int, NEW r \in Closest(k, v)
  PROVE  r \in DOMAIN k /\ k[r].var = v.var
<1> DEFINE like == {q \in DOMAIN k : k[q].var = v.var}
           D(q) == Abs(k[q].n - v.n)
           best == {q \in like : \A p \in like : D(q) <= D(p)}
<1>1. r = First(best) /\ like # {}
  BY DEF Closest
<1>2. \A q \in like : D(q) \in Nat
  <2> SUFFICES ASSUME NEW q \in like PROVE D(q) \in Nat
    OBVIOUS
  <2>1. k[q].n \in Int
    BY DEF IsKnown
  <2>2. k[q].n - v.n \in Int
    BY <2>1
  <2> QED BY <2>2, AbsIs
<1>3. PICK m \in {D(q) : q \in like} : \A d \in {D(q) : q \in like} : m <= d
  <2> DEFINE S == {D(q) : q \in like}
  <2>1. S \in SUBSET Nat /\ S # {}
    BY <1>1, <1>2
  <2> HIDE DEF S
  <2>2. \E m \in S : \A d \in S : m <= d
    BY <2>1, LeastOf
  <2> QED BY <2>2 DEF S
<1>4. best # {}
  BY <1>3
<1>5. best \in SUBSET Nat
  BY RiscvAssumption DEF IsKnown
<1>6. \A q \in best : q \in DOMAIN k /\ k[q].var = v.var
  OBVIOUS
<1> HIDE DEF best
<1> QED BY <1>1, <1>4, <1>5, <1>6, FirstIn

LEMMA SetRegisterToAddressIs ==
  ASSUME NEW r, NEW a, a.n \in Int, NEW k, IsKnown(k)
  PROVE  IsCode(SetRegisterToAddress(r, a, k))
<1> DEFINE closest == Closest(k, a)
           from == First(closest)
           disp == a.n - k[from].n
           copy == IF from = r THEN <<>> ELSE <<Instr("or", <<from, from, r>>)>>
           near == IF disp # 0 /\ Near(disp) THEN <<Addi(disp, from, r)>>
                   ELSE copy \o AddToRegister(r, disp)
<1>1. SetRegisterToAddress(r, a, k) = IF closest # {} /\ Len(near) < 2
                                      THEN near ELSE SetByName(r, a)
  BY DEF SetRegisterToAddress
<1>2. ASSUME closest # {} PROVE IsCode(near)
  <2>1. from \in closest
    BY <1>2 DEF Closest, First
  <2>2. disp \in Int
    BY <2>1, ClosestIn DEF IsKnown
  <2>3. IsCode(copy)
    <3>1. IsInstr(Instr("or", <<from, from, r>>))
      BY DEF IsInstr, Instr, Operands
    <3> HIDE DEF from
    <3> QED BY <3>1, OneInstr, NoInstr
  <2>4. IsCode(AddToRegister(r, disp))
    BY <2>2, AddToRegisterIs DEF AreAdds
  <2>5. IsCode(copy \o AddToRegister(r, disp))
    BY <2>3, <2>4, CodeJoined
  <2>6. IsCode(<<Addi(disp, from, r)>>)
    BY AddiIs, OneInstr
  <2> QED BY <2>5, <2>6
<1> QED BY <1>1, <1>2, SetByNameIs

-----------------------------------------------------------------------------
(* The building block: the loop has each of its instructions once.         *)

\* A block of the first n instructions, in which each is in one place at most
IsBlock(b, n) ==
    /\ DOMAIN b = {"slot", "pointer", "index"}
    /\ DOMAIN b.slot \in SUBSET Nat /\ IsFiniteSet(DOMAIN b.slot)
    /\ \A p \in DOMAIN b.slot : b.slot[p] \in 1..n
    /\ \A p, q \in DOMAIN b.slot : b.slot[p] = b.slot[q] => p = q
    /\ b.pointer \in Nat /\ \A i \in DOMAIN b.index : b.index[i] \in Nat

\* The instructions a move adds
Fresh(n, m) == [j \in 1..m |-> n + j]

LEMMA FreshIs ==
  ASSUME NEW n \in Nat, NEW m \in Nat
  PROVE  /\ Len(Fresh(n, m)) = m
         /\ \A j \in 1..m : Fresh(n, m)[j] = n + j
         /\ \A i \in B!Elems(Fresh(n, m)) : \E j \in 1..m : Fresh(n, m)[j] = i
<1>1. Fresh(n, m) \in Seq(Nat) /\ Len(Fresh(n, m)) = m
  BY DEF Fresh
<1> QED BY <1>1 DEF Fresh, B!Elems

\* A part of the list with the new instructions, and the old ones elsewhere
LEMMA WindowOf ==
  ASSUME NEW n \in Nat, NEW m \in Nat, NEW at0 \in Nat, NEW slot, NEW old,
         DOMAIN old \in SUBSET Nat, IsFiniteSet(DOMAIN old),
         \A p \in DOMAIN old : old[p] \in 1..n,
         \A p, q \in DOMAIN old : old[p] = old[q] => p = q,
         DOMAIN slot = DOMAIN old \cup at0..(at0 + m - 1),
         \A p \in at0..(at0 + m - 1) : slot[p] = Fresh(n, m)[p - at0 + 1],
         \A p \in DOMAIN old : p \notin at0..(at0 + m - 1) => slot[p] = old[p]
  PROVE  /\ DOMAIN slot \in SUBSET Nat /\ IsFiniteSet(DOMAIN slot)
         /\ \A p \in DOMAIN slot : slot[p] \in 1..(n + m)
         /\ \A p, q \in DOMAIN slot : slot[p] = slot[q] => p = q
<1> DEFINE spots == at0..(at0 + m - 1)
<1>1. DOMAIN slot = DOMAIN old \cup spots
  OBVIOUS
<1>2. IsFiniteSet(spots) /\ spots \in SUBSET Nat
  <2>1. IsFiniteSet(at0..(at0 + m - 1))
    BY FS_Interval
  <2> QED BY <2>1
<1>3. DOMAIN slot \in SUBSET Nat /\ IsFiniteSet(DOMAIN slot)
  <2> DEFINE O == DOMAIN old
  <2> HIDE DEF spots, O
  <2>1. O \in SUBSET Nat /\ IsFiniteSet(O) /\ DOMAIN slot = O \cup spots
    BY <1>1 DEF O
  <2>2. IsFiniteSet(O \cup spots)
    BY <1>2, <2>1, FS_Union
  <2> QED BY <1>2, <2>1, <2>2
<1>4. \A p \in spots : slot[p] = n + (p - at0 + 1) /\ slot[p] \in (n + 1)..(n + m)
  <2> SUFFICES ASSUME NEW p \in spots
               PROVE  slot[p] = n + (p - at0 + 1) /\ slot[p] \in (n + 1)..(n + m)
    OBVIOUS
  <2> DEFINE k == p - at0 + 1
  <2>1. k \in 1..m
    OBVIOUS
  <2>2. slot[p] = Fresh(n, m)[k]
    OBVIOUS
  <2> HIDE DEF k, spots
  <2>3. slot[p] = n + k /\ n + k \in (n + 1)..(n + m)
    BY <2>1, <2>2, FreshIs
  <2> QED BY <2>3 DEF k
<1>5. \A p \in DOMAIN slot : p \notin spots => p \in DOMAIN old /\ slot[p] = old[p]
  OBVIOUS
<1> HIDE DEF spots
<1>6. \A p \in DOMAIN slot : slot[p] \in 1..(n + m)
  <2> SUFFICES ASSUME NEW p \in DOMAIN slot PROVE slot[p] \in 1..(n + m)
    OBVIOUS
  <2>1. slot[p] \in (n + 1)..(n + m) \/ slot[p] \in 1..n
    BY <1>4, <1>5
  <2> QED BY <2>1
<1>7. ASSUME NEW p \in DOMAIN slot, NEW q \in DOMAIN slot, slot[p] = slot[q]
      PROVE  p = q
  <2>1. CASE p \in spots /\ q \in spots
    <3>1. n + (p - at0 + 1) = n + (q - at0 + 1) /\ p \in Nat /\ q \in Nat
      BY <1>2, <1>4, <1>7, <2>1
    <3> QED BY <3>1
  <2>2. CASE p \notin spots /\ q \notin spots
    BY <1>5, <1>7, <2>2
  <2>3. ASSUME NEW x \in spots, NEW y \in DOMAIN slot, y \notin spots
        PROVE  slot[x] # slot[y]
    <3>1. slot[x] \in (n + 1)..(n + m) /\ slot[y] \in 1..n
      BY <1>4, <1>5, <2>3
    <3> QED BY <3>1
  <2> QED BY <1>7, <2>1, <2>2, <2>3
<1> QED BY <1>3, <1>6, <1>7

LEMMA PlaceBlock ==
  ASSUME NEW n \in Nat, NEW m \in Nat, NEW b, IsBlock(b, n), NEW from \in Nat
  PROVE  IsBlock(B!Place(b, Fresh(n, m), from), n + m)
<1> DEFINE new == Fresh(n, m)
           spots == from..(from + m - 1)
           c == B!Place(b, new, from)
           slot == [p \in DOMAIN b.slot \cup spots |->
                      IF p \in spots THEN new[p - from + 1] ELSE b.slot[p]]
           index == [i \in DOMAIN b.index \cup B!Elems(new) |->
                      IF i \in DOMAIN b.index THEN b.index[i]
                      ELSE from - 1 + CHOOSE j \in 1..m : new[j] = i]
<1>1. c = [b EXCEPT !.slot = slot, !.index = index]
  <2>1. Len(new) = m
    BY FreshIs
  <2> HIDE DEF new
  <2> QED BY <2>1 DEF B!Place
<1>2. /\ DOMAIN slot \in SUBSET Nat /\ IsFiniteSet(DOMAIN slot)
      /\ \A p \in DOMAIN slot : slot[p] \in 1..(n + m)
      /\ \A p, q \in DOMAIN slot : slot[p] = slot[q] => p = q
  <2> DEFINE old == b.slot
  <2>1. /\ DOMAIN old \in SUBSET Nat /\ IsFiniteSet(DOMAIN old)
        /\ \A p \in DOMAIN old : old[p] \in 1..n
        /\ \A p, q \in DOMAIN old : old[p] = old[q] => p = q
    BY DEF IsBlock
  <2>2. /\ DOMAIN slot = DOMAIN old \cup from..(from + m - 1)
        /\ \A p \in from..(from + m - 1) : slot[p] = Fresh(n, m)[p - from + 1]
        /\ \A p \in DOMAIN old : p \notin from..(from + m - 1) => slot[p] = old[p]
    OBVIOUS
  <2> HIDE DEF slot, old
  <2> QED BY <2>1, <2>2, WindowOf
<1>3. \A i \in DOMAIN index : index[i] \in Nat
  <2> SUFFICES ASSUME NEW i \in DOMAIN index PROVE index[i] \in Nat
    OBVIOUS
  <2>1. CASE i \in DOMAIN b.index
    BY <2>1 DEF IsBlock
  <2>2. CASE i \notin DOMAIN b.index
    <3> DEFINE k == CHOOSE j \in 1..m : new[j] = i
    <3>1. \E j \in 1..m : new[j] = i
      BY <2>2, FreshIs
    <3>2. k \in 1..m
      BY <3>1
    <3>3. index[i] = from - 1 + k
      BY <2>2
    <3> HIDE DEF k, index
    <3> QED BY <3>2, <3>3
  <2> QED BY <2>1, <2>2
<1> HIDE DEF slot, index
<1>4. /\ DOMAIN c = {"slot", "pointer", "index"}
      /\ c.slot = slot /\ c.index = index /\ c.pointer = b.pointer
  BY <1>1 DEF IsBlock
<1>5. b.pointer \in Nat
  BY DEF IsBlock
<1> HIDE DEF c
<1>6. IsBlock(c, n + m)
  BY <1>2, <1>3, <1>4, <1>5 DEF IsBlock
<1> QED BY <1>6 DEF c

\* Where the list has no room it grows, and the dictionary is rebuilt.
LEMMA SpliceBlock ==
  ASSUME NEW n \in Nat, NEW m \in Nat, NEW b, IsBlock(b, n), NEW from \in Nat
  PROVE  IsBlock(B!Splice(b, Fresh(n, m), from), n + m)
<1> DEFINE hole == IF from < m THEN m - from ELSE 0
           rest == {p \in DOMAIN b.slot : p < from \/ p >= from + hole}
           moved(p) == IF p < from THEN p ELSE p + m - hole
           came(q) == IF q < from THEN q ELSE q - m + hole
           old == [q \in {moved(p) : p \in rest} |-> b.slot[came(q)]]
           slot == B!Shifted(b.slot, Fresh(n, m), from)
<1>1. /\ DOMAIN b.slot \in SUBSET Nat /\ IsFiniteSet(DOMAIN b.slot)
      /\ \A p \in DOMAIN b.slot : b.slot[p] \in 1..n
      /\ \A p, q \in DOMAIN b.slot : b.slot[p] = b.slot[q] => p = q
      /\ b.pointer \in Nat
  BY DEF IsBlock
<1>2. hole \in Nat /\ m - hole \in Nat
  OBVIOUS
<1>3. \A p \in rest : /\ p \in DOMAIN b.slot /\ p \in Nat
                      /\ moved(p) \in Nat /\ came(moved(p)) = p
  <2> SUFFICES ASSUME NEW p \in rest
               PROVE  p \in Nat /\ moved(p) \in Nat /\ came(moved(p)) = p
    OBVIOUS
  <2>1. p \in Nat /\ (p < from \/ p >= from + hole)
    BY <1>1
  <2> HIDE DEF hole, rest
  <2> QED BY <1>2, <2>1
<1>4. /\ DOMAIN old \in SUBSET Nat /\ IsFiniteSet(DOMAIN old)
      /\ \A p \in DOMAIN old : old[p] \in 1..n
      /\ \A p, q \in DOMAIN old : old[p] = old[q] => p = q
  <2>1. IsFiniteSet(rest)
    <3> DEFINE D == DOMAIN b.slot
    <3>1. rest \in SUBSET D /\ IsFiniteSet(D)
      BY <1>1
    <3> HIDE DEF D, rest
    <3> QED BY <3>1, FS_Subset
  <2> HIDE DEF rest, moved, came
  <2>2. IsFiniteSet({moved(p) : p \in rest})
    <3> DEFINE f == [p \in rest |-> moved(p)]
               T == {moved(p) : p \in rest}
    <3>1. f \in Surjection(rest, T)
      BY DEF Surjection
    <3> HIDE DEF f, T
    <3>2. IsFiniteSet(T)
      BY <2>1, <3>1, FS_Surjection
    <3> QED BY <3>2 DEF T
  <2>3. DOMAIN old = {moved(p) : p \in rest}
    OBVIOUS
  <2>4. \A p \in rest : old[moved(p)] = b.slot[p]
    BY <1>3
  <2> HIDE DEF old
  <2>5. \A q \in DOMAIN old : \E p \in rest : q = moved(p) /\ old[q] = b.slot[p]
    BY <2>3, <2>4
  <2>6. DOMAIN old \in SUBSET Nat
    BY <1>3, <2>3
  <2>7. \A q \in DOMAIN old : old[q] \in 1..n
    BY <1>1, <1>3, <2>5
  <2>8. \A p, q \in DOMAIN old : old[p] = old[q] => p = q
    BY <1>1, <1>3, <2>5
  <2> QED BY <2>2, <2>3, <2>6, <2>7, <2>8
<1>5. /\ DOMAIN slot = DOMAIN old \cup from..(from + m - 1)
      /\ \A p \in from..(from + m - 1) : slot[p] = Fresh(n, m)[p - from + 1]
      /\ \A p \in DOMAIN old : p \notin from..(from + m - 1) => slot[p] = old[p]
  <2> DEFINE new == Fresh(n, m)
  <2>1. Len(new) = m
    BY FreshIs
  <2> HIDE DEF new
  <2>2. slot = [q \in {moved(p) : p \in rest} \cup from..(from + m - 1) |->
                  IF q \in from..(from + m - 1) THEN new[q - from + 1]
                  ELSE b.slot[came(q)]]
    BY <2>1 DEF B!Shifted, new
  <2> HIDE DEF rest, moved, came, slot
  <2> QED BY <2>2 DEF new
<1> HIDE DEF slot, old
<1>6. /\ DOMAIN slot \in SUBSET Nat /\ IsFiniteSet(DOMAIN slot)
      /\ \A p \in DOMAIN slot : slot[p] \in 1..(n + m)
      /\ \A p, q \in DOMAIN slot : slot[p] = slot[q] => p = q
  BY <1>4, <1>5, WindowOf
<1> DEFINE index == B!IndexOfSlots(slot)
<1>7. \A i \in DOMAIN index : index[i] \in Nat
  <2>1. \A i \in DOMAIN index : /\ \E p \in DOMAIN slot : slot[p] = i
                                /\ index[i] = CHOOSE p \in DOMAIN slot : slot[p] = i
    BY DEF B!IndexOfSlots
  <2> HIDE DEF index
  <2>2. \A i \in DOMAIN index : index[i] \in DOMAIN slot
    BY <2>1
  <2> QED BY <1>6, <2>2
<1>8. B!Splice(b, Fresh(n, m), from) =
        [slot |-> slot, pointer |-> b.pointer + m, index |-> index]
  BY FreshIs DEF B!Splice, slot
<1> HIDE DEF index
<1>9. b.pointer + m \in Nat
  BY <1>1
<1> QED BY <1>6, <1>7, <1>8, <1>9 DEF IsBlock

LEMMA AppendBlock ==
  ASSUME NEW n \in Nat, NEW m \in Nat, NEW b, IsBlock(b, n)
  PROVE  IsBlock(B!AppendInstrs(b, Fresh(n, m)), n + m)
<1> DEFINE c == B!Place(b, Fresh(n, m), b.pointer)
<1>1. b.pointer \in Nat
  BY DEF IsBlock
<1>2. IsBlock(c, n + m)
  BY <1>1, PlaceBlock
<1>3. B!AppendInstrs(b, Fresh(n, m)) = [c EXCEPT !.pointer = b.pointer + m]
  BY FreshIs DEF B!AppendInstrs
<1> HIDE DEF c
<1>4. b.pointer + m \in Nat
  BY <1>1
<1> QED BY <1>2, <1>3, <1>4 DEF IsBlock

LEMMA InsertBlock ==
  ASSUME NEW n \in Nat, NEW m \in Nat, NEW b, IsBlock(b, n), NEW before, NEW after
  PROVE  IsBlock(B!InsertInstr(b, Fresh(n, m), before, after), n + m)
<1> DEFINE place == B!IndexOf(b, after) + 1
<1>1. place \in Nat
  <2>1. CASE after \in DOMAIN b.index
    <3>1. B!IndexOf(b, after) \in Nat
      BY <2>1 DEF B!IndexOf, IsBlock
    <3> QED BY <3>1
  <2>2. CASE after \notin DOMAIN b.index
    BY <2>2 DEF B!IndexOf, B!None
  <2> QED BY <2>1, <2>2
<1>2. B!InsertInstr(b, Fresh(n, m), before, after) \in
        {B!AppendInstrs(b, Fresh(n, m)), B!Place(b, Fresh(n, m), place),
         B!Splice(b, Fresh(n, m), place)}
  BY DEF B!InsertInstr
<1> HIDE DEF place
<1>3. /\ IsBlock(B!AppendInstrs(b, Fresh(n, m)), n + m)
      /\ IsBlock(B!Place(b, Fresh(n, m), place), n + m)
      /\ IsBlock(B!Splice(b, Fresh(n, m), place), n + m)
  BY <1>1, AppendBlock, PlaceBlock, SpliceBlock
<1> QED BY <1>2, <1>3

LEMMA NewBlockIs ==
  ASSUME NEW n \in Nat
  PROVE  IsBlock(B!NewBlock([j \in 1..n |-> j]), n)
<1> DEFINE new == [j \in 1..n |-> j]
           D == {10 * j : j \in 1..n}
           slot == [p \in D |-> new[CHOOSE j \in 1..n : p = 10 * j]]
           index == B!IndexOfSlots(slot)
<1>1. Len(new) = n /\ \A j \in 1..n : new[j] = j
  <2>1. new \in Seq(Nat) /\ Len(new) = n
    OBVIOUS
  <2> QED BY <2>1
<1>2. B!NewBlock(new) = [slot |-> slot, pointer |-> 10 * (n + 1), index |-> index]
  <2> HIDE DEF new
  <2> QED BY <1>1 DEF B!NewBlock
<1> HIDE DEF new
<1>3. \A p \in D : slot[p] \in 1..n /\ p = 10 * slot[p]
  BY <1>1
<1>4. D \in SUBSET Nat
  OBVIOUS
<1>5. IsFiniteSet(D)
  <2> DEFINE f == [j \in 1..n |-> 10 * j]
  <2>1. f \in Surjection(1..n, D)
    BY DEF Surjection
  <2>2. IsFiniteSet(1..n)
    BY FS_Interval
  <2> HIDE DEF f, D
  <2> QED BY <2>1, <2>2, FS_Surjection
<1>6. DOMAIN slot = D
  OBVIOUS
<1> HIDE DEF D, slot
<1>7. \A p, q \in D : slot[p] = slot[q] => p = q
  BY <1>3
<1>8. \A i \in DOMAIN index : index[i] \in Nat
  <2>1. \A i \in DOMAIN index : /\ \E p \in DOMAIN slot : slot[p] = i
                                /\ index[i] = CHOOSE p \in DOMAIN slot : slot[p] = i
    BY DEF B!IndexOfSlots
  <2> HIDE DEF index
  <2>2. \A i \in DOMAIN index : index[i] \in DOMAIN slot
    BY <2>1
  <2> QED BY <1>4, <1>6, <2>2
<1> HIDE DEF index
<1> DEFINE b == [slot |-> slot, pointer |-> 10 * (n + 1), index |-> index]
<1>9. /\ DOMAIN b = {"slot", "pointer", "index"}
      /\ b.slot = slot /\ b.index = index /\ b.pointer = 10 * (n + 1)
  OBVIOUS
<1>10. 10 * (n + 1) \in Nat
  OBVIOUS
<1>11. IsFiniteSet(DOMAIN slot) /\ DOMAIN slot \in SUBSET Nat
  BY <1>4, <1>5, <1>6
<1> HIDE DEF b
<1>12. IsBlock(b, n)
  BY <1>3, <1>6, <1>7, <1>8, <1>9, <1>10, <1>11 DEF IsBlock
<1>13. B!NewBlock(new) = b
  BY <1>2 DEF b
<1> QED BY <1>12, <1>13 DEF new

\* The instructions of a block are a list without repetitions.
LEMMA BlockListed ==
  ASSUME NEW n \in Nat, NEW b, IsBlock(b, n)
  PROVE  /\ B!Instrs(b) \in Seq(1..n)
         /\ \A j, k \in 1..Len(B!Instrs(b)) :
              B!Instrs(b)[j] = B!Instrs(b)[k] => j = k
<1> DEFINE S == B!Live(b)
           N == Cardinality(S)
           f == [k \in 1..N |-> At(S, k)]
           s == [k \in 1..N |-> b.slot[At(S, k)]]
<1>1. /\ DOMAIN b.slot \in SUBSET Nat /\ IsFiniteSet(DOMAIN b.slot)
      /\ \A p \in DOMAIN b.slot : b.slot[p] \in 1..n
      /\ \A p, q \in DOMAIN b.slot : b.slot[p] = b.slot[q] => p = q
  BY DEF IsBlock
<1>2. S \in SUBSET (DOMAIN b.slot)
  BY DEF B!Live
<1>3. B!Instrs(b) = s
  BY Zenon DEF B!Instrs, At, Below, B!Cardinality, Cardinality
<1> DEFINE D == DOMAIN b.slot
<1>4. IsFiniteSet(S) /\ S \in SUBSET Nat
  <2>1. IsFiniteSet(D) /\ S \in SUBSET D /\ D \in SUBSET Nat
    BY <1>1, <1>2
  <2> HIDE DEF D, S
  <2> QED BY <2>1, FS_Subset
<1> HIDE DEF S
<1>5. N \in Nat /\ Ascends(f, N, S)
  BY <1>4, AtAscends
<1> HIDE DEF N
<1>6. \A k \in 1..N : f[k] = At(S, k) /\ s[k] = b.slot[At(S, k)]
  OBVIOUS
<1>7. DOMAIN s = 1..N /\ s = [k \in 1..N |-> s[k]]
  OBVIOUS
<1> HIDE DEF f, s
<1>8. /\ \A k \in 1..N : f[k] \in S
      /\ \A j, k \in 1..N : j < k => f[j] < f[k]
  BY <1>5 DEF Ascends
<1>9. \A k \in 1..N : s[k] \in 1..n
  BY <1>1, <1>2, <1>6, <1>8
<1>10. ASSUME NEW j \in 1..N, NEW k \in 1..N, s[j] = s[k] PROVE j = k
  <2>1. f[j] = f[k] /\ f[j] \in Nat /\ f[k] \in Nat
    BY <1>1, <1>2, <1>4, <1>6, <1>8, <1>10
  <2>2. ~(j < k) /\ ~(k < j)
    BY <1>8, <2>1
  <2> QED BY <1>5, <2>2
<1>11. s \in [1..N -> 1..n]
  BY <1>7, <1>9
<1>12. s \in Seq(1..n) /\ Len(s) = N
  BY <1>5, <1>11
<1> QED BY <1>3, <1>10, <1>12

\* An order of registers has each once.
LEMMA RankedOrder ==
  ASSUME NEW S \in SUBSET Regs, NEW rank \in [Regs -> Nat],
         \A q, r \in Regs : rank[q] = rank[r] => q = r
  PROVE  LET order == SortedBy(S, LAMBDA r : rank[r])
         IN  /\ Cardinality(S) \in Nat
             /\ order = [k \in 1..Cardinality(S) |-> order[k]]
             /\ \A k \in 1..Cardinality(S) : order[k] \in S
             /\ \A j, k \in 1..Cardinality(S) : order[j] = order[k] => j = k
<1> DEFINE T == {rank[r] : r \in S}
           N == Cardinality(S)
           under(r) == {q \in S : rank[q] < rank[r]}
           order == SortedBy(S, LAMBDA r : rank[r])
<1>1. IsFiniteSet(S) /\ S \in SUBSET Regs
  BY RiscvAssumption, FS_Subset
<1>2. T \in SUBSET Nat
  OBVIOUS
<1>3. ASSUME NEW U \in SUBSET S
      PROVE  /\ IsFiniteSet(U) /\ IsFiniteSet({rank[q] : q \in U})
             /\ Cardinality(U) = Cardinality({rank[q] : q \in U})
  <2> DEFINE V == {rank[q] : q \in U}
             f == [q \in U |-> rank[q]]
  <2>1. f \in Surjection(U, V) /\ f \in Injection(U, V)
    <3>1. f \in [U -> V] /\ \A t \in V : \E q \in U : f[q] = t
      OBVIOUS
    <3>2. \A p, q \in U : f[p] = f[q] => p = q
      OBVIOUS
    <3> HIDE DEF f, V
    <3> QED BY <3>1, <3>2 DEF Injection, Surjection, IsInjective
  <2>2. IsFiniteSet(U)
    BY <1>1, FS_Subset
  <2> HIDE DEF f, V
  <2>3. Cardinality(U) = Cardinality(V) /\ IsFiniteSet(V)
    BY <2>1, <2>2, FS_Surjection
  <2> QED BY <2>2, <2>3 DEF V
<1>4. IsFiniteSet(T) /\ Cardinality(T) = N
  BY <1>3
<1>5. \A r \in S : Cardinality(under(r)) = Cardinality(Below(T, rank[r]))
  <2> SUFFICES ASSUME NEW r \in S
               PROVE  Cardinality(under(r)) = Cardinality(Below(T, rank[r]))
    OBVIOUS
  <2>1. {rank[q] : q \in under(r)} = Below(T, rank[r])
    BY DEF Below
  <2>2. under(r) \in SUBSET S
    OBVIOUS
  <2>3. Cardinality(under(r)) = Cardinality({rank[q] : q \in under(r)})
    BY <1>3, <2>2
  <2> QED BY <2>1, <2>3
<1>6. /\ N \in Nat
      /\ \A k \in 1..N : \E p \in T : Cardinality(Below(T, p)) = k - 1
  <2> HIDE DEF T, N
  <2>1. /\ Cardinality(T) \in Nat
        /\ \A k \in 1..Cardinality(T) : \E p \in T : Cardinality(Below(T, p)) = k - 1
    BY <1>2, <1>4, RanksCount
  <2> QED BY <1>4, <2>1
<1>7. \A k \in 1..N : \E r \in S : Cardinality(under(r)) = k - 1
  BY <1>5, <1>6
<1>8. order = [k \in 1..N |-> CHOOSE r \in S : Cardinality(under(r)) = k - 1]
  BY DEF SortedBy
<1> HIDE DEF under, order, N, T
<1>9. \A k \in 1..N : order[k] \in S /\ Cardinality(under(order[k])) = k - 1
  <2> SUFFICES ASSUME NEW k \in 1..N
               PROVE  order[k] \in S /\ Cardinality(under(order[k])) = k - 1
    OBVIOUS
  <2>1. order[k] = CHOOSE r \in S : Cardinality(under(r)) = k - 1
    BY <1>8
  <2> QED BY <1>7, <2>1
<1>10. order = [k \in 1..N |-> order[k]]
  BY <1>8
<1>11. ASSUME NEW j \in 1..N, NEW k \in 1..N, order[j] = order[k] PROVE j = k
  <2>1. j - 1 = k - 1
    BY <1>9, <1>11
  <2> QED BY <1>6, <2>1
<1> QED BY <1>6, <1>9, <1>10, <1>11 DEF order, N

-----------------------------------------------------------------------------
(* What the streams' pass adds to the loop is code of the right kinds.     *)

LEMMA SortedNumbers ==
  ASSUME NEW S \in SUBSET Nat, IsFiniteSet(S)
  PROVE  /\ Sorted(S) \in Seq(S) /\ Len(Sorted(S)) = Cardinality(S)
         /\ Cardinality(S) \in Nat
<1> DEFINE n == Cardinality(S)
           f == [k \in 1..n |-> At(S, k)]
<1>1. n \in Nat /\ Ascends(f, n, S)
  BY AtAscends
<1>2. Sorted(S) = f
  BY DEF Sorted, SortedBy, At, Below
<1>3. f \in [1..n -> S]
  BY <1>1 DEF Ascends
<1> HIDE DEF f, n
<1>4. f \in Seq(S) /\ Len(f) = n
  BY <1>1, <1>3
<1> QED BY <1>1, <1>2, <1>4 DEF n

Registers(regs, n) == regs.base \in [1..n -> Regs] /\ regs.idx \in [1..n -> Regs]

LEMMA StreamRegsIs ==
  ASSUME NEW n \in Nat, NEW taken, Cardinality(AddressRegsLeft(taken)) >= 2 * n
  PROVE  Registers(StreamRegs(n, taken), n)
<1> DEFINE S == AddressRegsLeft(taken)
           left == Sorted(S)
<1>1. S \in SUBSET Regs /\ IsFiniteSet(Regs) /\ Regs \in SUBSET Nat
  BY RiscvAssumption DEF AddressRegsLeft
<1> HIDE DEF S
<1>2. IsFiniteSet(S) /\ S \in SUBSET Nat
  BY <1>1, FS_Subset
<1>3. left \in Seq(S) /\ Len(left) >= 2 * n /\ Len(left) \in Nat
  BY <1>2, SortedNumbers DEF S
<1> HIDE DEF left
<1>4. \A s \in 1..n : left[2 * s - 1] \in Regs /\ left[2 * s] \in Regs
  <2> SUFFICES ASSUME NEW s \in 1..n PROVE left[2 * s - 1] \in Regs /\ left[2 * s] \in Regs
    OBVIOUS
  <2>1. 2 * s - 1 \in 1..Len(left) /\ 2 * s \in 1..Len(left)
    BY <1>3
  <2>2. left[2 * s - 1] \in S /\ left[2 * s] \in S
    BY <1>3, <2>1
  <2> QED BY <1>1, <2>2
<1>5. StreamRegs(n, taken) = [base |-> [s \in 1..n |-> left[2 * s - 1]],
                              idx |-> [s \in 1..n |-> left[2 * s]]]
  BY DEF StreamRegs, left, S
<1> QED BY <1>4, <1>5 DEF Registers

LEMMA KnowingIs ==
  ASSUME NEW k, IsKnown(k), NEW r \in Regs, NEW v, v.n \in Int
  PROVE  IsKnown(Knowing(k, r, v))
BY DEF IsKnown, Knowing

LEMMA KnowingStreamsIs ==
  ASSUME IsKnown(known), NEW n \in Nat, NEW regs, Registers(regs, n)
  PROVE  IsKnown(KnowingStreams(regs, n))
<1> DEFINE bases == {regs.base[j] : j \in 1..n}
           indices == {regs.idx[j] : j \in 1..n}
<1>1. bases \subseteq Regs /\ indices \subseteq Regs
  BY DEF Registers
<1>2. KnowingStreams(regs, n) =
        [r \in DOMAIN known \cup bases \cup indices |->
            IF r \in bases THEN [var |-> step, n |-> 0]
            ELSE IF r \in indices THEN Number(0) ELSE known[r]]
  BY DEF KnowingStreams
<1> HIDE DEF bases, indices
<1>3. Number(0).n \in Int
  BY DEF Number
<1> QED BY <1>1, <1>2, <1>3 DEF IsKnown

\* The displacements of a variable
Displacements(s) == s \in Seq(Nat) /\ Len(s) > 0

LEMMA ModelIs ==
  ASSUME case \in Cases
  PROVE  /\ Len(Model) \in Nat /\ Sids = 1..Len(Model) /\ case.shift \in Nat
         /\ case.dd \in Nat /\ IsCode(case.body)
         /\ Len(case.given) \in Nat
         /\ \A k \in 1..Len(case.given) : /\ case.given[k].reg \in Regs
                                          /\ case.given[k].value \in Int
         /\ \A sid \in Sids : /\ Model[sid].size \in Nat \ {0}
                              /\ Model[sid].stride \in Nat
                              /\ Model[sid].streams \in Nat \ {0}
<1> DEFINE T == [size : Nat \ {0}, ratio : Nat, stride : Nat,
                 streams : Nat \ {0}, shuffle : Nat \cup {-1}]
           G == [reg : Regs, value : Int]
<1>1. /\ case.model \in Seq(T) /\ case.given \in Seq(G)
      /\ IsCode(case.body) /\ case.dd \in Nat /\ case.shift \in Nat
  BY CasesAssumption
<1>2. \A m \in T : m.size \in Nat \ {0} /\ m.stride \in Nat /\ m.streams \in Nat \ {0}
  OBVIOUS
<1>3. \A e \in G : e.reg \in Regs /\ e.value \in Int
  OBVIOUS
<1> HIDE DEF T, G
<1>4. /\ Len(case.model) \in Nat /\ DOMAIN case.model = 1..Len(case.model)
      /\ \A k \in 1..Len(case.model) : case.model[k] \in T
  BY <1>1
<1>5. Len(case.given) \in Nat /\ \A k \in 1..Len(case.given) : case.given[k] \in G
  BY <1>1
<1> QED BY <1>1, <1>2, <1>3, <1>4, <1>5 DEF Model, Sids

LEMMA ValuesIs ==
  ASSUME case \in Cases, NEW sid \in Sids
  PROVE  Displacements(Values(sid))
<1> DEFINE size == Model[sid].size
           stride == Model[sid].stride
           N == (size + stride - 1) \div stride
           f == [i \in 1..N |-> (i - 1) * stride + (sid - 1) * case.shift]
<1>1. size \in Nat \ {0} /\ stride \in Nat /\ case.shift \in Nat /\ sid \in Nat \ {0}
  BY ModelIs
<1>2. CASE stride = 0
  <2>1. Values(sid) = <<0>>
    BY <1>2 DEF Values
  <2> QED BY <2>1 DEF Displacements
<1>3. CASE stride # 0
  <2>1. Values(sid) = f
    BY <1>3 DEF Values
  <2> HIDE DEF size, stride
  <2>2. N \in Nat /\ N > 0
    <3>1. size + stride - 1 \in Nat /\ stride \in Nat \ {0} /\ size + stride - 1 >= stride
      BY <1>1, <1>3
    <3> DEFINE a == size + stride - 1
    <3> HIDE DEF a
    <3>2. /\ a \div stride \in Nat /\ a % stride \in 0..(stride - 1)
          /\ a = stride * (a \div stride) + (a % stride)
      BY <3>1, DivMod DEF a
    <3>3. a \div stride # 0
      <4> SUFFICES ASSUME a \div stride = 0 PROVE FALSE
        OBVIOUS
      <4>1. a = stride * 0 + (a % stride)
        BY <3>2
      <4>2. a < stride
        BY <1>1, <3>2, <4>1
      <4> QED BY <1>1, <3>1, <4>2 DEF a
    <3> QED BY <3>2, <3>3 DEF a
  <2> HIDE DEF N
  <2>3. \A i \in 1..N : (i - 1) * stride + (sid - 1) * case.shift \in Nat
    <3> SUFFICES ASSUME NEW i \in 1..N
                 PROVE  (i - 1) * stride + (sid - 1) * case.shift \in Nat
      OBVIOUS
    <3> DEFINE j == i - 1
               t == sid - 1
    <3>1. j \in Nat /\ t \in Nat
      BY <1>1, <2>2
    <3> HIDE DEF j, t
    <3>2. j * stride \in Nat /\ t * case.shift \in Nat
      BY <1>1, <3>1
    <3>3. j * stride + t * case.shift \in Nat
      BY <3>2
    <3> QED BY <3>3 DEF j, t
  <2>4. f \in [1..N -> Nat]
    BY <2>3
  <2> HIDE DEF f
  <2>5. f \in Seq(Nat) /\ Len(f) = N
    BY <2>2, <2>4
  <2> QED BY <2>1, <2>2, <2>5 DEF Displacements
<1> QED BY <1>2, <1>3

LEMMA OrdersIs ==
  ASSUME NEW values, Displacements(values), NEW sid, NEW s \in Orders(values, sid)
  PROVE  Displacements(s)
<1>1. CASE s = values
  BY <1>1
<1>2. CASE s # values
  <2>1. PICK p \in Bijection(DOMAIN values, DOMAIN values) :
           s = [i \in DOMAIN values |-> values[p[i]]]
    BY <1>2 DEF Orders
  <2>2. p \in [DOMAIN values -> DOMAIN values]
    BY DEF Bijection, Injection
  <2>3. DOMAIN values = 1..Len(values) /\ Len(values) \in Nat /\ values \in [1..Len(values) -> Nat]
    BY DEF Displacements
  <2>4. s \in [1..Len(values) -> Nat]
    BY <2>1, <2>2, <2>3
  <2>5. s \in Seq(Nat) /\ Len(s) = Len(values)
    BY <2>3, <2>4
  <2> QED BY <2>5 DEF Displacements
<1> QED BY <1>1, <1>2

LEMMA NewValuesIs ==
  ASSUME NEW d, Displacements(d.values), NEW sid, NEW s \in NewValues(sid, d)
  PROVE  Displacements(s)
<1> DEFINE v == d.values
           S == ToSet(v)
<1>1. v \in [1..Len(v) -> Nat] /\ Len(v) \in Nat /\ Len(v) > 0
  BY DEF Displacements
<1>2. S \in SUBSET Nat /\ v[1] \in S
  BY <1>1 DEF ToSet
<1>3. IsFiniteSet(S)
  <2> HIDE DEF v
  <2>1. v \in Surjection(1..Len(v), S)
    BY <1>1 DEF Surjection, ToSet
  <2>2. IsFiniteSet(1..Len(v))
    BY <1>1, FS_Interval
  <2> HIDE DEF S
  <2> QED BY <2>1, <2>2, FS_Surjection
<1> HIDE DEF S
<1>4. /\ Sorted(S) \in Seq(S) /\ Len(Sorted(S)) = Cardinality(S)
      /\ Cardinality(S) \in Nat
  BY <1>2, <1>3, SortedNumbers
<1>5. Cardinality(S) # 0
  BY <1>2, <1>3, FS_EmptySet
<1>6. Sorted(S) \in Seq(Nat)
  BY <1>2, <1>4, SeqMonotonic
<1>7. Displacements(Sorted(S))
  BY <1>4, <1>5, <1>6 DEF Displacements
<1>8. s = v \/ s \in Orders(Sorted(S), sid)
  BY DEF NewValues, S
<1> HIDE DEF v
<1> QED BY <1>7, <1>8, OrdersIs DEF v

LEMMA CodePart ==
  ASSUME NEW s, IsCode(s), NEW j \in Nat \ {0}, NEW k \in Nat, k <= Len(s), j <= k + 1
  PROVE  /\ IsCode(SubSeq(s, j, k)) /\ Len(SubSeq(s, j, k)) = k - j + 1
         /\ \A l \in 1..(k - j + 1) : SubSeq(s, j, k)[l] = s[j + l - 1]
<1> DEFINE n == k - j + 1
           t == SubSeq(s, j, k)
<1>1. /\ Len(s) \in Nat /\ s \in Seq(ToSet(s))
      /\ \A l \in 1..Len(s) : IsInstr(s[l])
  BY CodeOf DEF IsCode
<1>2. n \in Nat /\ \A l \in 1..n : j + l - 1 \in 1..Len(s)
  BY <1>1
<1>3. t = [l \in 1..n |-> s[j + l - 1]]
  <2>1. t = [l \in 1..(k - j + 1) |-> s[j + l - 1]]
    BY <1>1 DEF SubSeq
  <2> QED BY <2>1
<1> HIDE DEF t, n
<1>4. t = [l \in 1..n |-> t[l]] /\ \A l \in 1..n : t[l] = s[j + l - 1]
  BY <1>3
<1>5. \A l \in 1..n : IsInstr(t[l])
  BY <1>1, <1>2, <1>4
<1>6. IsCode(t) /\ Len(t) = n
  BY <1>2, <1>4, <1>5, CodeMade
<1> QED BY <1>4, <1>6 DEF t, n

Adds == {i \in DOMAIN code : code[i].kind = "addi"}

\* What a move consists of
IsMove(m) ==
    /\ IsCode(m.new) /\ m.reused \in Seq(Adds)
    /\ AreAdds(m.set) /\ Len(m.set) = Len(m.reused)

\* The descriptor of a variable with registers for n streams
IsStream(d, n, adds) ==
    /\ {"base", "baseVal", "calc", "last", "count", "maxValue", "values", "sind"}
          \subseteq DOMAIN d
    /\ d.base \in [1..n -> Regs] /\ d.baseVal \in [1..n -> Int]
    /\ DOMAIN d.calc = 1..n /\ \A s \in 1..n : d.calc[s] \in SUBSET adds
    /\ Displacements(d.values) /\ d.count \in Nat
    /\ n > 0 => d.sind \in 1..n

LEMMA MovesAre ==
  ASSUME IsCode(code), IsKnown(known), NEW n \in Nat \ {0}, NEW d, IsStream(d, n, Adds),
         NEW a, a.n \in Int, NEW sid, NEW m \in Moves(sid, d, a)
  PROVE  IsMove(m)
<1>1. CASE m = NoMove
  <2>1. /\ m.new = <<>> /\ m.reused = <<>> /\ m.set = <<>>
    BY <1>1 DEF NoMove
  <2>2. AreAdds(<<>>) /\ <<>> \in Seq(Adds)
    BY NoInstr DEF AreAdds
  <2> QED BY <2>1, <2>2, NoInstr DEF IsMove
<1>2. CASE m = Move(sid, d, a)
  <2> DEFINE base == d.base[d.sind]
             calc == d.calc[d.sind]
             free == Sorted(calc)
             adds == AddToRegister(base, a.n - d.baseVal[d.sind])
             k == IF Len(free) < Len(adds) THEN Len(free) ELSE Len(adds)
             rest == SubSeq(adds, k + 1, Len(adds))
             anew == SetRegisterToAddress(base, a, known)
             short == [reused |-> <<>>, set |-> <<>>, new |-> anew, after |-> d.last]
             long == [reused |-> SubSeq(free, 1, k), set |-> SubSeq(adds, 1, k),
                      new |-> rest, after |-> IF k = 0 THEN d.last ELSE free[k]]
  <2>1. m = IF Len(anew) <= Len(rest) THEN short ELSE long
    BY <1>2 DEF Move
  <2>2. calc \in SUBSET Adds /\ d.baseVal[d.sind] \in Int
    BY DEF IsStream
  <2>3. IsFiniteSet(calc) /\ calc \in SUBSET Nat
    <3>1. Len(code) \in Nat /\ DOMAIN code = 1..Len(code)
      BY CodeOf
    <3>2. calc \in SUBSET (1..Len(code))
      BY <2>2, <3>1 DEF Adds
    <3> HIDE DEF calc
    <3>3. IsFiniteSet(1..Len(code))
      BY <3>1, FS_Interval
    <3>4. IsFiniteSet(calc)
      BY <3>2, <3>3, FS_Subset
    <3>5. calc \in SUBSET Nat
      BY <3>1, <3>2
    <3> QED BY <3>4, <3>5 DEF calc
  <2> HIDE DEF calc
  <2>4. free \in Seq(Adds) /\ Len(free) \in Nat
    <3>1. free \in Seq(calc) /\ Len(free) \in Nat
      BY <2>3, SortedNumbers
    <3> HIDE DEF free
    <3> QED BY <2>2, <3>1, SeqMonotonic
  <2>5. AreAdds(adds) /\ IsCode(adds) /\ Len(adds) \in Nat
    <3>1. a.n - d.baseVal[d.sind] \in Int
      BY <2>2
    <3>2. AreAdds(adds)
      BY <3>1, AddToRegisterIs
    <3> HIDE DEF adds
    <3> QED BY <3>2, CodeOf DEF AreAdds
  <2>6. IsCode(anew)
    BY SetRegisterToAddressIs
  <2> HIDE DEF free, adds, anew
  <2>7. k \in Nat /\ k <= Len(free) /\ k <= Len(adds)
    BY <2>4, <2>5
  <2> HIDE DEF k
  <2>8. IsCode(rest)
    BY <2>5, <2>7, CodePart
  <2>9. AreAdds(SubSeq(adds, 1, k)) /\ Len(SubSeq(adds, 1, k)) = k
    <3>1. /\ IsCode(SubSeq(adds, 1, k)) /\ Len(SubSeq(adds, 1, k)) = k
          /\ \A l \in 1..k : SubSeq(adds, 1, k)[l] = adds[l]
      BY <2>5, <2>7, CodePart
    <3> QED BY <2>5, <2>7, <3>1 DEF AreAdds
  <2>10. SubSeq(free, 1, k) \in Seq(Adds) /\ Len(SubSeq(free, 1, k)) = k
    BY <2>4, <2>7
  <2> HIDE DEF rest
  <2>11. IsMove(short)
    BY <2>6, NoInstr DEF IsMove, AreAdds
  <2>12. IsMove(long)
    BY <2>8, <2>9, <2>10 DEF IsMove
  <2> QED BY <2>1, <2>11, <2>12
<1> QED BY <1>1, <1>2 DEF Moves

\* The loop with a move and an access: every instruction keeps its kind, those
\* of the move come behind.
LEMMA CodeWithIs ==
  ASSUME IsCode(code), NEW m, IsMove(m), NEW regs, NEW c,
         NEW access \in DOMAIN code, code[access].kind = "load"
  PROVE  LET new == CodeWith(m, regs, access, c)
         IN  /\ IsCode(new) /\ Len(new) = Len(code) + Len(m.new)
             /\ \A i \in DOMAIN code : new[i].kind = code[i].kind
<1> DEFINE allowed(i) == [i EXCEPT !.allow = @ \cup regs]
           hit(i) == m.set[CHOOSE j \in DOMAIN m.set : m.reused[j] = i]
           given == [i \in DOMAIN code |->
              IF i = access THEN [code[i] EXCEPT !.val = <<c[2], c[1], @[3]>>]
              ELSE IF i \notin ToSet(m.reused) THEN code[i]
              ELSE allowed([code[i] EXCEPT !.val = hit(i).val])]
           new == [j \in DOMAIN m.new |-> allowed(m.new[j])]
<1>1. CodeWith(m, regs, access, c) = given \o new
  BY DEF CodeWith
<1>2. /\ DOMAIN code = 1..Len(code) /\ Len(code) \in Nat
      /\ \A i \in 1..Len(code) : IsInstr(code[i])
      /\ DOMAIN m.new = 1..Len(m.new) /\ Len(m.new) \in Nat
      /\ \A j \in 1..Len(m.new) : IsInstr(m.new[j])
  BY CodeOf DEF IsMove
<1>3. ASSUME NEW i, IsInstr(i)
      PROVE  IsInstr(allowed(i)) /\ allowed(i).kind = i.kind
  BY <1>3 DEF IsInstr
<1>4. ASSUME NEW i, IsInstr(i), NEW v, DOMAIN v = DOMAIN i.val
      PROVE  IsInstr([i EXCEPT !.val = v]) /\ [i EXCEPT !.val = v].kind = i.kind
  BY <1>4 DEF IsInstr
<1>5. IsCode(new) /\ Len(new) = Len(m.new)
  <2>1. \A j \in 1..Len(m.new) : IsInstr(new[j])
    BY <1>2, <1>3
  <2>2. new = [j \in 1..Len(m.new) |-> new[j]]
    BY <1>2
  <2> HIDE DEF new
  <2> QED BY <1>2, <2>1, <2>2, CodeMade
<1>6. \A i \in DOMAIN code : IsInstr(given[i]) /\ given[i].kind = code[i].kind
  <2> SUFFICES ASSUME NEW i \in DOMAIN code
               PROVE  IsInstr(given[i]) /\ given[i].kind = code[i].kind
    OBVIOUS
  <2>1. IsInstr(code[i])
    BY <1>2
  <2>2. CASE i = access
    <3> DEFINE v == <<c[2], c[1], code[i].val[3]>>
    <3>1. DOMAIN code[i].val = 1..3
      BY <2>1, <2>2 DEF IsInstr, Operands
    <3>2. DOMAIN v = DOMAIN code[i].val
      BY <3>1
    <3>3. given[i] = [code[i] EXCEPT !.val = v]
      BY <2>2
    <3> HIDE DEF v, given
    <3> QED BY <1>4, <2>1, <3>2, <3>3
  <2>3. CASE i # access /\ i \notin ToSet(m.reused)
    <3>1. given[i] = code[i]
      BY <2>3
    <3> QED BY <2>1, <3>1
  <2>4. CASE i # access /\ i \in ToSet(m.reused)
    <3> DEFINE j == CHOOSE j \in DOMAIN m.set : m.reused[j] = i
    <3>1. /\ DOMAIN m.set = DOMAIN m.reused /\ m.reused \in Seq(Adds)
          /\ DOMAIN m.set = 1..Len(m.set) /\ AreAdds(m.set)
          /\ \A l \in 1..Len(m.set) : IsInstr(m.set[l])
      <4>1. IsCode(m.set) /\ Len(m.set) = Len(m.reused) /\ m.reused \in Seq(Adds)
        BY DEF IsMove, AreAdds
      <4>2. DOMAIN m.reused = 1..Len(m.reused)
        BY <4>1
      <4> QED BY <4>1, <4>2, CodeOf DEF IsMove
    <3>2. \E l \in DOMAIN m.set : m.reused[l] = i
      BY <2>4, <3>1 DEF ToSet
    <3>3. j \in DOMAIN m.set /\ m.reused[j] = i
      BY <3>2
    <3>4. code[i].kind = "addi"
      <4> DEFINE reused == m.reused
      <4>0. reused \in Seq(Adds)
        BY <3>1
      <4> HIDE DEF reused
      <4>1. \A l \in DOMAIN reused : reused[l] \in Adds
        BY <4>0
      <4>2. i \in Adds
        BY <3>1, <3>3, <4>1 DEF reused
      <4> QED BY <4>2 DEF Adds
    <3>5. given[i] = allowed([code[i] EXCEPT !.val = m.set[j].val])
      BY <2>4
    <3> HIDE DEF j
    <3>6. m.set[j].kind = "addi" /\ IsInstr(m.set[j])
      BY <3>1, <3>3 DEF AreAdds
    <3>7. DOMAIN m.set[j].val = DOMAIN code[i].val
      BY <2>1, <3>4, <3>6 DEF IsInstr
    <3> DEFINE e == [code[i] EXCEPT !.val = m.set[j].val]
    <3>8. IsInstr(e) /\ e.kind = code[i].kind
      BY <1>4, <2>1, <3>7
    <3>9. given[i] = allowed(e)
      BY <3>5
    <3> HIDE DEF e, given
    <3>10. IsInstr(allowed(e)) /\ allowed(e).kind = e.kind
      BY <1>3, <3>8
    <3> QED BY <3>8, <3>9, <3>10
  <2> QED BY <2>2, <2>3, <2>4
<1>7. IsCode(given) /\ Len(given) = Len(code)
  <2>1. given = [i \in 1..Len(code) |-> given[i]]
    BY <1>2
  <2> HIDE DEF given
  <2> QED BY <1>2, <1>6, <2>1, CodeMade
<1> HIDE DEF given, new
<1>8. /\ IsCode(given \o new) /\ Len(given \o new) = Len(code) + Len(m.new)
      /\ \A i \in 1..Len(code) : (given \o new)[i] = given[i]
  BY <1>5, <1>7, CodeJoined
<1> QED BY <1>1, <1>2, <1>6, <1>8

-----------------------------------------------------------------------------
(* While the passes work, the loop is code, and its list has each          *)
(* instruction at most once.                                               *)

Width(sid) == IF sid \in Sharing THEN Model[sid].streams ELSE 0
Building == {"initialize", "declare", "streams"}

BuildInv ==
    /\ case \in Cases /\ step \in Nat \ {0}
    /\ IsCode(code) /\ Len(case.body) <= Len(code) /\ IsBlock(block, Len(code))
    /\ phase \in Building => IsKnown(known)
    /\ phase = "initialize" => descriptors = <<>>
    /\ phase = "declare" => /\ step \in 1..(Len(Model) + 1)
                            /\ descriptors \in Seq(ToSet(descriptors))
                            /\ Len(descriptors) = step - 1
    /\ phase = "streams" => DOMAIN descriptors = Sids
    /\ phase \in {"declare", "streams"} =>
         \A sid \in DOMAIN descriptors : IsStream(descriptors[sid], Width(sid), Adds)

\* After the streams nothing is left to show but the loop's code.
LEMMA BuildLater ==
  ASSUME BuildInv, UNCHANGED <<case, block>>, IsCode(code'), Len(code') = Len(code),
         step' \in Nat \ {0}, phase' \notin Building
  PROVE  BuildInv'
BY DEF BuildInv, Building

LEMMA CodePut ==
  ASSUME NEW s, IsCode(s), NEW i, NEW x, IsInstr(x)
  PROVE  IsCode([s EXCEPT ![i] = x]) /\ Len([s EXCEPT ![i] = x]) = Len(s)
<1> DEFINE t == [s EXCEPT ![i] = x]
<1>1. /\ Len(s) \in Nat /\ DOMAIN s = 1..Len(s)
      /\ \A k \in 1..Len(s) : IsInstr(s[k])
  BY CodeOf
<1>2. t = [k \in 1..Len(s) |-> t[k]]
  BY <1>1
<1>3. \A k \in 1..Len(s) : IsInstr(t[k])
  BY <1>1
<1> HIDE DEF t
<1>4. IsCode(t) /\ Len(t) = Len(s)
  BY <1>1, <1>2, <1>3, CodeMade
<1> QED BY <1>4 DEF t

LEMMA ConstantsIs == ASSUME NEW i, IsInstr(i) PROVE IsInstr(WithConstants(i))
BY DEF IsInstr, WithConstants

LEMMA InstrGiven ==
  ASSUME NEW i, IsInstr(i), NEW o, NEW r
  PROVE  /\ IsInstr([i EXCEPT !.val[o] = r])
         /\ [i EXCEPT !.val[o] = r].kind = i.kind
         /\ IsInstr([i EXCEPT !.allow = @ \cup {r}])
BY DEF IsInstr

\* Whatever an operand does to the lists, the instruction stays one.
HasInstr(s) == {"instr", "queues", "picks"} \subseteq DOMAIN s /\ IsInstr(s.instr)

LEMMA TurnIs == ASSUME NEW s, NEW o, HasInstr(s) PROVE HasInstr(Turn(s, o))
<1> DEFINE op == Operands[s.instr.kind][o]
<1>1. \A q : HasInstr([s EXCEPT !.queues = q])
  BY DEF HasInstr
<1>2. HasInstr(FreeTurn(s, o, op))
  <2> DEFINE own == ListOf(s.queues, op)
             places(queue, regs) == {k \in DOMAIN s.queues[queue] :
                                        s.queues[queue][k] \in regs}
             first == places(own, op.regs \ reserved)
             queue == IF first = {} THEN "io" ELSE own
             possible == IF first = {} THEN places("io", op.regs) ELSE first
             r == IF possible = {} THEN First(op.regs)
                  ELSE s.queues[queue][First(possible)]
             set == [s EXCEPT !.instr.val[o] = r]
             pick == [reg |-> r, class |-> Class(op), queue |-> queue]
  <2>1. FreeTurn(s, o, op) =
          IF possible = {}
          THEN IF op.out THEN [set EXCEPT !.instr.allow = @ \cup {r}] ELSE set
          ELSE [set EXCEPT !.queues = Given(@, queue, r), !.picks = @ \cup {pick}]
    BY DEF FreeTurn
  <2> HIDE DEF possible, r, queue, pick
  <2>2. HasInstr(set)
    <3> DEFINE i == [s.instr EXCEPT !.val[o] = r]
    <3>1. IsInstr(i)
      BY InstrGiven DEF HasInstr
    <3>2. DOMAIN set = DOMAIN s /\ set.instr = i
      BY DEF HasInstr
    <3> HIDE DEF i, set
    <3> QED BY <3>1, <3>2 DEF HasInstr
  <2> HIDE DEF set
  <2>3. HasInstr([set EXCEPT !.instr.allow = @ \cup {r}])
    <3> DEFINE i == [set.instr EXCEPT !.allow = @ \cup {r}]
               t == [set EXCEPT !.instr.allow = @ \cup {r}]
    <3>1. IsInstr(i)
      BY <2>2, InstrGiven DEF HasInstr
    <3>2. DOMAIN t = DOMAIN set /\ t.instr = i
      BY <2>2 DEF HasInstr
    <3> HIDE DEF i, t
    <3>3. HasInstr(t)
      BY <2>2, <3>1, <3>2 DEF HasInstr
    <3> QED BY <3>3 DEF t
  <2>4. HasInstr([set EXCEPT !.queues = Given(@, queue, r), !.picks = @ \cup {pick}])
    BY <2>2 DEF HasInstr
  <2> QED BY <2>1, <2>2, <2>3, <2>4
<1>3. \/ Turn(s, o) = s \/ Turn(s, o) = FreeTurn(s, o, op)
      \/ \E q : Turn(s, o) = [s EXCEPT !.queues = q]
  BY DEF Turn
<1> QED BY <1>1, <1>2, <1>3

LEMMA BuildInit == Init => BuildInv
<1> SUFFICES ASSUME Init PROVE BuildInv
  OBVIOUS
<1>1. /\ case \in Cases /\ phase = "initialize" /\ step = 1 /\ code = case.body
      /\ block = B!NewBlock([j \in 1..Len(case.body) |-> j])
      /\ known = [r \in {} |-> Number(0)] /\ descriptors = <<>>
  BY DEF Init, InitBuilding, InitStreams
<1>2. IsCode(code) /\ Len(code) \in Nat
  BY <1>1, CasesAssumption, CodeOf
<1>3. IsBlock(block, Len(code))
  BY <1>1, <1>2, NewBlockIs
<1>4. IsKnown(known)
  BY <1>1 DEF IsKnown
<1> QED BY <1>1, <1>2, <1>3, <1>4 DEF BuildInv

LEMMA InitializeBuild ==
  ASSUME BuildInv, UNCHANGED <<streams, allocation, machine>>,
         InitializeRegister \/ InitializeDone
  PROVE  BuildInv'
<1>1. UNCHANGED <<case, code, block, descriptors>> /\ phase = "initialize"
  BY DEF streams, InitializeRegister, InitializeDone
<1>2. /\ case \in Cases /\ step \in Nat \ {0} /\ IsKnown(known) /\ descriptors = <<>>
      /\ IsCode(code) /\ Len(case.body) <= Len(code) /\ IsBlock(block, Len(code))
  BY <1>1 DEF BuildInv, Building
<1>3. CASE InitializeRegister
  <2> DEFINE e == case.given[step]
  <2>1. /\ phase' = phase /\ step' = step + 1 /\ step <= Len(case.given)
        /\ known' = known \/ known' = Knowing(known, e.reg, Number(e.value))
    BY <1>3 DEF InitializeRegister, Initialized
  <2>2. e.reg \in Regs /\ e.value \in Int
    BY <1>2, <2>1, ModelIs
  <2> HIDE DEF e
  <2>3. Number(e.value).n \in Int
    BY <2>2 DEF Number
  <2>4. IsKnown(known')
    BY <1>2, <2>1, <2>2, <2>3, KnowingIs
  <2> QED BY <1>1, <1>2, <2>1, <2>4 DEF BuildInv
<1>4. CASE InitializeDone
  <2>1. /\ step' = 1 /\ phase' \in {"declare", "collect", "default"}
        /\ known' = known
    BY <1>4 DEF InitializeDone, Proceed
  <2>2. Len(Model) \in Nat /\ Model' = Model
    BY <1>1, <1>2, ModelIs DEF Model
  <2>3. <<>> \in Seq(ToSet(<<>>)) /\ Len(<<>>) = 0 /\ DOMAIN <<>> = {}
    OBVIOUS
  <2>4. descriptors' = <<>>
    BY <1>1, <1>2
  <2> QED BY <1>1, <1>2, <2>1, <2>2, <2>3, <2>4 DEF BuildInv, Building
<1> QED BY <1>3, <1>4

LEMMA DeclareBuild ==
  ASSUME BuildInv, DeclareStream
  PROVE  BuildInv'
<1>1. /\ phase = "declare" /\ step <= Len(Model) /\ UNCHANGED <<case, code, block>>
      /\ case \in Cases /\ step \in Nat \ {0} /\ IsKnown(known)
      /\ descriptors \in Seq(ToSet(descriptors)) /\ Len(descriptors) = step - 1
      /\ IsCode(code) /\ Len(case.body) <= Len(code) /\ IsBlock(block, Len(code))
      /\ \A sid \in DOMAIN descriptors : IsStream(descriptors[sid], Width(sid), Adds)
  BY DEF DeclareStream, BuildInv, Building
<1>2. Len(Model) \in Nat /\ step \in Sids
      /\ Model[step].streams \in Nat \ {0}
  BY <1>1, ModelIs
<1>3. CASE Fails
  BY <1>1, <1>3 DEF Fails, BuildInv, Building
<1>4. CASE ~Fails
  <2> DEFINE n == Width(step)
             regs == StreamRegs(n, reserved)
             new(values) == [base |-> regs.base, idx |-> regs.idx,
                             baseVal |-> [s \in 1..n |-> 0],
                             calc |-> [s \in 1..n |-> {}], last |-> 0,
                             count |-> 0, maxValue |-> 0, values |-> values,
                             sind |-> 1]
  <2>1. /\ ~(step \in Sharing /\ ~EnoughRegs(step, reserved))
        /\ known' = KnowingStreams(regs, n)
        /\ step' = step + 1 /\ phase' = "declare"
    BY <1>1, <1>4 DEF DeclareStream, Width
  <2>2. PICK values \in Orders(Values(step), step) :
               descriptors' = Append(descriptors, new(values))
    BY <1>4 DEF DeclareStream, Width
  <2>3. n \in Nat /\ Registers(regs, n)
    <3>1. CASE step \in Sharing
      <4>1. n = Model[step].streams
        BY <3>1 DEF Width
      <4>2. n \in Nat
        BY <1>2, <4>1
      <4> HIDE DEF n
      <4>3. Cardinality(AddressRegsLeft(reserved)) >= 2 * n
        BY <2>1, <3>1, <4>1 DEF EnoughRegs
      <4> QED BY <4>2, <4>3, StreamRegsIs
    <3>2. CASE step \notin Sharing
      <4>1. n = 0
        BY <3>2 DEF Width
      <4> HIDE DEF n
      <4>2. regs.base = [s \in 1..0 |-> Sorted(AddressRegsLeft(reserved))[2 * s - 1]]
            /\ regs.idx = [s \in 1..0 |-> Sorted(AddressRegsLeft(reserved))[2 * s]]
        BY <4>1 DEF StreamRegs
      <4>3. 1..0 = {}
        OBVIOUS
      <4> QED BY <4>1, <4>2, <4>3 DEF Registers
    <3> QED BY <3>1, <3>2
  <2> HIDE DEF n
  <2>4. IsKnown(known')
    BY <1>1, <2>1, <2>3, KnowingStreamsIs
  <2> HIDE DEF regs
  <2>5. Displacements(values)
    <3>1. Displacements(Values(step))
      BY <1>1, <1>2, ValuesIs
    <3> QED BY <3>1, <2>2, OrdersIs
  <2> DEFINE d == new(values)
  <2>6. IsStream(d, n, Adds)
    <3>1. n > 0 => 1 \in 1..n
      BY <2>3
    <3>2. /\ DOMAIN d = {"base", "idx", "baseVal", "calc", "last", "count", "maxValue",
                         "values", "sind"}
          /\ d.base = regs.base /\ d.baseVal = [s \in 1..n |-> 0]
          /\ d.calc = [s \in 1..n |-> {}] /\ d.values = values
          /\ d.count = 0 /\ d.sind = 1
      OBVIOUS
    <3> HIDE DEF d
    <3> QED BY <2>3, <2>5, <3>1, <3>2 DEF Registers, IsStream
  <2> DEFINE D == ToSet(descriptors) \cup {d}
  <2> HIDE DEF new, d
  <2>7. /\ DOMAIN descriptors' = 1..step /\ Len(descriptors') = step
        /\ descriptors' \in Seq(ToSet(descriptors'))
        /\ descriptors'[step] = d
        /\ \A k \in 1..(step - 1) : descriptors'[k] = descriptors[k]
        /\ DOMAIN descriptors = 1..(step - 1)
    <3> DEFINE t == Append(descriptors, d)
    <3>1. descriptors \in Seq(D) /\ d \in D
      BY <1>1, SeqMonotonic DEF D
    <3> HIDE DEF D
    <3>2. /\ t \in Seq(D) /\ Len(t) = step /\ t[step] = d
          /\ \A k \in 1..(step - 1) : t[k] = descriptors[k]
          /\ DOMAIN descriptors = 1..(step - 1)
      BY <1>1, <3>1
    <3> HIDE DEF t
    <3>3. DOMAIN t = 1..step /\ t = [k \in 1..step |-> t[k]]
      BY <3>2
    <3>4. t \in [1..step -> ToSet(t)]
      BY <3>3 DEF ToSet
    <3>5. t \in Seq(ToSet(t))
      BY <1>1, <3>4
    <3>6. descriptors' = t
      BY <2>2 DEF t, d
    <3> QED BY <3>2, <3>3, <3>5, <3>6
  <2>8. /\ Adds' = Adds /\ Model' = Model /\ Sharing' = Sharing
        /\ \A sid \in 1..step : Width(sid)' = Width(sid)
    BY <1>1 DEF Adds, Model, Sharing, Sids, Width
  <2>9. ASSUME NEW sid \in 1..step
        PROVE  IsStream(descriptors'[sid], Width(sid)', Adds')
    <3>1. CASE sid = step
      BY <2>6, <2>7, <2>8, <3>1 DEF n
    <3>2. CASE sid # step
      <4>1. sid \in 1..(step - 1)
        BY <1>1, <3>2
      <4> QED BY <1>1, <2>7, <2>8, <4>1
    <3> QED BY <3>1, <3>2
  <2>10. step + 1 \in 1..(Len(Model) + 1) /\ step + 1 \in Nat \ {0}
    BY <1>1, <1>2
  <2> QED BY <1>1, <2>1, <2>4, <2>7, <2>8, <2>9, <2>10 DEF BuildInv, Building
<1> QED BY <1>3, <1>4

\* An instruction of the pass's list, in its phase
LEMMA ModellingIs ==
  ASSUME BuildInv, Modelling
  PROVE  /\ case \in Cases /\ step \in Nat \ {0} /\ step \in 1..Len(code)
         /\ IsCode(code) /\ IsBlock(block, Len(code)) /\ Len(case.body) <= Len(code)
         /\ DOMAIN code = 1..Len(code) /\ Len(code) \in Nat
         /\ IsKnown(known) /\ DOMAIN descriptors = Sids /\ Len(case.body) \in Nat
         /\ \A sid \in Sids : IsStream(descriptors[sid], Width(sid), Adds)
<1>1. /\ case \in Cases /\ step \in Nat \ {0} /\ step <= Len(case.body)
      /\ IsCode(code) /\ IsBlock(block, Len(code)) /\ Len(case.body) <= Len(code)
      /\ IsKnown(known) /\ DOMAIN descriptors = Sids
      /\ \A sid \in Sids : IsStream(descriptors[sid], Width(sid), Adds)
  BY DEF BuildInv, Modelling, Building
<1>2. DOMAIN code = 1..Len(code) /\ Len(code) \in Nat
  BY <1>1, CodeOf
<1>3. Len(case.body) \in Nat
  BY <1>1, CasesAssumption, CodeOf
<1> QED BY <1>1, <1>2, <1>3

\* What a descriptor offers, whatever else it holds
LEMMA StreamMore ==
  ASSUME NEW d, NEW n, NEW adds, NEW more, IsStream(d, n, adds), adds \subseteq more
  PROVE  IsStream(d, n, more)
BY DEF IsStream

LEMMA StreamCalc ==
  ASSUME NEW d, NEW n, NEW adds, IsStream(d, n, adds), NEW calc,
         DOMAIN calc = 1..n, \A s \in 1..n : calc[s] \in SUBSET adds,
         NEW e, e = [d EXCEPT !.calc = calc]
  PROVE  IsStream(e, n, adds)
BY DEF IsStream

LEMMA OtherBuild ==
  ASSUME BuildInv, ModelOther
  PROVE  BuildInv'
<1>1. /\ Modelling /\ phase = "streams" /\ phase' = phase /\ step' = step + 1
      /\ UNCHANGED <<case, code, block, known>>
  BY DEF ModelOther, Modelling, Modelled
<1>2. /\ case \in Cases /\ step \in Nat \ {0} /\ step \in 1..Len(code)
      /\ IsCode(code) /\ IsBlock(block, Len(code)) /\ Len(case.body) <= Len(code)
      /\ DOMAIN code = 1..Len(code)
      /\ IsKnown(known) /\ DOMAIN descriptors = Sids
      /\ \A sid \in Sids : IsStream(descriptors[sid], Width(sid), Adds)
  BY <1>1, ModellingIs
<1>3. /\ Adds' = Adds /\ Sids' = Sids
      /\ \A sid \in Sids : Width(sid)' = Width(sid)
  BY <1>1 DEF Adds, Model, Sharing, Sids, Width
<1>4. /\ DOMAIN descriptors' = Sids
      /\ \A sid \in Sids : IsStream(descriptors'[sid], Width(sid), Adds)
  <2>1. CASE code[step].kind # "addi"
    BY <1>2, <2>1 DEF ModelOther
  <2>2. CASE code[step].kind = "addi"
    <3>1. descriptors' = [t \in Sids |-> [descriptors[t] EXCEPT !.calc =
                            [s \in DOMAIN @ |-> @[s] \cup {step}]]]
      BY <2>2 DEF ModelOther
    <3>2. step \in Adds
      BY <1>2, <2>2 DEF Adds
    <3>3. ASSUME NEW sid \in Sids
          PROVE  IsStream(descriptors'[sid], Width(sid), Adds)
      <4> DEFINE d == descriptors[sid]
                 calc == [s \in DOMAIN d.calc |-> d.calc[s] \cup {step}]
      <4>1. IsStream(d, Width(sid), Adds)
        BY <1>2
      <4>2. descriptors'[sid] = [d EXCEPT !.calc = calc]
        BY <3>1
      <4> HIDE DEF d
      <4>3. DOMAIN calc = 1..Width(sid) /\ \A s \in 1..Width(sid) : calc[s] \in SUBSET Adds
        BY <3>2, <4>1 DEF IsStream
      <4> HIDE DEF calc
      <4> QED BY <4>1, <4>2, <4>3, StreamCalc
    <3> QED BY <3>1, <3>3
  <2> QED BY <2>1, <2>2
<1>5. step + 1 \in Nat \ {0}
  BY <1>2
<1> QED BY <1>1, <1>2, <1>3, <1>4, <1>5 DEF BuildInv, Building

\* A stream that was used goes on to the next displacement.
LEMMA StreamUsed ==
  ASSUME NEW d, NEW n \in Nat \ {0}, NEW adds, IsStream(d, n, adds), NEW c \in Int,
         NEW far, NEW values, Displacements(values)
  PROVE  IsStream(WithAccess(d, c, far, values), n, adds)
<1> DEFINE F == {"baseVal", "calc", "last", "count", "maxValue", "values", "sind"}
           v == IF far THEN c ELSE d.baseVal[d.sind]
           x == IF d.maxValue < c THEN c ELSE d.maxValue
           e == [d EXCEPT !.baseVal[d.sind] = v, !.last = step, !.count = @ + 1,
                          !.maxValue = x, !.values = values,
                          !.sind = (@ % Len(d.base)) + 1]
<1>1. F \subseteq DOMAIN d
  BY DEF IsStream
<1>2. WithAccess(d, c, far, values) = e
  BY DEF WithAccess
<1>3. v \in Int
  <2>1. d.baseVal \in [1..n -> Int] /\ d.sind \in 1..n
    BY DEF IsStream
  <2>2. d.baseVal[d.sind] \in Int
    BY <2>1
  <2> QED BY <2>2
<1> HIDE DEF v, x
<1>4. /\ DOMAIN e = DOMAIN d /\ e.base = d.base /\ e.calc = d.calc
      /\ e.baseVal = [d.baseVal EXCEPT ![d.sind] = v]
      /\ e.count = d.count + 1 /\ e.values = values
      /\ e.sind = (d.sind % Len(d.base)) + 1
  BY <1>1
<1>5. d.sind % Len(d.base) \in 0..(n - 1)
  <2>1. Len(d.base) = n
    BY DEF IsStream
  <2>2. d.sind \in Nat
    BY DEF IsStream
  <2> QED BY <2>1, <2>2, DivMod
<1>6. e.sind \in 1..n
  BY <1>4, <1>5
<1>7. e.baseVal \in [1..n -> Int] /\ e.count \in Nat
  BY <1>3, <1>4 DEF IsStream
<1> HIDE DEF e
<1>8. IsStream(e, n, adds)
  BY <1>1, <1>4, <1>6, <1>7 DEF IsStream
<1> QED BY <1>2, <1>8

LEMMA AccessBuild ==
  ASSUME BuildInv, ModelAccess
  PROVE  BuildInv'
<1>1. /\ Modelling /\ phase = "streams" /\ phase' = phase /\ step' = step + 1
      /\ case' = case /\ code[step].kind = "load"
  BY DEF ModelAccess, Modelling, Modelled
<1>2. /\ case \in Cases /\ step \in Nat \ {0} /\ step \in DOMAIN code
      /\ IsCode(code) /\ IsBlock(block, Len(code)) /\ Len(case.body) <= Len(code)
      /\ DOMAIN code = 1..Len(code) /\ Len(code) \in Nat /\ Len(case.body) \in Nat
      /\ IsKnown(known) /\ DOMAIN descriptors = Sids
      /\ \A sid \in Sids : IsStream(descriptors[sid], Width(sid), Adds)
  BY <1>1, ModellingIs
<1>3. PICK sid \in Sharing :
         AccessOf(sid, descriptors[sid],
                  [var |-> sid, n |-> ValueOfNext(descriptors[sid])])
  BY DEF ModelAccess
<1> DEFINE d == descriptors[sid]
           a == [var |-> sid, n |-> ValueOfNext(d)]
           n == Width(sid)
           far == SetAddress(a, known) = {}
<1>4. sid \in Sids /\ n \in Nat \ {0} /\ IsStream(d, n, Adds)
  BY <1>2, <1>3, ModelIs DEF Sharing, Width
<1>5. known' = IF far THEN Knowing(known, d.base[d.sind], a) ELSE known
  BY <1>3 DEF AccessOf
<1>6. PICK move \in Moves(sid, d, a), values \in NewValues(sid, d),
           c \in SetAddress(a, known') :
         /\ code' = CodeWith(move, {d.base[d.sind], d.idx[d.sind]}, step, c)
         /\ block' = IF [j \in DOMAIN move.new |-> Len(code) + j] = <<>> THEN block
                     ELSE B!InsertInstr(block, [j \in DOMAIN move.new |-> Len(code) + j],
                                        step, move.after)
         /\ descriptors' = [UsedByStream(sid, move.reused) EXCEPT
               ![sid] = WithAccess(@, a.n, far, values)]
  BY <1>3 DEF AccessOf
<1>7. a.n \in Nat /\ d.base[d.sind] \in Regs /\ d.sind \in 1..n
  <2>1. d.count \in Nat /\ d.values \in Seq(Nat) /\ Len(d.values) \in Nat \ {0}
        /\ d.base[d.sind] \in Regs /\ d.sind \in 1..n
    BY <1>4 DEF IsStream, Displacements
  <2> DEFINE v == d.values
             k == d.count % Len(v)
  <2>2. k \in 0..(Len(v) - 1)
    BY <2>1, DivMod
  <2> HIDE DEF k
  <2>3. k + 1 \in 1..Len(v) /\ v \in Seq(Nat)
    BY <2>1, <2>2
  <2> HIDE DEF v
  <2>4. v[k + 1] \in Nat
    BY <2>3
  <2> QED BY <2>1, <2>4 DEF ValueOfNext, k, v
<1> HIDE DEF a, far, n
<1>8. IsKnown(known')
  BY <1>2, <1>5, <1>7, KnowingIs
<1>9. IsMove(move)
  BY <1>2, <1>4, <1>6, <1>7, MovesAre
<1>10. /\ IsCode(code') /\ Len(code') = Len(code) + Len(move.new)
       /\ \A i \in DOMAIN code : code'[i].kind = code[i].kind
  BY <1>1, <1>2, <1>6, <1>9, CodeWithIs
<1>11. /\ Len(move.new) \in Nat /\ DOMAIN move.new = 1..Len(move.new)
  BY <1>9, CodeOf DEF IsMove
<1>12. IsBlock(block', Len(code'))
  <2> DEFINE m == Len(move.new)
             ids == [j \in DOMAIN move.new |-> Len(code) + j]
  <2>1. ids = Fresh(Len(code), m)
    BY <1>11 DEF Fresh
  <2>2. CASE ids = <<>>
    <3>1. Len(Fresh(Len(code), m)) = 0
      BY <2>1, <2>2
    <3>2. m = 0
      BY <1>2, <1>11, <3>1, FreshIs
    <3> QED BY <1>2, <1>6, <1>10, <2>2, <3>2
  <2>3. CASE ids # <<>>
    <3>1. block' = B!InsertInstr(block, Fresh(Len(code), m), step, move.after)
      BY <1>6, <2>1, <2>3
    <3> QED BY <1>2, <1>10, <1>11, <3>1, InsertBlock
  <2> QED BY <2>2, <2>3
<1>13. Adds \subseteq Adds'
  <2>1. DOMAIN code' = 1..Len(code') /\ Len(code') \in Nat
    BY <1>10, CodeOf
  <2>2. DOMAIN code \subseteq DOMAIN code'
    BY <1>2, <1>10, <1>11, <2>1
  <2> QED BY <1>10, <2>2 DEF Adds
<1>14. \A t \in Sids : IsStream(UsedByStream(sid, move.reused)[t], Width(t), Adds)
  <2> SUFFICES ASSUME NEW t \in Sids
               PROVE  IsStream(UsedByStream(sid, move.reused)[t], Width(t), Adds)
    OBVIOUS
  <2> DEFINE e == descriptors[t]
             calc == [s \in DOMAIN e.calc |->
                        IF t = sid /\ s = e.sind THEN {}
                        ELSE e.calc[s] \ ToSet(move.reused)]
  <2>1. IsStream(e, Width(t), Adds)
    BY <1>2
  <2>2. UsedByStream(sid, move.reused)[t] = [e EXCEPT !.calc = calc]
    BY DEF UsedByStream
  <2> HIDE DEF e
  <2>3. DOMAIN calc = 1..Width(t) /\ \A s \in 1..Width(t) : calc[s] \in SUBSET Adds
    BY <2>1 DEF IsStream
  <2> HIDE DEF calc
  <2> QED BY <2>1, <2>2, <2>3, StreamCalc
<1>15. DOMAIN descriptors' = Sids /\ \A t \in Sids : IsStream(descriptors'[t], Width(t), Adds)
  <2> DEFINE U == UsedByStream(sid, move.reused)
             e == WithAccess(U[sid], a.n, far, values)
  <2>1. DOMAIN U = Sids
    BY DEF UsedByStream
  <2>2. descriptors' = [U EXCEPT ![sid] = e]
    BY <1>6
  <2>3. IsStream(U[sid], n, Adds)
    BY <1>4, <1>14 DEF n
  <2>4. Displacements(values)
    BY <1>4, <1>6, NewValuesIs DEF IsStream
  <2>5. IsStream(e, n, Adds)
    BY <1>4, <1>7, <2>3, <2>4, StreamUsed
  <2> HIDE DEF e
  <2> QED BY <1>4, <1>14, <2>1, <2>2, <2>5 DEF U, n
<1>16. /\ Sids' = Sids /\ \A t \in Sids : Width(t)' = Width(t)
  BY <1>1 DEF Model, Sharing, Sids, Width
<1>17. \A t \in Sids : IsStream(descriptors'[t], Width(t)', Adds')
  BY <1>13, <1>15, <1>16, StreamMore
<1>18. step + 1 \in Nat \ {0} /\ Len(case.body) <= Len(code')
  BY <1>2, <1>10, <1>11
<1> QED BY <1>1, <1>2, <1>8, <1>10, <1>12, <1>15, <1>16, <1>17, <1>18 DEF BuildInv, Building

-----------------------------------------------------------------------------
(* One instruction's operands are given registers.                         *)

LEMMA KindsAre ==
  ASSUME NEW k \in DOMAIN Operands
  PROVE  \/ Operands[k] \in {<<Imm, Use, Def>>, <<Use, Use, Def>>, <<Imm, Use, Use>>,
                             <<Imm, Stack, Def>>}
         \/ Operands[k] \in {<<Imm, Def>>, <<Imm, Mod>>}
         \/ Operands[k] = <<ModC, UseC>>
         \/ Operands[k] = <<>>
<1>1. /\ Operands["addi"] = <<Imm, Use, Def>> /\ Operands["slli"] = <<Imm, Use, Def>>
      /\ Operands["ori"] = <<Imm, Use, Def>> /\ Operands["lui"] = <<Imm, Def>>
      /\ Operands["auipc"] = <<Imm, Def>> /\ Operands["lo12"] = <<Imm, Use, Def>>
      /\ Operands["or"] = <<Use, Use, Def>> /\ Operands["blt"] = <<Imm, Use, Use>>
      /\ Operands["nop"] = <<>> /\ Operands["add"] = <<Use, Use, Def>>
      /\ Operands["caddi"] = <<Imm, Mod>> /\ Operands["addsp"] = <<Imm, Stack, Def>>
      /\ Operands["load"] = <<Imm, Use, Def>> /\ Operands["cand"] = <<ModC, UseC>>
  BY DEF Operands
<1>2. k \in {"addi", "slli", "ori", "lui", "auipc", "lo12", "or", "blt", "nop", "add",
            "caddi", "addsp", "load", "cand"}
  BY DEF Operands
<1> QED BY <1>1, <1>2

\* No kind of instruction has two operands that are set.
LEMMA OneOut ==
  ASSUME NEW k \in DOMAIN Operands, NEW o \in DOMAIN Operands[k],
         NEW p \in DOMAIN Operands[k], Operands[k][o].out, Operands[k][p].out
  PROVE  o = p
<1>1. ~Imm.out /\ ~Use.out /\ ~Stack.out /\ ~UseC.out
  BY DEF Imm, Use, Stack, UseC
<1>2. ASSUME NEW a, NEW b, NEW c, ~a.out, ~b.out, Operands[k] = <<a, b, c>> PROVE o = p
  <2>1. DOMAIN Operands[k] = 1..3 /\ Operands[k][1] = a /\ Operands[k][2] = b
    BY <1>2
  <2> QED BY <1>2, <2>1
<1>3. ASSUME NEW a, NEW b, ~a.out, Operands[k] = <<a, b>> PROVE o = p
  <2>1. DOMAIN Operands[k] = 1..2 /\ Operands[k][1] = a
    BY <1>3
  <2> QED BY <1>3, <2>1
<1>4. CASE Operands[k] = <<>>
  BY <1>4
<1>5. ASSUME NEW a, NEW b, ~b.out, Operands[k] = <<a, b>> PROVE o = p
  <2>1. DOMAIN Operands[k] = 1..2 /\ Operands[k][2] = b
    BY <1>5
  <2> QED BY <1>5, <2>1
<1> QED BY <1>1, <1>2, <1>3, <1>4, <1>5, KindsAre

\* What is known of an outcome when the first n operands were gone through:
\* the definition and the register for the distance it has chosen, if any.
HasChoice(s, i, n) ==
    LET op(p) == Operands[i.kind][p]
    IN  /\ DOMAIN s = {"instr", "used", "defined", "chosen", "set", "slot"}
        /\ IsInstr(s.instr) /\ s.instr.kind = i.kind
        /\ \/ s.set = {} /\ s.defined = lastdefined
           \/ \E p \in DOMAIN Operands[i.kind] :
                 /\ p <= n /\ op(p).out
                 /\ s.set = {s.instr.val[p]}
                 /\ s.defined = Moved(lastdefined, s.instr.val[p], step)
        /\ s.slot # NoSlot =>
              /\ step > case.dd
              /\ s.slot.operand \in DOMAIN Operands[i.kind]
              /\ s.slot.reg = ByDistance(Valid(op(s.slot.operand)), case.dd)

LEMMA ChosenKeeps ==
  ASSUME NEW i, IsInstr(i), NEW o \in Nat \ {0}, o \in DOMAIN Operands[i.kind],
         NEW s, HasChoice(s, i, o - 1), NEW t \in Chosen(s, o)
  PROVE  HasChoice(t, i, o)
<1> DEFINE op == Operands[i.kind][o]
           far == op.in /\ case.dd > 0 /\ s.slot = NoSlot /\ step > case.dd
<1>1. /\ DOMAIN s = {"instr", "used", "defined", "chosen", "set", "slot"}
      /\ IsInstr(s.instr) /\ s.instr.kind = i.kind
  BY DEF HasChoice
<1>2. PICK r :
        /\ far => r = ByDistance(Valid(op), case.dd)
        /\ t = [s EXCEPT
                  !.instr.val[o] = r, !.used = Moved(s.used, r, step),
                  !.defined = IF op.out THEN Moved(@, r, step) ELSE @,
                  !.chosen = @ \cup {r},
                  !.set = IF op.out THEN @ \cup {r} ELSE @,
                  !.slot = IF far THEN [operand |-> o, reg |-> r] ELSE @]
  BY <1>1 DEF Chosen
<1>3. /\ DOMAIN t = DOMAIN s /\ t.instr = [s.instr EXCEPT !.val[o] = r]
      /\ t.defined = IF op.out THEN Moved(s.defined, r, step) ELSE s.defined
      /\ t.set = IF op.out THEN s.set \cup {r} ELSE s.set
      /\ t.slot = IF far THEN [operand |-> o, reg |-> r] ELSE s.slot
  <2> DEFINE d == IF op.out THEN Moved(s.defined, r, step) ELSE s.defined
             e == IF op.out THEN s.set \cup {r} ELSE s.set
             l == IF far THEN [operand |-> o, reg |-> r] ELSE s.slot
             u == Moved(s.used, r, step)
             c == s.chosen \cup {r}
             j == [s.instr EXCEPT !.val[o] = r]
  <2>1. t = [s EXCEPT !.instr = j, !.used = u, !.defined = d, !.chosen = c,
                      !.set = e, !.slot = l]
    BY <1>2, Zenon
  <2> HIDE DEF d, e, l, u, c, j
  <2>2. DOMAIN t = DOMAIN s /\ t.instr = j /\ t.defined = d /\ t.set = e /\ t.slot = l
    BY <1>1, <2>1
  <2> QED BY <2>2 DEF d, e, l, j
<1>4. IsInstr(t.instr) /\ t.instr.kind = i.kind
  <2> DEFINE j == [s.instr EXCEPT !.val[o] = r]
  <2>1. IsInstr(j) /\ j.kind = s.instr.kind
    BY <1>1, InstrGiven
  <2> HIDE DEF j
  <2> QED BY <1>1, <1>3, <2>1 DEF j
<1>5. DOMAIN i.val = DOMAIN Operands[i.kind] /\ DOMAIN s.instr.val = DOMAIN i.val
      /\ i.kind \in DOMAIN Operands /\ DOMAIN Operands[i.kind] \subseteq Nat
  BY <1>1 DEF IsInstr, Operands
<1>6. \A p \in DOMAIN Operands[i.kind] :
         t.instr.val[p] = IF p = o THEN r ELSE s.instr.val[p]
  BY <1>1, <1>3, <1>5 DEF IsInstr
<1>7. \/ t.set = {} /\ t.defined = lastdefined
      \/ \E p \in DOMAIN Operands[i.kind] :
            /\ p <= o /\ Operands[i.kind][p].out
            /\ t.set = {t.instr.val[p]}
            /\ t.defined = Moved(lastdefined, t.instr.val[p], step)
  <2>1. CASE s.set = {} /\ s.defined = lastdefined
    BY <1>3, <1>6, <2>1
  <2>2. ASSUME NEW p \in DOMAIN Operands[i.kind], p <= o - 1, Operands[i.kind][p].out,
               s.set = {s.instr.val[p]},
               s.defined = Moved(lastdefined, s.instr.val[p], step)
        PROVE  /\ p <= o /\ t.set = {t.instr.val[p]}
               /\ t.defined = Moved(lastdefined, t.instr.val[p], step)
    <3>1. p # o /\ p <= o
      BY <1>5, <2>2
    <3>2. ~op.out
      BY <1>5, <2>2, <3>1, OneOut
    <3> HIDE DEF op, far
    <3> QED BY <1>3, <1>6, <2>2, <3>1, <3>2
  <2> QED BY <2>1, <2>2 DEF HasChoice
<1>8. ASSUME t.slot # NoSlot
      PROVE  /\ step > case.dd
             /\ t.slot.operand \in DOMAIN Operands[i.kind]
             /\ t.slot.reg = ByDistance(Valid(Operands[i.kind][t.slot.operand]), case.dd)
  <2>1. CASE far
    BY <1>2, <1>3, <2>1
  <2>2. CASE ~far
    BY <1>3, <1>8, <2>2 DEF HasChoice
  <2> QED BY <2>1, <2>2
<1> QED BY <1>1, <1>3, <1>4, <1>7, <1>8 DEF HasChoice

LEMMA ChoosingKeeps ==
  ASSUME NEW i, IsInstr(i), NEW o \in Nat \ {0}, NEW S,
         \A s \in S : HasChoice(s, i, o - 1)
  PROVE  \A s \in Choosing(i, o, S) : HasChoice(s, i, o)
<1> SUFFICES ASSUME NEW t \in Choosing(i, o, S) PROVE HasChoice(t, i, o)
  OBVIOUS
<1>1. CASE o \in RegOperands(i) /\ i.val[o] = Unset
  <2>1. PICK s \in S : t \in Chosen(s, o)
    BY <1>1 DEF Choosing
  <2>2. o \in DOMAIN Operands[i.kind]
    BY <1>1 DEF RegOperands, IsInstr
  <2> QED BY <2>1, <2>2, ChosenKeeps
<1>2. CASE ~(o \in RegOperands(i) /\ i.val[o] = Unset)
  <2>1. t \in S
    BY <1>2 DEF Choosing
  <2>2. DOMAIN Operands[i.kind] \subseteq Nat
    BY DEF IsInstr, Operands
  <2>3. \A p \in DOMAIN Operands[i.kind] : p <= o - 1 => p <= o
    BY <2>2
  <2> QED BY <2>1, <2>3 DEF HasChoice
<1> QED BY <1>1, <1>2

\* The outcomes for an instruction
Start(i) == [instr |-> i, used |-> lastused, defined |-> lastdefined,
             chosen |-> {}, set |-> {}, slot |-> NoSlot]

LEMMA OutcomesIs ==
  ASSUME NEW i, IsInstr(i),
         NEW s \in Choosing(i, 3, Choosing(i, 2, Choosing(i, 1, {Start(i)})))
  PROVE  HasChoice(s, i, 3)
<1>1. \A t \in {Start(i)} : HasChoice(t, i, 1 - 1)
  BY DEF HasChoice, Start
<1>2. \A t \in Choosing(i, 1, {Start(i)}) : HasChoice(t, i, 2 - 1)
  BY <1>1, ChoosingKeeps
<1>3. \A t \in Choosing(i, 2, Choosing(i, 1, {Start(i)})) : HasChoice(t, i, 3 - 1)
  BY <1>2, ChoosingKeeps
<1> QED BY <1>3, ChoosingKeeps

LEMMA AllocateBuild ==
  ASSUME BuildInv, Allocate
  PROVE  BuildInv'
<1>1. /\ phase = "default" /\ step <= Len(Body) /\ UNCHANGED <<case, block>>
      /\ step \in Nat \ {0} /\ IsCode(code) /\ IsBlock(block, Len(code))
  BY DEF Allocate, BuildInv
<1>2. Body[step] \in DOMAIN code /\ IsInstr(code[Body[step]])
  <2>1. Len(code) \in Nat /\ DOMAIN code = 1..Len(code)
        /\ \A k \in 1..Len(code) : IsInstr(code[k])
    BY <1>1, CodeOf
  <2>2. Body \in Seq(1..Len(code))
    BY <1>1, <2>1, BlockListed DEF Body
  <2> HIDE DEF Body
  <2>3. Body[step] \in 1..Len(code)
    BY <1>1, <2>2
  <2> QED BY <2>1, <2>3
<1>3. CASE Fails /\ UNCHANGED code
  BY <1>1, <1>3, BuildLater DEF Fails, Building
<1>4. CASE ~(Fails /\ UNCHANGED code)
  <2>1. PICK s \in Choosing(code[Body[step]], 3, Choosing(code[Body[step]], 2,
                     Choosing(code[Body[step]], 1, {Start(code[Body[step]])}))) :
           /\ code' = [code EXCEPT ![Body[step]] = s.instr]
           /\ step' = step + 1 /\ phase' = phase
    BY <1>4 DEF Allocate, Start
  <2>2. IsInstr(s.instr)
    BY <1>2, <2>1, OutcomesIs DEF HasChoice
  <2>3. IsCode(code') /\ Len(code') = Len(code)
    BY <1>1, <2>1, <2>2, CodePut
  <2>4. step' \in Nat \ {0} /\ phase' \notin Building
    BY <1>1, <2>1 DEF Building
  <2> QED BY <1>1, <2>3, <2>4, BuildLater
<1> QED BY <1>3, <1>4

LEMMA RotateBuild ==
  ASSUME BuildInv, Rotate
  PROVE  BuildInv'
<1> DEFINE start == [instr |-> code[Body[step]], queues |-> queues, picks |-> picks]
           s == Turn(Turn(Turn(start, 1), 2), 3)
<1>1. /\ phase = "rotate" /\ phase' = phase /\ step <= Len(Body)
      /\ UNCHANGED <<case, block>> /\ step' = step + 1
      /\ step \in Nat \ {0} /\ IsCode(code) /\ IsBlock(block, Len(code))
      /\ code' = [code EXCEPT ![Body[step]] = s.instr]
  BY DEF Rotate, BuildInv
<1>2. IsInstr(code[Body[step]])
  <2>1. Len(code) \in Nat /\ \A k \in 1..Len(code) : IsInstr(code[k])
    BY <1>1, CodeOf
  <2>2. Body \in Seq(1..Len(code))
    BY <1>1, <2>1, BlockListed DEF Body
  <2> HIDE DEF Body
  <2>3. Body[step] \in 1..Len(code)
    BY <1>1, <2>2
  <2> QED BY <2>1, <2>3
<1>3. HasInstr(start)
  BY <1>2 DEF HasInstr
<1> HIDE DEF start
<1>4. HasInstr(s)
  BY <1>3, TurnIs
<1> HIDE DEF s
<1>5. IsCode(code') /\ Len(code') = Len(code)
  BY <1>1, <1>4, CodePut DEF HasInstr
<1>6. step' \in Nat \ {0} /\ phase' \notin Building
  BY <1>1 DEF Building
<1> QED BY <1>1, <1>5, <1>6, BuildLater

LEMMA CollectBuild ==
  ASSUME BuildInv, Collect
  PROVE  BuildInv'
<1>1. /\ UNCHANGED <<case, block>> /\ step' = 1 /\ phase' = "minimum"
      /\ IsCode(code)
      /\ code' = [i \in DOMAIN code |->
                    IF i \in ToSet(Body) THEN WithConstants(code[i]) ELSE code[i]]
  BY DEF Collect, Proceed, BuildInv
<1>2. Len(code) \in Nat /\ DOMAIN code = 1..Len(code)
      /\ \A k \in 1..Len(code) : IsInstr(code[k])
  BY <1>1, CodeOf
<1>3. code' = [k \in 1..Len(code) |-> code'[k]]
  BY <1>1, <1>2
<1>4. \A k \in 1..Len(code) : IsInstr(code'[k])
  BY <1>1, <1>2, ConstantsIs
<1>5. IsCode(code') /\ Len(code') = Len(code)
  BY <1>2, <1>3, <1>4, CodeMade
<1> QED BY <1>1, <1>5, BuildLater DEF Building

LEMMA BuildStep == BuildInv /\ [Next]_vars => BuildInv'
<1> SUFFICES ASSUME BuildInv, [Next]_vars PROVE BuildInv'
  OBVIOUS
<1>1. step \in Nat \ {0} /\ IsCode(code)
  BY DEF BuildInv
<1>2. ASSUME UNCHANGED <<case, code, block>>, step' \in Nat \ {0}, phase' \notin Building
      PROVE  BuildInv'
  BY <1>1, <1>2, BuildLater
<1>3. CASE (InitializeRegister \/ InitializeDone) /\ UNCHANGED <<streams, allocation, machine>>
  BY <1>3, InitializeBuild
<1>4. CASE StreamsNext
  <2>1. CASE DeclareStream
    BY <2>1, DeclareBuild
  <2>2. CASE DeclareDone
    <3>1. /\ phase = "declare" /\ step > Len(Model) /\ phase' = "streams" /\ step' = 1
          /\ UNCHANGED <<case, code, block, known, descriptors>>
      BY <2>2 DEF DeclareDone, Proceed, streams
    <3>2. /\ step \in 1..(Len(Model) + 1) /\ case \in Cases
          /\ descriptors \in Seq(ToSet(descriptors)) /\ Len(descriptors) = step - 1
          /\ IsKnown(known)
          /\ \A sid \in DOMAIN descriptors : IsStream(descriptors[sid], Width(sid), Adds)
      BY <3>1 DEF BuildInv, Building
    <3>3. Len(Model) \in Nat /\ Sids = 1..Len(Model)
      <4>1. case.model \in Seq([size : Nat \ {0}, ratio : Nat, stride : Nat,
                                streams : Nat \ {0}, shuffle : Nat \cup {-1}])
        BY <3>2, CasesAssumption
      <4> QED BY <4>1 DEF Sids, Model
    <3>4. DOMAIN descriptors = Sids
      BY <3>1, <3>2, <3>3
    <3>5. /\ Sids' = Sids /\ Adds' = Adds /\ \A sid : Width(sid)' = Width(sid)
      BY <3>1 DEF Sids, Model, Adds, Width, Sharing
    <3>6. \A sid \in Sids : IsStream(descriptors'[sid], Width(sid)', Adds')
      BY <3>1, <3>2, <3>4, <3>5
    <3> QED BY <3>1, <3>2, <3>4, <3>5, <3>6 DEF BuildInv, Building
  <2>3. CASE ModelOther
    BY <2>3, OtherBuild
  <2>4. CASE ModelAccess
    BY <2>4, AccessBuild
  <2>5. CASE ModelDone
    BY <1>2, <2>5 DEF ModelDone, Proceed, Building
  <2>6. CASE FinishStream
    <3>1. /\ phase = "finish" /\ UNCHANGED <<case, code, block>>
          /\ step' \in {step, step + 1} /\ phase' \in {"finish", "error"}
      BY <2>6 DEF FinishStream, Fails
    <3> QED BY <1>1, <1>2, <3>1 DEF Building
  <2>7. CASE FinishDone
    BY <1>2, <2>7 DEF FinishDone, Proceed, Building
  <2> QED BY <1>4, <2>1, <2>2, <2>3, <2>4, <2>5, <2>6, <2>7 DEF StreamsNext
<1>5. CASE NoHazardsNext
  <2>1. CASE Collect
    BY <2>1, CollectBuild
  <2>2. CASE Minimum
    BY <1>1, <1>2, <2>2 DEF Minimum, Building
  <2>3. CASE MinimumDone
    BY <1>2, <2>3 DEF MinimumDone, Proceed, Building
  <2>4. CASE Balance
    <3>1. /\ phase = "balance" /\ phase' = phase /\ UNCHANGED <<case, code, block>>
          /\ step' \in {step, step + 1}
      BY <2>4 DEF Balance
    <3> QED BY <1>1, <1>2, <3>1 DEF Building
  <2>5. CASE BalanceDone
    BY <1>2, <2>5 DEF BalanceDone, Proceed, Building
  <2>6. CASE Rotate
    BY <2>6, RotateBuild
  <2>7. CASE RotateDone
    BY <1>2, <2>7 DEF RotateDone, Proceed, Building
  <2> QED BY <1>5, <2>1, <2>2, <2>3, <2>4, <2>5, <2>6, <2>7 DEF NoHazardsNext
<1>6. CASE DefaultNext
  <2>1. CASE Shuffle
    BY <1>1, <1>2, <2>1 DEF Shuffle, building, Building
  <2>2. CASE Allocate
    BY <2>2, AllocateBuild
  <2>3. CASE AllocateDone
    BY <1>2, <2>3 DEF AllocateDone, Proceed, Building
  <2> QED BY <1>6, <2>1, <2>2, <2>3 DEF DefaultNext
<1>7. CASE Execute \/ NextLoop
  BY <1>1, <1>2, <1>7 DEF Execute, NextLoop, building, Building
<1>8. CASE UNCHANGED vars
  BY <1>8 DEF vars, building, streams, BuildInv, Building, Model, Sids, Sharing, Width,
              Adds, IsStream
<1> QED BY <1>3, <1>4, <1>5, <1>6, <1>7, <1>8 DEF Next

-----------------------------------------------------------------------------
(* The list of the last definitions: each register once.                   *)

Once(dict) == \A j, k \in DOMAIN dict : dict[j].reg = dict[k].reg => j = k

LEMMA OthersIs ==
  ASSUME NEW T, NEW dict \in Seq(T), Once(dict), NEW r
  PROVE  LET o == Others(dict, r)
         IN  /\ o \in Seq(T)
             /\ \E f \in [1..Len(o) -> DOMAIN dict] :
                  /\ \A k \in 1..Len(o) : o[k] = dict[f[k]] /\ dict[f[k]].reg # r
                  /\ \A j, k \in 1..Len(o) : f[j] = f[k] => j = k
                  /\ \A j \in DOMAIN dict : dict[j].reg # r => \E k \in 1..Len(o) : f[k] = j
<1> DEFINE E == Entries(dict, {r})
           o == Others(dict, r)
           Of(f) == /\ \A k \in 1..Len(o) : o[k] = dict[f[k]] /\ dict[f[k]].reg # r
                    /\ \A j, k \in 1..Len(o) : f[j] = f[k] => j = k
                    /\ \A j \in DOMAIN dict : dict[j].reg # r => \E k \in 1..Len(o) : f[k] = j
<1>1. DOMAIN dict = 1..Len(dict) /\ Len(dict) \in Nat
  OBVIOUS
<1>2. CASE E = {}
  <2> DEFINE f == [k \in 1..Len(dict) |-> k]
  <2>1. o = dict
    BY <1>2 DEF Others
  <2>2. \A k \in DOMAIN dict : dict[k].reg # r
    BY <1>2 DEF Entries
  <2> HIDE DEF o
  <2>3. f \in [1..Len(o) -> DOMAIN dict] /\ Of(f)
    BY <1>1, <2>1, <2>2
  <2> HIDE DEF f
  <2> QED BY <2>1, <2>3 DEF o
<1>3. CASE E # {}
  <2> DEFINE x == First(E)
             n == Len(dict) - 1
             f == [k \in 1..n |-> IF k < x THEN k ELSE k + 1]
  <2>1. x \in 1..Len(dict) /\ dict[x].reg = r
    <3>1. E \in SUBSET Nat
      BY <1>1 DEF Entries
    <3>2. x \in E
      BY <1>3, <3>1, FirstIn
    <3> QED BY <1>1, <3>2 DEF Entries
  <2>2. o = RemoveAt(dict, x)
    BY <1>3 DEF Others
  <2> HIDE DEF x, o
  <2>3. o \in Seq(T) /\ Len(o) = n
        /\ \A k \in 1..n : o[k] = dict[IF k < x THEN k ELSE k + 1]
    BY <2>1, <2>2, RemovedAt
  <2>4. f \in [1..n -> DOMAIN dict]
    BY <1>1, <2>1
  <2>5. \A k \in 1..n : f[k] # x /\ o[k] = dict[f[k]]
    BY <1>1, <2>1, <2>3
  <2>6. \A j, k \in 1..n : f[j] = f[k] => j = k
    BY <1>1, <2>1
  <2>7. ASSUME NEW j \in DOMAIN dict, dict[j].reg # r PROVE \E k \in 1..n : f[k] = j
    <3>1. j # x
      BY <2>1, <2>7
    <3>2. CASE j < x
      <4>1. j \in 1..n /\ f[j] = j
        BY <1>1, <2>1, <3>2
      <4> QED BY <4>1
    <3>3. CASE ~(j < x)
      <4>1. j - 1 \in 1..n /\ f[j - 1] = j
        BY <1>1, <2>1, <3>1, <3>3
      <4> QED BY <4>1
    <3> QED BY <3>2, <3>3
  <2> HIDE DEF f
  <2>8. \A k \in 1..n : dict[f[k]].reg # r
    BY <1>1, <2>1, <2>4, <2>5 DEF Once
  <2>9. f \in [1..Len(o) -> DOMAIN dict] /\ Of(f)
    BY <2>3, <2>4, <2>5, <2>6, <2>7, <2>8
  <2> QED BY <2>3, <2>9 DEF o
<1> QED BY <1>2, <1>3

LEMMA MovedIs ==
  ASSUME NEW T, NEW dict \in Seq(T), Once(dict), NEW r, NEW n
  PROVE  LET m == Moved(dict, r, n)
         IN  /\ m \in Seq(ToSet(m)) /\ Once(m)
             /\ \A k \in DOMAIN m : \/ m[k] = [reg |-> r, at |-> n]
                                    \/ \E j \in DOMAIN dict : m[k] = dict[j] /\ dict[j].reg # r
             /\ \A j \in DOMAIN dict : dict[j].reg # r => \E k \in DOMAIN m : m[k] = dict[j]
             /\ \E k \in DOMAIN m : m[k] = [reg |-> r, at |-> n]
<1> DEFINE o == Others(dict, r)
           e == [reg |-> r, at |-> n]
           m == Append(o, e)
           U == T \cup {e}
<1>1. o \in Seq(T)
  BY OthersIs
<1>2. PICK f \in [1..Len(o) -> DOMAIN dict] :
        /\ \A k \in 1..Len(o) : o[k] = dict[f[k]] /\ dict[f[k]].reg # r
        /\ \A j, k \in 1..Len(o) : f[j] = f[k] => j = k
        /\ \A j \in DOMAIN dict : dict[j].reg # r => \E k \in 1..Len(o) : f[k] = j
  BY OthersIs
<1>3. Moved(dict, r, n) = m
  BY DEF Moved
<1> HIDE DEF o
<1>4. e.reg = r
  OBVIOUS
<1> HIDE DEF e
<1>5. o \in Seq(U) /\ e \in U
  BY <1>1, SeqMonotonic
<1> HIDE DEF U
<1>6. /\ m \in Seq(U) /\ DOMAIN m = 1..(Len(o) + 1) /\ Len(o) \in Nat
      /\ \A k \in 1..Len(o) : m[k] = o[k]
      /\ m[Len(o) + 1] = e
  BY <1>5
<1> HIDE DEF m
<1>7. \A k \in DOMAIN m : k \in 1..Len(o) \/ k = Len(o) + 1
  BY <1>6
<1>8. m \in Seq(ToSet(m))
  <2>1. Len(m) \in Nat /\ m \in [1..Len(m) -> U]
    BY <1>6
  <2>2. \A k \in 1..Len(m) : m[k] \in ToSet(m)
    BY <2>1 DEF ToSet
  <2>3. m \in [1..Len(m) -> ToSet(m)]
    BY <2>1, <2>2
  <2> QED BY <2>1, <2>3
<1>9. Once(m)
  <2> SUFFICES ASSUME NEW j \in DOMAIN m, NEW k \in DOMAIN m, m[j].reg = m[k].reg
               PROVE  j = k
    BY DEF Once
  <2>1. CASE j \in 1..Len(o) /\ k \in 1..Len(o)
    <3>1. f[j] \in DOMAIN dict /\ f[k] \in DOMAIN dict
      BY <2>1
    <3>2. dict[f[j]].reg = dict[f[k]].reg
      BY <1>2, <1>6, <2>1
    <3> QED BY <1>2, <2>1, <3>1, <3>2 DEF Once
  <2> QED BY <1>2, <1>4, <1>6, <1>7, <2>1
<1>10. \A k \in DOMAIN m : m[k] = e \/ \E j \in DOMAIN dict : m[k] = dict[j] /\ dict[j].reg # r
  BY <1>2, <1>6, <1>7
<1>11. ASSUME NEW j \in DOMAIN dict, dict[j].reg # r
       PROVE  \E k \in DOMAIN m : m[k] = dict[j]
  <2>1. PICK k \in 1..Len(o) : f[k] = j
    BY <1>2, <1>11
  <2>2. k \in DOMAIN m /\ m[k] = dict[j]
    BY <1>2, <1>6, <2>1
  <2> QED BY <2>2
<1>12. Len(o) + 1 \in DOMAIN m
  BY <1>6
<1> QED BY <1>3, <1>6, <1>8, <1>9, <1>10, <1>11, <1>12 DEF e

-----------------------------------------------------------------------------
(* The distance: the list of the last definitions tells which registers an *)
(* instruction has set, and none after it.                                 *)

\* What the first n instructions have set is in the list, at the last of them
\* that has set it; and the list says nothing else. Nothing is said of registers
\* that are taken.
Tracks(dict, n, sets, taken) ==
    /\ dict \in Seq(ToSet(dict)) /\ Once(dict)
    /\ \A k \in DOMAIN dict :
         LET e == dict[k]
         IN  /\ e.at \in 0..n
             /\ e.at > 0 /\ e.reg \notin taken =>
                  /\ e.reg \in sets[e.at]
                  /\ \A j \in (e.at + 1)..n : e.reg \notin sets[j]
    /\ \A j \in 1..n : \A r \in sets[j] \ taken :
         (\A l \in (j + 1)..n : r \notin sets[l])
           => \E k \in DOMAIN dict : dict[k].reg = r /\ dict[k].at = j

LEMMA TracksKept ==
  ASSUME NEW n \in Nat \ {0}, NEW dict, NEW sets, NEW taken,
         Tracks(dict, n - 1, sets, taken),
         NEW more, \A j \in 1..(n - 1) : more[j] = sets[j], more[n] \subseteq taken
  PROVE  Tracks(dict, n, more, taken)
<1>1. /\ dict \in Seq(ToSet(dict)) /\ Once(dict)
      /\ \A k \in DOMAIN dict : dict[k].at \in 0..(n - 1)
  BY DEF Tracks
<1>2. ASSUME NEW k \in DOMAIN dict
      PROVE  /\ dict[k].at \in 0..n
             /\ dict[k].at > 0 /\ dict[k].reg \notin taken =>
                  /\ dict[k].reg \in more[dict[k].at]
                  /\ \A j \in (dict[k].at + 1)..n : dict[k].reg \notin more[j]
  <2>1. dict[k].at \in 0..(n - 1)
    BY <1>1
  <2>2. ASSUME dict[k].at > 0, dict[k].reg \notin taken
        PROVE  /\ dict[k].reg \in more[dict[k].at]
               /\ \A j \in (dict[k].at + 1)..n : dict[k].reg \notin more[j]
    <3>1. /\ dict[k].reg \in sets[dict[k].at]
          /\ \A j \in (dict[k].at + 1)..(n - 1) : dict[k].reg \notin sets[j]
      BY <2>2 DEF Tracks
    <3>2. dict[k].at \in 1..(n - 1)
      BY <2>1, <2>2
    <3>3. ASSUME NEW j \in (dict[k].at + 1)..n PROVE dict[k].reg \notin more[j]
      <4>1. CASE j = n
        BY <2>2, <4>1
      <4>2. CASE j # n
        <5>1. j \in (dict[k].at + 1)..(n - 1) /\ j \in 1..(n - 1)
          BY <3>2, <4>2
        <5> QED BY <3>1, <5>1
      <4> QED BY <4>1, <4>2
    <3> QED BY <3>1, <3>2, <3>3
  <2> QED BY <2>1, <2>2
<1>3. ASSUME NEW j \in 1..n, NEW r \in more[j] \ taken,
             \A l \in (j + 1)..n : r \notin more[l]
      PROVE  \E k \in DOMAIN dict : dict[k].reg = r /\ dict[k].at = j
  <2>1. j # n
    BY <1>3
  <2>2. j \in 1..(n - 1)
    BY <2>1
  <2>3. \A l \in (j + 1)..(n - 1) : l \in (j + 1)..n /\ l \in 1..(n - 1)
    BY <2>2
  <2>4. r \in sets[j] \ taken /\ \A l \in (j + 1)..(n - 1) : r \notin sets[l]
    BY <1>3, <2>2, <2>3
  <2> QED BY <2>2, <2>4 DEF Tracks
<1> QED BY <1>1, <1>2, <1>3 DEF Tracks

LEMMA TracksMoved ==
  ASSUME NEW n \in Nat \ {0}, NEW dict, NEW sets, NEW taken,
         Tracks(dict, n - 1, sets, taken),
         NEW more, \A j \in 1..(n - 1) : more[j] = sets[j],
         NEW v, more[n] \ taken = {v} \ taken
  PROVE  Tracks(Moved(dict, v, n), n, more, taken)
<1> DEFINE m == Moved(dict, v, n)
           e == [reg |-> v, at |-> n]
<1>1. /\ dict \in Seq(ToSet(dict)) /\ Once(dict)
      /\ \A k \in DOMAIN dict : dict[k].at \in 0..(n - 1)
  BY DEF Tracks
<1>2. /\ m \in Seq(ToSet(m)) /\ Once(m)
      /\ \A k \in DOMAIN m : m[k] = e \/ \E j \in DOMAIN dict : m[k] = dict[j] /\ dict[j].reg # v
      /\ \A j \in DOMAIN dict : dict[j].reg # v => \E k \in DOMAIN m : m[k] = dict[j]
      /\ \E k \in DOMAIN m : m[k] = e
  BY <1>1, MovedIs
<1>3. e.reg = v /\ e.at = n
  OBVIOUS
<1> HIDE DEF m, e
<1>4. ASSUME NEW k \in DOMAIN m
      PROVE  /\ m[k].at \in 0..n
             /\ m[k].at > 0 /\ m[k].reg \notin taken =>
                  /\ m[k].reg \in more[m[k].at]
                  /\ \A j \in (m[k].at + 1)..n : m[k].reg \notin more[j]
  <2>1. CASE m[k] = e
    BY <1>3, <2>1
  <2>2. ASSUME NEW j \in DOMAIN dict, dict[j].reg # v
        PROVE  /\ dict[j].at \in 0..n
               /\ dict[j].at > 0 /\ dict[j].reg \notin taken =>
                    /\ dict[j].reg \in more[dict[j].at]
                    /\ \A l \in (dict[j].at + 1)..n : dict[j].reg \notin more[l]
    <3>1. dict[j].at \in 0..(n - 1)
      BY <1>1
    <3>2. ASSUME dict[j].at > 0, dict[j].reg \notin taken
          PROVE  /\ dict[j].reg \in more[dict[j].at]
                 /\ \A l \in (dict[j].at + 1)..n : dict[j].reg \notin more[l]
      <4>1. /\ dict[j].reg \in sets[dict[j].at]
            /\ \A l \in (dict[j].at + 1)..(n - 1) : dict[j].reg \notin sets[l]
        BY <3>2 DEF Tracks
      <4>2. dict[j].at \in 1..(n - 1)
        BY <3>1, <3>2
      <4>3. ASSUME NEW l \in (dict[j].at + 1)..n PROVE dict[j].reg \notin more[l]
        <5>1. CASE l = n
          BY <2>2, <3>2, <5>1
        <5>2. CASE l # n
          <6>1. l \in (dict[j].at + 1)..(n - 1) /\ l \in 1..(n - 1)
            BY <4>2, <5>2
          <6> QED BY <4>1, <6>1
        <5> QED BY <5>1, <5>2
      <4> QED BY <4>1, <4>2, <4>3
    <3> QED BY <3>1, <3>2
  <2> QED BY <1>2, <2>1, <2>2
<1>5. ASSUME NEW j \in 1..n, NEW r \in more[j] \ taken,
             \A l \in (j + 1)..n : r \notin more[l]
      PROVE  \E k \in DOMAIN m : m[k].reg = r /\ m[k].at = j
  <2>1. CASE j = n
    <3>1. r = v
      BY <1>5, <2>1
    <3> QED BY <1>2, <1>3, <2>1, <3>1
  <2>2. CASE j # n
    <3>1. j \in 1..(n - 1) /\ n \in (j + 1)..n
      BY <2>2
    <3>2. \A l \in (j + 1)..(n - 1) : l \in (j + 1)..n /\ l \in 1..(n - 1)
      BY <3>1
    <3>3. r \in sets[j] \ taken /\ \A l \in (j + 1)..(n - 1) : r \notin sets[l]
      BY <1>5, <3>1, <3>2
    <3>4. PICK k \in DOMAIN dict : dict[k].reg = r /\ dict[k].at = j
      BY <3>1, <3>3 DEF Tracks
    <3>5. r # v
      BY <1>5, <3>1
    <3> QED BY <1>2, <3>4, <3>5
  <2> QED BY <2>1, <2>2
<1>6. Tracks(m, n, more, taken)
  BY <1>2, <1>4, <1>5 DEF Tracks
<1> QED BY <1>6 DEF m

\* A register chosen for the distance is one set there and not since, if there
\* is one.
LEMMA DistanceChosen ==
  ASSUME NEW d \in Nat \ {0}, step \in Nat, step > d, NEW sets,
         NEW op, op.regs \in SUBSET Nat, IsFiniteSet(op.regs),
         Tracks(lastdefined, step - 1, sets, reserved \cup {Unset}),
         NEW R, R = {r \in sets[step - d] \cap (op.regs \ reserved) :
                       \A j \in (step - d + 1)..(step - 1) : r \notin sets[j]},
         R # {}
  PROVE  ByDistance(Valid(op), d) \in R
<1> DEFINE there == {k \in Entries(lastdefined, Valid(op)) : lastdefined[k].at = step - d}
           n == step - d
           taken == reserved \cup {Unset}
<1>1. PICK r : r \in R
  OBVIOUS
<1>2. n \in 1..(step - 1) /\ op.regs \in SUBSET Nat /\ Unset \notin op.regs
  <2>1. Unset \notin Nat
    BY SMT DEF Unset
  <2> QED BY <2>1
<1>3. /\ lastdefined \in Seq(ToSet(lastdefined))
      /\ \A k \in DOMAIN lastdefined :
           lastdefined[k].at > 0 /\ lastdefined[k].reg \notin taken =>
              /\ lastdefined[k].reg \in sets[lastdefined[k].at]
              /\ \A j \in (lastdefined[k].at + 1)..(step - 1) : lastdefined[k].reg \notin sets[j]
  BY DEF Tracks
<1>4. r \in op.regs \ reserved /\ r \in sets[n] \ taken
      /\ \A j \in (n + 1)..(step - 1) : r \notin sets[j]
  BY <1>1, <1>2
<1>5. Valid(op) \subseteq op.regs /\ r \in Valid(op)
  BY <1>4 DEF Valid
<1>6. ASSUME NEW q \in Valid(op) PROVE q \notin reserved
  <2>1. CASE Constant(op)
    <3>1. PICK c : op.regs = {c}
      BY <2>1, FS_Singleton DEF Constant
    <3> QED BY <1>4, <1>5, <1>6, <3>1
  <2>2. CASE ~Constant(op)
    BY <1>4, <1>6, <2>2 DEF Valid
  <2> QED BY <2>1, <2>2
<1>7. PICK k \in DOMAIN lastdefined : lastdefined[k].reg = r /\ lastdefined[k].at = n
  BY <1>2, <1>4 DEF Tracks
<1>8. there \in SUBSET Nat /\ k \in there
  <2>1. DOMAIN lastdefined \subseteq Nat
    BY <1>3
  <2> QED BY <1>5, <1>7, <2>1 DEF Entries
<1>9. First(there) \in there
  BY <1>8, FirstIn
<1>10. ByDistance(Valid(op), d) = lastdefined[First(there)].reg
  BY <1>8 DEF ByDistance
<1> DEFINE f == First(there)
<1>11. f \in DOMAIN lastdefined /\ lastdefined[f].reg \in Valid(op) /\ lastdefined[f].at = n
  BY <1>9 DEF Entries
<1> HIDE DEF f, there
<1>12. lastdefined[f].reg \in op.regs \ reserved /\ lastdefined[f].reg \notin taken
  BY <1>2, <1>5, <1>6, <1>11
<1>13. /\ lastdefined[f].reg \in sets[n]
       /\ \A j \in (n + 1)..(step - 1) : lastdefined[f].reg \notin sets[j]
  BY <1>2, <1>3, <1>11, <1>12
<1> QED BY <1>10, <1>12, <1>13 DEF f

-----------------------------------------------------------------------------
(* The invariant                                                           *)

\* What each instruction of the loop sets, in the order of the loop
SetsOf == [j \in 1..Len(Body) |-> SetBy(code[Body[j]])]

DistanceInv ==
    /\ phase \notin After => lastused = <<>>
    /\ phase = "default" =>
         /\ step \in 1..(Len(Body) + 1)
         /\ lastused # <<>> =>
              Tracks(lastdefined, step - 1, SetsOf, reserved \cup {Unset})
         /\ \A j \in 1..(step - 1) : Body[j] \in DOMAIN slots
    /\ DistanceKept

LEMMA BodyIs ==
  ASSUME BuildInv
  PROVE  /\ Len(Body) \in Nat /\ case.dd \in Nat
         /\ \A j \in 1..Len(Body) : Body[j] \in DOMAIN code /\ IsInstr(code[Body[j]])
         /\ \A j, k \in 1..Len(Body) : Body[j] = Body[k] => j = k
<1>1. /\ Len(code) \in Nat /\ DOMAIN code = 1..Len(code)
      /\ \A k \in 1..Len(code) : IsInstr(code[k])
  BY CodeOf DEF BuildInv
<1>2. /\ Body \in Seq(1..Len(code))
      /\ \A j, k \in 1..Len(Body) : Body[j] = Body[k] => j = k
  BY <1>1, BlockListed DEF Body, BuildInv
<1>3. case.dd \in Nat
  BY CasesAssumption DEF BuildInv
<1> HIDE DEF Body
<1>4. Len(Body) \in Nat /\ \A j \in 1..Len(Body) : Body[j] \in 1..Len(code)
  BY <1>2
<1> QED BY <1>1, <1>2, <1>3, <1>4

\* Other passes and the machine leave what the distance needs alone.
LEMMA DistanceBefore ==
  ASSUME DistanceInv, BuildInv, UNCHANGED lastused, UNCHANGED block, step' = 1,
         phase \notin After, case' = case
  PROVE  DistanceInv'
<1>1. lastused' = <<>>
  BY DEF DistanceInv
<1>2. Len(Body) \in Nat /\ Body' = Body /\ case'.dd \in Nat
  BY BodyIs DEF Body
<1>3. DistanceKept'
  <2>1. \A t \in (case'.dd + 1)..(step' - 1) : FALSE
    BY <1>2
  <2> QED BY <2>1 DEF DistanceKept
<1>4. step' \in 1..(Len(Body) + 1) /\ \A j \in 1..(step' - 1) : FALSE
  BY <1>2
<1> QED BY <1>1, <1>2, <1>3, <1>4 DEF DistanceInv

LEMMA DistanceOutside ==
  ASSUME DistanceInv, phase' # "default", phase \notin After => UNCHANGED lastused,
         phase' \notin After => phase \notin After
  PROVE  DistanceInv'
BY DEF DistanceInv, DistanceKept

LEMMA DistanceSame ==
  ASSUME DistanceInv,
         UNCHANGED <<case, phase, step, code, block, reserved, lastdefined, lastused, slots>>
  PROVE  DistanceInv'
<1>1. Body' = Body
  BY DEF Body
<1>2. SetsOf' = SetsOf
  BY <1>1 DEF SetsOf
<1>3. DistanceKept' <=> DistanceKept
  BY <1>1 DEF DistanceKept, SetAtDistance
<1> QED BY <1>1, <1>2, <1>3 DEF DistanceInv

\* Before the first instruction nothing is set.
LEMMA ShuffleTracks ==
  ASSUME DistanceInv, BuildInv, Shuffle
  PROVE  DistanceInv'
<1>1. /\ phase = "default" /\ step = 1
      /\ UNCHANGED <<case, phase, step, code, block, reserved, slots>>
  BY DEF Shuffle, building
<1>2. PICK rank \in Ranks :
        LET order == SortedBy(Regs \ reserved, LAMBDA r : rank[r])
        IN  lastdefined' = [k \in DOMAIN order |-> [reg |-> order[k], at |-> 0]]
  BY DEF Shuffle
<1> DEFINE S == Regs \ reserved
           order == SortedBy(S, LAMBDA r : rank[r])
           n == Cardinality(S)
<1>3. /\ rank \in [Regs -> Nat] /\ \A q, r \in Regs : rank[q] = rank[r] => q = r
  BY RanksAssumption
<1>4. /\ n \in Nat /\ order = [k \in 1..n |-> order[k]]
      /\ \A k \in 1..n : order[k] \in S
      /\ \A j, k \in 1..n : order[j] = order[k] => j = k
  BY <1>3, RankedOrder
<1>5. lastdefined' = [k \in DOMAIN order |-> [reg |-> order[k], at |-> 0]]
  BY <1>2
<1> HIDE DEF order, n
<1>6. lastdefined' = [k \in 1..n |-> [reg |-> order[k], at |-> 0]]
  BY <1>4, <1>5
<1> DEFINE d == [k \in 1..n |-> [reg |-> order[k], at |-> 0]]
<1>7. /\ DOMAIN d = 1..n /\ \A k \in 1..n : d[k].reg = order[k] /\ d[k].at = 0
      /\ d = [k \in 1..n |-> d[k]]
  OBVIOUS
<1> HIDE DEF d
<1>8. d \in Seq(ToSet(d)) /\ Once(d)
  <2>1. d \in [1..n -> ToSet(d)]
    BY <1>7 DEF ToSet
  <2> QED BY <1>4, <1>7, <2>1 DEF Once
<1>9. \A sets, taken : Tracks(d, 1 - 1, sets, taken)
  BY <1>7, <1>8 DEF Tracks
<1>10. Len(Body) \in Nat /\ Body' = Body /\ case'.dd \in Nat
  BY <1>1, BodyIs DEF Body
<1>11. DistanceKept'
  <2>1. \A t \in (case'.dd + 1)..(step' - 1) : FALSE
    BY <1>1, <1>10
  <2> QED BY <2>1 DEF DistanceKept
<1>12. Tracks(lastdefined', step' - 1, SetsOf', reserved' \cup {Unset})
  BY <1>1, <1>6, <1>9 DEF d
<1> HIDE DEF Tracks
<1>13. step' \in 1..(Len(Body') + 1) /\ \A j \in 1..(step' - 1) : FALSE
  BY <1>1, <1>10
<1> QED BY <1>1, <1>11, <1>12, <1>13 DEF DistanceInv, After

\* Operands are registers. (The stack's is register 2.)
LEMMA OperandRegs ==
  ASSUME NEW k \in DOMAIN Operands, NEW o \in DOMAIN Operands[k]
  PROVE  Operands[k][o].regs \in SUBSET Nat /\ IsFiniteSet(Operands[k][o].regs)
<1> DEFINE Types == {Imm, Use, Def, Mod, Stack, UseC, ModC}
           F == {T \in SUBSET Nat : IsFiniteSet(T)}
<1>1. \A t \in Types : t.regs \in {{}, Regs, Regs \ {0}, {2}, Regs \cap Compressed}
  BY DEF Imm, Use, Def, Mod, Stack, UseC, ModC
<1>2. \A S \in {{}, Regs, Regs \ {0}, {2}, Regs \cap Compressed} :
         S \in SUBSET Nat /\ IsFiniteSet(S)
  <2>1. IsFiniteSet(Regs) /\ Regs \in SUBSET Nat
    BY RiscvAssumption
  <2>2. IsFiniteSet({}) /\ IsFiniteSet({2})
    BY FS_EmptySet, FS_Singleton
  <2>3. IsFiniteSet(Regs \ {0}) /\ IsFiniteSet(Regs \cap Compressed)
    BY <2>1, FS_Subset
  <2>4. {2} \in SUBSET Nat /\ {} \in SUBSET Nat /\ Regs \ {0} \in SUBSET Nat
    BY <2>1
  <2>7. (Regs \cap Compressed) \in SUBSET Nat
    BY <2>1
  <2>5. {} \in F /\ Regs \in F /\ Regs \ {0} \in F /\ {2} \in F /\ (Regs \cap Compressed) \in F
    BY <2>1, <2>2, <2>3, <2>4, <2>7
  <2>6. \A S \in F : S \in SUBSET Nat /\ IsFiniteSet(S)
    OBVIOUS
  <2> HIDE DEF F
  <2> QED BY <2>5, <2>6
<1>3. Operands[k][o] \in Types
  <2>1. /\ Imm \in Types /\ Use \in Types /\ Def \in Types /\ Mod \in Types /\ Stack \in Types
        /\ UseC \in Types /\ ModC \in Types
    OBVIOUS
  <2> HIDE DEF Types
  <2>2. ASSUME NEW a \in Types, NEW b \in Types, NEW c \in Types, Operands[k] = <<a, b, c>>
        PROVE  Operands[k][o] \in Types
    <3>1. o \in 1..3
      BY <2>2
    <3> QED BY <2>2, <3>1
  <2>3. ASSUME NEW a \in Types, NEW b \in Types, Operands[k] = <<a, b>>
        PROVE  Operands[k][o] \in Types
    <3>1. o \in 1..2
      BY <2>3
    <3> QED BY <2>3, <3>1
  <2> QED BY <2>1, <2>2, <2>3, KindsAre
<1> HIDE DEF Types
<1> QED BY <1>1, <1>2, <1>3

\* What an instruction sets is what goes to the end of the list, or is reserved.
LEMMA DefinedIs ==
  ASSUME NEW s, NEW i, IsInstr(i), NEW n, HasChoice(s, i, n)
  PROVE  \/ DefinedAfter(s) = lastdefined /\ SetBy(s.instr) \subseteq reserved \cup {Unset}
         \/ \E v : /\ DefinedAfter(s) = Moved(lastdefined, v, step)
                   /\ SetBy(s.instr) \ (reserved \cup {Unset}) = {v} \ (reserved \cup {Unset})
<1> DEFINE S == SetBy(s.instr)
           ops == Operands[s.instr.kind]
           more == S \ (s.set \cup reserved)
<1>1. /\ IsInstr(s.instr) /\ s.instr.kind = i.kind
      /\ s.instr.kind \in DOMAIN Operands /\ DOMAIN s.instr.val = DOMAIN ops
  BY DEF HasChoice, IsInstr
<1>2. S = {s.instr.val[o] : o \in {p \in DOMAIN ops : ops[p].out}} \ {Unset}
  BY <1>1 DEF SetBy
<1>3. ASSUME NEW p \in DOMAIN ops, ops[p].out PROVE S = {s.instr.val[p]} \ {Unset}
  <2>1. \A o \in DOMAIN ops : ops[o].out => o = p
    BY <1>1, <1>3, OneOut
  <2> HIDE DEF S, ops
  <2>2. {o \in DOMAIN ops : ops[o].out} = {p}
    BY <1>3, <2>1
  <2> QED BY <1>2, <2>2
<1>4. ASSUME NEW v \in S PROVE S = {v}
  <2>1. PICK p \in DOMAIN ops : ops[p].out /\ v = s.instr.val[p]
    BY <1>2
  <2> HIDE DEF S, ops
  <2> QED BY <1>3, <1>4, <2>1
<1>5. DefinedAfter(s) = IF more = {} THEN s.defined
                        ELSE Moved(s.defined, CHOOSE r \in more : TRUE, step)
  BY DEF DefinedAfter
<1> HIDE DEF S
<1>6. CASE s.set = {} /\ s.defined = lastdefined
  <2>1. CASE more = {}
    BY <1>5, <1>6, <2>1 DEF S
  <2>2. CASE more # {}
    <3> DEFINE v == CHOOSE r \in more : TRUE
    <3>1. v \in more
      BY <2>2
    <3> HIDE DEF v
    <3>2. S = {v}
      BY <1>4, <3>1
    <3>3. DefinedAfter(s) = Moved(lastdefined, v, step)
      BY <1>5, <1>6, <2>2 DEF v
    <3> QED BY <3>2, <3>3 DEF S
  <2> QED BY <2>1, <2>2
<1>7. ASSUME NEW p \in DOMAIN Operands[i.kind], Operands[i.kind][p].out,
             s.set = {s.instr.val[p]},
             s.defined = Moved(lastdefined, s.instr.val[p], step)
      PROVE  /\ DefinedAfter(s) = Moved(lastdefined, s.instr.val[p], step)
             /\ S \ (reserved \cup {Unset}) = {s.instr.val[p]} \ (reserved \cup {Unset})
  <2>1. S = {s.instr.val[p]} \ {Unset}
    BY <1>1, <1>3, <1>7
  <2>2. more = {}
    BY <1>7, <2>1
  <2> QED BY <1>5, <1>7, <2>1, <2>2
<1> QED BY <1>6, <1>7 DEF HasChoice, S

LEMMA AllocateDistance ==
  ASSUME DistanceInv, BuildInv, Allocate
  PROVE  DistanceInv'
<1> DEFINE i == code[Body[step]]
           taken == reserved \cup {Unset}
<1>1. /\ phase = "default" /\ step <= Len(Body) /\ lastused # <<>>
      /\ UNCHANGED <<case, block, reserved>>
  BY DEF Allocate
<1>2. /\ step \in 1..Len(Body) /\ Tracks(lastdefined, step - 1, SetsOf, taken)
      /\ \A j \in 1..(step - 1) : Body[j] \in DOMAIN slots
      /\ DistanceKept
  BY <1>1 DEF DistanceInv, BuildInv
<1>3. /\ Len(Body) \in Nat /\ Body' = Body /\ case.dd \in Nat
      /\ \A j \in 1..Len(Body) : Body[j] \in DOMAIN code /\ IsInstr(code[Body[j]])
      /\ \A j, k \in 1..Len(Body) : Body[j] = Body[k] => j = k
  BY <1>1, BodyIs DEF Body
<1>4. CASE Fails
  BY <1>1, <1>4, DistanceOutside DEF Fails, After
<1>5. CASE ~Fails
  <2>1. PICK s \in Choosing(i, 3, Choosing(i, 2, Choosing(i, 1, {Start(i)}))) :
           /\ code' = [code EXCEPT ![Body[step]] = s.instr]
           /\ lastdefined' = DefinedAfter(s)
           /\ slots' = [k \in DOMAIN slots \cup {Body[step]} |->
                          IF k = Body[step] THEN s.slot ELSE slots[k]]
           /\ step' = step + 1 /\ phase' = phase
    BY <1>5 DEF Allocate, Start
  <2>2. IsInstr(i) /\ HasChoice(s, i, 3)
    BY <1>2, <1>3, <2>1, OutcomesIs
  <2> HIDE DEF i
  <2>3. /\ code'[Body[step]] = s.instr
        /\ \A j \in 1..(step - 1) : code'[Body[j]] = code[Body[j]]
    BY <1>2, <1>3, <2>1
  <2>4. /\ Body[step] \in DOMAIN slots' /\ slots'[Body[step]] = s.slot
        /\ \A j \in 1..(step - 1) : /\ Body[j] \in DOMAIN slots'
                                    /\ slots'[Body[j]] = slots[Body[j]]
    BY <1>2, <1>3, <2>1
  <2>5. /\ \A j \in 1..Len(Body) : SetsOf[j] = SetBy(code[Body[j]])
        /\ \A j \in 1..Len(Body) : SetsOf'[j] = SetBy(code'[Body[j]])
    BY <1>3 DEF SetsOf
  <2>6. /\ SetsOf'[step] = SetBy(s.instr)
        /\ \A j \in 1..(step - 1) : SetsOf'[j] = SetsOf[j]
    BY <1>2, <1>3, <2>3, <2>5
  <2>7. Tracks(lastdefined', step, SetsOf', taken)
    <3> DEFINE sets == SetsOf
               more == SetsOf'
    <3> HIDE DEF sets, more, taken
    <3>1. /\ step \in Nat \ {0} /\ Tracks(lastdefined, step - 1, sets, taken)
          /\ \A j \in 1..(step - 1) : more[j] = sets[j]
      BY <1>2, <1>3, <2>6 DEF sets, more
    <3>2. \/ DefinedAfter(s) = lastdefined /\ more[step] \subseteq taken
          \/ \E v : /\ DefinedAfter(s) = Moved(lastdefined, v, step)
                    /\ more[step] \ taken = {v} \ taken
      BY <2>2, <2>6, DefinedIs DEF more, taken
    <3>3. Tracks(DefinedAfter(s), step, more, taken)
      BY <3>1, <3>2, TracksKept, TracksMoved
    <3> QED BY <2>1, <3>3 DEF more
  <2>8. DistanceKept'
    <3> SUFFICES ASSUME case.dd > 0, NEW t \in (case.dd + 1)..step, NEW slot, NEW op,
                        slot = slots'[Body[t]], slot # NoSlot,
                        op = Operands[code'[Body[t]].kind][slot.operand],
                        SetAtDistance(t, op)' # {}
                 PROVE  slot.reg \in SetAtDistance(t, op)'
      <4>1. case'.dd = case.dd /\ step' - 1 = step
        BY <1>1, <1>2, <1>3, <2>1
      <4> QED BY <1>3, <4>1 DEF DistanceKept
    <3> DEFINE d == case.dd
    <3>1. d \in Nat \ {0} /\ step \in Nat /\ t \in (d + 1)..step
      BY <1>2, <1>3
    <3>2. SetAtDistance(t, op)' =
            {r \in SetBy(code'[Body[t - d]]) \cap (op.regs \ reserved) :
               \A j \in (t - d + 1)..(t - 1) : r \notin SetBy(code'[Body[j]])}
      BY <1>1, <1>3 DEF SetAtDistance
    <3>3. /\ t - d \in 1..(step - 1)
          /\ \A j \in (t - d + 1)..(t - 1) : j \in 1..(step - 1)
      BY <3>1
    <3>4. SetAtDistance(t, op)' =
            {r \in SetBy(code[Body[t - d]]) \cap (op.regs \ reserved) :
               \A j \in (t - d + 1)..(t - 1) : r \notin SetBy(code[Body[j]])}
      BY <2>3, <3>2, <3>3
    <3>5. SetAtDistance(t, op)' = SetAtDistance(t, op)
      BY <3>4 DEF SetAtDistance
    <3>6. CASE t # step
      <4>1. t \in 1..(step - 1) /\ t \in (d + 1)..(step - 1)
        BY <3>1, <3>6
      <4>2. slot = slots[Body[t]] /\ op = Operands[code[Body[t]].kind][slot.operand]
        BY <2>3, <2>4, <4>1
      <4> QED BY <1>1, <1>2, <3>5, <4>1, <4>2 DEF DistanceKept
    <3>7. CASE t = step
      <4>1. slot = s.slot /\ op = Operands[i.kind][slot.operand]
        BY <2>2, <2>3, <2>4, <3>7 DEF HasChoice
      <4>2. /\ step > d /\ slot.operand \in DOMAIN Operands[i.kind]
            /\ slot.reg = ByDistance(Valid(op), d)
        BY <2>2, <4>1 DEF HasChoice
      <4>3. op.regs \in SUBSET Nat /\ IsFiniteSet(op.regs)
        BY <2>2, <4>1, <4>2, OperandRegs DEF IsInstr
      <4> DEFINE sets == SetsOf
                 R == {r \in sets[step - d] \cap (op.regs \ reserved) :
                         \A j \in (step - d + 1)..(step - 1) : r \notin sets[j]}
      <4>4. SetAtDistance(t, op)' = R
        <5>1. \A j \in 1..(step - 1) : sets[j] = SetBy(code[Body[j]])
          BY <1>2, <1>3, <2>5
        <5>2. step - d \in 1..(step - 1)
              /\ \A j \in (step - d + 1)..(step - 1) : j \in 1..(step - 1)
          BY <3>3, <3>7
        <5>3. SetAtDistance(t, op)' =
                {r \in SetBy(code[Body[step - d]]) \cap (op.regs \ reserved) :
                   \A j \in (step - d + 1)..(step - 1) : r \notin SetBy(code[Body[j]])}
          BY <3>4, <3>7
        <5> HIDE DEF sets
        <5> QED BY <5>1, <5>2, <5>3
      <4> HIDE DEF R
      <4>5. ByDistance(Valid(op), d) \in R
        <5>1. /\ R = {r \in sets[step - d] \cap (op.regs \ reserved) :
                        \A j \in (step - d + 1)..(step - 1) : r \notin sets[j]}
              /\ R # {} /\ Tracks(lastdefined, step - 1, sets, reserved \cup {Unset})
          BY <1>2, <4>4 DEF R
        <5>2. step > d
          BY <4>2
        <5> HIDE DEF sets, d, R
        <5> QED BY <3>1, <4>3, <5>1, <5>2, DistanceChosen
      <4> QED BY <4>2, <4>4, <4>5
    <3> QED BY <3>6, <3>7
  <2> QED BY <1>1, <1>2, <1>3, <2>1, <2>4, <2>7, <2>8 DEF DistanceInv, After
<1> QED BY <1>4, <1>5

LEMMA DistanceInit == BuildInv /\ Init => DistanceInv
BY DEF Init, InitBuilding, InitAllocation, DistanceInv, DistanceKept, After

\* The streams' pass ends before the registers are allocated.
LEMMA StreamsDefault ==
  ASSUME StreamsNext, phase' = "default"
  PROVE  step' = 1 /\ UNCHANGED <<case, block>>
<1>1. CASE DeclareStream
  BY <1>1 DEF DeclareStream, Fails
<1>2. CASE DeclareDone
  BY <1>2 DEF DeclareDone, Proceed
<1>3. CASE ModelOther
  BY <1>3 DEF ModelOther, Modelling, Modelled
<1>4. CASE ModelAccess
  BY <1>4 DEF ModelAccess, Modelling, Modelled
<1>5. CASE ModelDone
  BY <1>5 DEF ModelDone, Proceed
<1>6. CASE FinishStream
  BY <1>6 DEF FinishStream, Fails
<1>7. CASE FinishDone
  BY <1>7 DEF FinishDone, Proceed
<1> QED BY <1>1, <1>2, <1>3, <1>4, <1>5, <1>6, <1>7 DEF StreamsNext

LEMMA DistanceStep ==
  BuildInv /\ DistanceInv /\ [Next]_vars => DistanceInv'
<1> SUFFICES ASSUME BuildInv, DistanceInv, [Next]_vars PROVE DistanceInv'
  OBVIOUS
<1>1. CASE (InitializeRegister \/ InitializeDone) /\ UNCHANGED <<streams, allocation, machine>>
  <2>1. phase \notin After /\ UNCHANGED lastused
    BY <1>1 DEF InitializeRegister, InitializeDone, allocation, After
  <2>2. phase' = "default" => step' = 1 /\ UNCHANGED <<case, block>>
    BY <1>1 DEF InitializeRegister, InitializeDone, Proceed
  <2> QED BY <2>1, <2>2, DistanceBefore, DistanceOutside
<1>2. CASE StreamsNext /\ UNCHANGED <<allocation, machine>>
  <2>1. phase \notin After /\ UNCHANGED lastused
    BY <1>2, StreamsPhases DEF allocation, Before, After
  <2> QED BY <1>2, <2>1, StreamsDefault, DistanceBefore, DistanceOutside
<1>3. CASE NoHazardsNext
  <2>1. phase \notin After /\ UNCHANGED lastused
    BY <1>3 DEF NoHazardsNext, Collect, Minimum, MinimumDone, Balance, BalanceDone, Rotate,
                RotateDone, allocation, After
  <2>2. phase' = "default" => step' = 1 /\ UNCHANGED <<case, block>>
    BY <1>3 DEF NoHazardsNext, Collect, Minimum, MinimumDone, Balance, BalanceDone, Rotate,
                RotateDone, Proceed
  <2> QED BY <2>1, <2>2, DistanceBefore, DistanceOutside
<1>4. CASE DefaultNext
  <2>1. CASE Shuffle
    BY <2>1, ShuffleTracks
  <2>2. CASE Allocate
    BY <2>2, AllocateDistance
  <2>3. CASE AllocateDone
    BY <2>3, DistanceOutside DEF AllocateDone, Proceed, After
  <2> QED BY <1>4, <2>1, <2>2, <2>3 DEF DefaultNext
<1>5. CASE (Execute \/ NextLoop) /\ UNCHANGED <<streams, allocation>>
  <2>1. phase = "run" /\ UNCHANGED phase
    BY <1>5 DEF Execute, NextLoop, building
  <2> QED BY <2>1, DistanceOutside DEF After
<1>6. CASE UNCHANGED vars
  BY <1>6, DistanceSame DEF vars, building, allocation
<1> QED BY <1>1, <1>2, <1>3, <1>4, <1>5, <1>6 DEF Next

\* For any registers, loops and streams: an instruction with a source to choose
\* depends on the instruction at the dependency distance before it, if that one
\* has set a register that can be chosen and is still there
\* (DefaultRegisterAllocationPass, dd).
THEOREM DependencyKept == Spec => []DistanceKept
<1>1. Spec => []BuildInv
  BY BuildInit, BuildStep, PTL DEF Spec
<1>2. Spec => []DistanceInv
  BY <1>1, BuildInit, DistanceInit, DistanceStep, PTL DEF Spec
<1>3. DistanceInv => DistanceKept
  BY DEF DistanceInv
<1> QED BY <1>2, <1>3, PTL

-----------------------------------------------------------------------------
(* The lists of registers, from step to step.                              *)

LEMMA FixedIs ==
  ASSUME NEW k \in DOMAIN Operands, NEW o \in DOMAIN Operands[k],
         Constant(Operands[k][o]), First(Operands[k][o].regs) \in Regs
  PROVE  First(Operands[k][o].regs) \in Fixed
<1> DEFINE S == Operands[k][o].regs
<1>1. S \in SUBSET Nat /\ IsFiniteSet(S) /\ Cardinality(S) = 1
  BY OperandRegs DEF Constant
<1>2. PICK x : S = {x}
  BY <1>1, FS_Singleton
<1>3. First(S) \in S
  BY <1>1, <1>2, FirstIn
<1>4. S = {First(S)}
  BY <1>2, <1>3
<1> QED BY <1>4 DEF Fixed

LEMMA BodyInstr ==
  ASSUME BuildInv, step <= Len(Body)
  PROVE  IsInstr(code[Body[step]])
<1>1. step \in 1..Len(Body)
  BY BodyIs DEF BuildInv
<1> QED BY <1>1, BodyIs

LEMMA TurnKeeps ==
  ASSUME NEW s, Turning(s), HasInstr(s), NEW o
  PROVE  Turning(Turn(s, o))
<1> DEFINE op == Operands[s.instr.kind][o]
           r == s.instr.val[o]
           constant == ConstantTurn(s.queues, op)
           preset == PresetTurn(s.queues, op, r)
<1>1. \/ Turn(s, o) = s
      \/ /\ o \in RegOperands(s.instr) /\ Constant(op)
         /\ Turn(s, o) = [s EXCEPT !.queues = constant]
      \/ Turn(s, o) = [s EXCEPT !.queues = preset]
      \/ Turn(s, o) = FreeTurn(s, o, op)
  BY DEF Turn, Turning
<1>0. o \in RegOperands(s.instr) /\ Constant(op) /\ First(op.regs) \in Regs
        => First(op.regs) \in Fixed
  <2>1. s.instr.kind \in DOMAIN Operands
        /\ (o \in RegOperands(s.instr) => o \in DOMAIN Operands[s.instr.kind])
    BY DEF HasInstr, IsInstr, RegOperands
  <2> QED BY <2>1, FixedIs
<1> HIDE DEF op, r
<1>2. \A q \in Queues : Shrinks(s.queues, q) => Turning([s EXCEPT !.queues = q])
  BY ShrinksApart DEF Turning
<1>3. s.queues \in Queues
  BY DEF Turning
<1>4. o \in RegOperands(s.instr) /\ Constant(op)
        => constant \in Queues /\ Shrinks(s.queues, constant)
  BY <1>0, <1>3, ConstantShrinks
<1>5. preset \in Queues /\ Shrinks(s.queues, preset)
  BY <1>3, PresetShrinks
<1>6. Turning(FreeTurn(s, o, op))
  BY FreeKeeps
<1> HIDE DEF constant, preset
<1> QED BY <1>1, <1>2, <1>4, <1>5, <1>6

LEMMA NoHazardsStep ==
  ASSUME BuildInv, HazardInv, NoHazardsNext
  PROVE  HazardInv'
<1>1. CASE Collect
  <2> DEFINE instrs == {code'[i] : i \in ToSet(Body)} \cup ToSet(fini)
             of(class) == Preset(instrs, class) \ reserved
  <2>1. /\ phase = "collect" /\ phase' = "minimum" /\ picks' = picks
        /\ pools' = [in |-> of("in"), io |-> of("io"), out |-> of("out")]
        /\ shared' = \E a, b \in DOMAIN pools' : a # b /\ pools'[a] \cap pools'[b] # {}
    BY <1>1 DEF Collect, Proceed
  <2>2. \A class : of(class) \in SUBSET Regs
    BY DEF Preset
  <2> HIDE DEF of
  <2>3. pools' \in Pools /\ (~shared' => Apart(pools'))
    BY <2>1, <2>2, PoolsOf
  <2> QED BY <2>1, <2>3 DEF HazardInv, Before, After
<1>2. CASE Minimum
  <2> DEFINE i == code[Body[step]]
             Good(P) == \A p \in P : p \in Pools /\ (~shared => Apart(p))
  <2>1. /\ phase = "minimum" /\ UNCHANGED <<phase, shared, picks>>
        /\ pools' \in Pooling(i, 3, Pooling(i, 2, Pooling(i, 1, {pools})))
    BY <1>2 DEF Minimum
  <2>2. Good({pools})
    BY <2>1 DEF HazardInv
  <2>3. \A o, P : Good(P) => Good(Pooling(i, o, P))
    BY PoolingApart
  <2> HIDE DEF i
  <2>4. Good(Pooling(i, 1, {pools}))
    BY <2>2, <2>3
  <2>5. Good(Pooling(i, 2, Pooling(i, 1, {pools})))
    BY <2>3, <2>4
  <2>6. Good(Pooling(i, 3, Pooling(i, 2, Pooling(i, 1, {pools}))))
    BY <2>3, <2>5
  <2>7. pools' \in Pools /\ (~shared => Apart(pools'))
    BY <2>1, <2>6
  <2> QED BY <2>1, <2>7 DEF HazardInv, Before, After
<1>3. CASE MinimumDone
  <2>1. /\ phase = "minimum" /\ phase' = "balance" /\ step' = 1
        /\ UNCHANGED <<pools, shared, picks>>
        /\ queues' = [class \in DOMAIN pools |-> Sorted(pools[class])]
    BY <1>3 DEF MinimumDone, Proceed
  <2>2. pools \in Pools /\ (~shared => Apart(pools))
    BY <2>1 DEF HazardInv
  <2>3. queues' \in Queues /\ (~shared => QueuesApart(queues'))
    BY <2>1, <2>2, ListsOf
  <2> QED BY <2>1, <2>3 DEF HazardInv, Before, After
<1>4. CASE Balance
  <2>1. /\ phase = "balance" /\ UNCHANGED <<phase, pools, shared, picks>>
        /\ picks = {} /\ step \in 1..2 /\ queues \in Queues
        /\ ~shared => QueuesApart(queues)
    BY <1>4 DEF Balance, Balanced, HazardInv
  <2>2. CASE step' = step + 1 /\ UNCHANGED queues
    BY <2>1, <2>2 DEF HazardInv, Before, After
  <2>3. CASE ~(~Lacks \/ queues[Donor] = <<>>)
    <3> DEFINE r == Head(queues[Donor])
               more == [queues EXCEPT ![Short] = Append(@, r)]
    <3>1. /\ queues[Donor] # <<>> /\ UNCHANGED step
          /\ queues' = [more EXCEPT ![Donor] = WithoutFirst(@, r)]
      BY <1>4, <2>3 DEF Balance
    <3>2. Short \in {"in", "out"} /\ Short \in Classes
      BY <2>1 DEF Short, Classes
    <3>3. Donor \in Classes
      BY DEF Donor, Classes
    <3>4. ASSUME QueuesApart(queues) PROVE Short # Donor
      <4> SUFFICES ASSUME Short = Donor PROVE FALSE
        OBVIOUS
      <4>1. Short = "out" /\ queues["out"] = queues["in"]
        BY <3>2 DEF Donor
      <4>2. queues["out"] \in Seq(Regs) /\ queues["out"] # <<>>
        BY <2>1, <3>1, <4>1 DEF Queues, Classes
      <4>3. Head(queues["out"]) \in ToSet(queues["out"])
        BY <4>2, HeadIn
      <4> QED BY <3>4, <4>1, <4>3 DEF QueuesApart, Classes
    <3>5. queues' \in Queues /\ (~shared => QueuesApart(queues'))
      BY <2>1, <3>1, <3>2, <3>3, <3>4, OneMoved
    <3> QED BY <2>1, <3>1, <3>5 DEF HazardInv, Before, After
  <2> QED BY <1>4, <2>2, <2>3 DEF Balance
<1>5. CASE BalanceDone
  <2>1. /\ phase = "balance" /\ phase' = "rotate"
        /\ UNCHANGED <<pools, queues, shared, picks>>
    BY <1>5 DEF BalanceDone, Proceed, allocation
  <2>2. picks = {} /\ queues \in Queues /\ (~shared => QueuesApart(queues))
    BY <2>1 DEF HazardInv
  <2>3. QueuesApart(queues) => PickedApart(queues, {})
    BY DEF QueuesApart, PickedApart, Classes, Loose
  <2> QED BY <2>1, <2>2, <2>3 DEF HazardInv, Before, After
<1>6. CASE Rotate
  <2> DEFINE start == [instr |-> code[Body[step]], queues |-> queues, picks |-> picks]
             s == Turn(Turn(Turn(start, 1), 2), 3)
  <2>1. /\ phase = "rotate" /\ UNCHANGED <<phase, shared>>
        /\ queues' = s.queues /\ picks' = s.picks
    BY <1>6 DEF Rotate
  <2>2. Turning(start) /\ HasInstr(start)
    <3>1. Turning(start)
      BY <2>1 DEF Turning, HazardInv
    <3>2. IsInstr(code[Body[step]])
      BY <1>6, BodyInstr DEF Rotate
    <3> QED BY <3>1, <3>2 DEF HasInstr
  <2> HIDE DEF start
  <2>3. Turning(Turn(start, 1)) /\ HasInstr(Turn(start, 1))
    BY <2>2, TurnKeeps, TurnIs
  <2>4. Turning(Turn(Turn(start, 1), 2)) /\ HasInstr(Turn(Turn(start, 1), 2))
    BY <2>3, TurnKeeps, TurnIs
  <2>5. Turning(s)
    BY <2>4, TurnKeeps
  <2> HIDE DEF s
  <2>6. queues' \in Queues /\ (~shared' => PickedApart(queues', picks'))
    BY <2>1, <2>5 DEF Turning
  <2> QED BY <2>1, <2>6 DEF HazardInv, Before, After
<1>7. CASE RotateDone
  <2>1. /\ phase = "rotate" /\ phase' = "default"
        /\ UNCHANGED <<queues, shared, picks>>
    BY <1>7 DEF RotateDone, Proceed, allocation
  <2>2. NoHazards
    BY <2>1, PickedNoHazards DEF HazardInv
  <2> QED BY <2>1, <2>2 DEF HazardInv, NoHazards, Before, After
<1> QED BY <1>1, <1>2, <1>3, <1>4, <1>5, <1>6, <1>7 DEF NoHazardsNext

LEMMA HazardStep == BuildInv /\ HazardInv /\ [Next]_vars => HazardInv'
<1> SUFFICES ASSUME BuildInv, HazardInv, [Next]_vars PROVE HazardInv'
  OBVIOUS
<1>1. CASE InitializeRegister /\ UNCHANGED <<streams, allocation, machine>>
  <2>1. phase \in Before /\ phase' \in Before \cup After
        /\ UNCHANGED <<pools, queues, shared, picks>>
    BY <1>1 DEF InitializeRegister, allocation, Before
  <2> QED BY <2>1, HazardStutter
<1>2. CASE InitializeDone /\ UNCHANGED <<streams, allocation, machine>>
  <2>1. phase \in Before /\ phase' \in Before \cup After
        /\ UNCHANGED <<pools, queues, shared, picks>>
    BY <1>2 DEF InitializeDone, Proceed, allocation, Before, After
  <2> QED BY <2>1, HazardStutter
<1>3. CASE StreamsNext /\ UNCHANGED <<allocation, machine>>
  <2>1. UNCHANGED <<pools, queues, shared, picks>>
    BY <1>3 DEF allocation
  <2> QED BY <1>3, <2>1, StreamsPhases, HazardStutter
<1>4. CASE NoHazardsNext
  BY <1>4, NoHazardsStep
<1>5. CASE DefaultNext
  BY <1>5, DefaultPhases, HazardStutter
<1>6. CASE (Execute \/ NextLoop) /\ UNCHANGED <<streams, allocation>>
  <2>1. phase \in After /\ UNCHANGED phase /\ UNCHANGED <<pools, queues, shared, picks>>
    BY <1>6 DEF Execute, NextLoop, building, allocation, After
  <2> QED BY <2>1, HazardStutter
<1>7. CASE UNCHANGED vars
  BY <1>7, HazardStutter DEF vars, building, allocation
<1> QED BY <1>1, <1>2, <1>3, <1>4, <1>5, <1>6, <1>7 DEF Next

LEMMA HazardInvImplies == HazardInv => NoHazards
<1>1. picks = {} => NoHazards
  BY DEF NoHazards
<1> QED BY <1>1, PickedNoHazards DEF HazardInv

\* For any registers, reserved registers and loops: a register given from the
\* list of those read is given to no operand that writes, one given from the
\* list of those written to none that reads, unless some operand must have it
\* or the block had one on two lists (NoHazardsAllocationPass).
THEOREM ReadsApartFromWrites == Spec => []NoHazards
<1>1. Spec => []BuildInv
  BY BuildInit, BuildStep, PTL DEF Spec
<1>2. Spec => []HazardInv
  BY <1>1, HazardInit, HazardStep, PTL DEF Spec
<1> QED BY <1>2, HazardInvImplies, PTL

-----------------------------------------------------------------------------
(* Running instructions                                                    *)

Value == [var : Int, n : Int]
Files == [Regs -> Value]

\* An instruction, and instructions, that leave a register file
Runs(i) == \A f \in Files : Executed(f, i) \in Files
AllRun(s) == s \in Seq(ToSet(s)) /\ \A n \in 1..Len(s) : Runs(s[n])

\* A run is the last of the register files in between.
RunOver(h, f, s) ==
    /\ h \in [0..Len(s) -> Files] /\ h[0] = f
    /\ \A n \in 1..Len(s) : h[n] = Executed(h[n - 1], s[n])

LEMMA RunFrom ==
  ASSUME NEW f \in Files, NEW s, AllRun(s)
  PROVE  \E h : RunOver(h, f, s) /\ RunInstrs(f, s) = h[Len(s)]
<1> DEFINE N == Len(s)
           Is(h) == h = [n \in 0..N |-> IF n = 0 THEN f ELSE Executed(h[n - 1], s[n])]
           turn == [n \in 1..N |-> [e \in Files |-> Executed(e, s[n])]]
           g == CHOOSE h : Is(h)
<1>1. N \in Nat
  BY DEF AllRun
<1>2. \A n \in 1..N : \A e \in Files : turn[n][e] = Executed(e, s[n])
  OBVIOUS
<1>3. StepsInto(turn, N, Files)
  BY <1>1, <1>2 DEF StepsInto, AllRun, Runs
<1> HIDE DEF turn, N
<1>4. PICK h \in [0..N -> Files] : Unrolls(h, N, f, turn)
  BY <1>1, <1>3, RecursiveFunction
<1>5. \A n \in 0..N : n # 0 => n \in 1..N /\ n - 1 \in 0..N
  BY <1>1
<1>6. Is(h)
  <2>1. \A n \in 0..N : h[n] = IF n = 0 THEN f ELSE Executed(h[n - 1], s[n])
    <3> SUFFICES ASSUME NEW n \in 0..N PROVE h[n] = IF n = 0 THEN f ELSE Executed(h[n - 1], s[n])
      OBVIOUS
    <3>1. CASE n = 0
      BY <1>4, <3>1 DEF Unrolls
    <3>2. CASE n # 0
      <4>1. n \in 1..N /\ h[n - 1] \in Files
        BY <1>5, <3>2
      <4>2. h[n] = turn[n][h[n - 1]]
        BY <1>4, <4>1 DEF Unrolls
      <4> QED BY <1>2, <3>2, <4>1, <4>2
    <3> QED BY <3>1, <3>2
  <2> QED BY <2>1
<1>7. Is(g)
  <2> HIDE DEF Is
  <2> QED BY <1>6
<1>8. RunInstrs(f, s) = g[N]
  BY DEF RunInstrs, N
<1> HIDE DEF g
<1>9. g[0] = f /\ \A n \in 1..N : g[n] = Executed(g[n - 1], s[n])
  BY <1>1, <1>5, <1>7
<1>10. \A n \in 0..N : g[n] = h[n]
  <2> DEFINE S == {n \in 0..N : g[n] = h[n]}
  <2>1. 0 \in S
    BY <1>1, <1>4, <1>9 DEF Unrolls
  <2>2. ASSUME NEW n \in 1..N, n - 1 \in S PROVE n \in S
    <3>1. h[n - 1] \in Files /\ g[n - 1] = h[n - 1] /\ n \in 0..N
      BY <1>1, <2>2
    <3>2. h[n] = turn[n][h[n - 1]]
      BY <1>4 DEF Unrolls
    <3> QED BY <1>2, <1>9, <3>1, <3>2
  <2> HIDE DEF S
  <2>3. 0..N \subseteq S
    BY <1>1, <2>1, <2>2, SetInductionUpTo
  <2> QED BY <2>3 DEF S
<1>11. \A n \in 1..N : h[n] = Executed(h[n - 1], s[n])
  <2> SUFFICES ASSUME NEW n \in 1..N PROVE h[n] = Executed(h[n - 1], s[n])
    OBVIOUS
  <2>1. n \in 0..N /\ n - 1 \in 0..N
    BY <1>1
  <2> QED BY <1>9, <1>10, <2>1
<1>12. N \in 0..N /\ h[0] = f
  BY <1>1, <1>4 DEF Unrolls
<1> QED BY <1>8, <1>10, <1>11, <1>12 DEF RunOver, N

\* There is one.
LEMMA RunIs ==
  ASSUME NEW f \in Files, NEW s, AllRun(s), NEW h, RunOver(h, f, s)
  PROVE  RunInstrs(f, s) = h[Len(s)]
<1> DEFINE N == Len(s)
<1>1. N \in Nat
  BY DEF AllRun
<1>2. PICK g : RunOver(g, f, s) /\ RunInstrs(f, s) = g[N]
  BY RunFrom
<1> DEFINE S == {n \in 0..N : g[n] = h[n]}
<1>3. 0 \in S
  BY <1>1, <1>2 DEF RunOver
<1>4. ASSUME NEW n \in 1..N, n - 1 \in S PROVE n \in S
  BY <1>1, <1>2, <1>4 DEF RunOver
<1> HIDE DEF S
<1>5. 0..N \subseteq S
  <2> HIDE DEF N
  <2> QED BY <1>1, <1>3, <1>4, SetInductionUpTo
<1>6. N \in S
  BY <1>1, <1>5
<1> QED BY <1>2, <1>6 DEF S

LEMMA RunStays ==
  ASSUME NEW f \in Files, NEW s, AllRun(s)
  PROVE  RunInstrs(f, s) \in Files
<1>1. Len(s) \in Nat
  BY DEF AllRun
<1> QED BY <1>1, RunFrom DEF RunOver

LEMMA RunNone ==
  ASSUME NEW f \in Files
  PROVE  AllRun(<<>>) /\ RunInstrs(f, <<>>) = f
<1>1. AllRun(<<>>) /\ Len(<<>>) = 0
  BY DEF AllRun, ToSet
<1> QED BY <1>1, RunFrom DEF RunOver

LEMMA RunOne ==
  ASSUME NEW f \in Files, NEW i, Runs(i)
  PROVE  AllRun(<<i>>) /\ RunInstrs(f, <<i>>) = Executed(f, i)
<1> DEFINE s == <<i>>
<1>1. Len(s) = 1 /\ s[1] = i /\ DOMAIN s = {1} /\ 1..1 = {1}
  OBVIOUS
<1>2. s \in Seq(ToSet(s))
  BY DEF ToSet
<1> HIDE DEF s
<1>3. AllRun(s)
  BY <1>1, <1>2 DEF AllRun
<1>4. RunInstrs(f, s) = Executed(f, i)
  BY <1>1, <1>3, RunFrom DEF RunOver
<1> QED BY <1>3, <1>4 DEF s

\* Instructions run one after the other.
LEMMA RunJoined ==
  ASSUME NEW f \in Files, NEW s, NEW t, AllRun(s), AllRun(t)
  PROVE  AllRun(s \o t) /\ RunInstrs(f, s \o t) = RunInstrs(RunInstrs(f, s), t)
<1> DEFINE N == Len(s)
           M == Len(t)
           u == s \o t
           T == ToSet(s) \cup ToSet(t)
<1>1. /\ s \in Seq(T) /\ t \in Seq(T) /\ N \in Nat /\ M \in Nat
      /\ \A n \in 1..N : Runs(s[n])
      /\ \A n \in 1..M : Runs(t[n])
  <2> HIDE DEF T
  <2>1. ToSet(s) \subseteq T /\ ToSet(t) \subseteq T
    BY DEF T
  <2> QED BY <2>1 DEF AllRun
<1> HIDE DEF T
<1>2. /\ u \in Seq(T) /\ Len(u) = N + M
      /\ \A n \in 1..N : u[n] = s[n]
      /\ \A n \in 1..M : u[N + n] = t[n]
  BY <1>1
<1> HIDE DEF u, N, M
<1>3. AllRun(u)
  <2>1. \A n \in 1..(N + M) : n \in 1..N \/ (n - N \in 1..M /\ N + (n - N) = n)
    BY <1>1
  <2>2. \A n \in 1..(N + M) : Runs(u[n])
    <3> SUFFICES ASSUME NEW n \in 1..(N + M) PROVE Runs(u[n])
      OBVIOUS
    <3>1. CASE n \in 1..N
      BY <1>1, <1>2, <3>1
    <3>2. CASE n - N \in 1..M /\ N + (n - N) = n
      <4>1. u[N + (n - N)] = t[n - N]
        BY <1>2, <3>2
      <4> QED BY <1>1, <3>2, <4>1
    <3> QED BY <2>1, <3>1, <3>2
  <2>3. u \in Seq(ToSet(u))
    BY <1>2 DEF ToSet
  <2> QED BY <1>2, <2>2, <2>3 DEF AllRun
<1>4. PICK h : RunOver(h, f, s) /\ RunInstrs(f, s) = h[N]
  BY RunFrom DEF N
<1>5. /\ h \in [0..N -> Files] /\ h[0] = f /\ h[N] \in Files
      /\ \A n \in 1..N : h[n] = Executed(h[n - 1], s[n])
  BY <1>1, <1>4 DEF RunOver, N
<1>6. PICK g : RunOver(g, h[N], t) /\ RunInstrs(h[N], t) = g[M]
  BY <1>5, RunFrom DEF M
<1>7. /\ g \in [0..M -> Files] /\ g[0] = h[N]
      /\ \A n \in 1..M : g[n] = Executed(g[n - 1], t[n])
  BY <1>6 DEF RunOver, M
<1> DEFINE w == [n \in 0..(N + M) |-> IF n <= N THEN h[n] ELSE g[n - N]]
<1>a. \A k \in 0..(N + M) : w[k] = IF k <= N THEN h[k] ELSE g[k - N]
  OBVIOUS
<1>8. /\ w \in [0..(N + M) -> Files] /\ w[0] = f
      /\ \A n \in 0..N : w[n] = h[n]
      /\ \A n \in 0..M : w[N + n] = g[n]
  <2>1. ASSUME NEW n \in 0..M PROVE w[N + n] = g[n]
    <3>1. N + n \in 0..(N + M) /\ (N + n <= N => n = 0) /\ N + n - N = n
      BY <1>1
    <3>2. CASE n = 0
      BY <1>1, <1>7, <3>1, <3>2
    <3>3. CASE n # 0
      <4>1. ~(N + n <= N)
        BY <3>1, <3>3
      <4>2. PICK k : k = N + n
        OBVIOUS
      <4>3. k \in 0..(N + M) /\ ~(k <= N) /\ k - N = n
        BY <1>1, <3>1, <4>1, <4>2
      <4>4. w[k] = g[k - N]
        BY <1>a, <4>3
      <4> QED BY <4>2, <4>3, <4>4
    <3> QED BY <3>2, <3>3
  <2>2. w \in [0..(N + M) -> Files]
    <3> SUFFICES ASSUME NEW n \in 0..(N + M)
                 PROVE  (IF n <= N THEN h[n] ELSE g[n - N]) \in Files
      OBVIOUS
    <3>1. n <= N => n \in 0..N
      BY <1>1
    <3>2. ~(n <= N) => n - N \in 0..M
      BY <1>1
    <3> QED BY <1>5, <1>7, <3>1, <3>2
  <2> HIDE DEF w
  <2>3. 0 \in 0..N /\ \A n \in 0..N : n \in 0..(N + M) /\ n <= N
    BY <1>1
  <2>4. \A n \in 0..N : w[n] = h[n]
    BY <1>a, <2>3
  <2> QED BY <1>5, <2>1, <2>2, <2>3, <2>4
<1> HIDE DEF w
<1>9. \A n \in 1..(N + M) : w[n] = Executed(w[n - 1], u[n])
  <2> SUFFICES ASSUME NEW n \in 1..(N + M) PROVE w[n] = Executed(w[n - 1], u[n])
    OBVIOUS
  <2>1. CASE n <= N
    <3>1. n \in 1..N /\ n \in 0..N /\ n - 1 \in 0..N
      BY <1>1, <2>1
    <3> QED BY <1>2, <1>5, <1>8, <3>1
  <2>2. CASE ~(n <= N)
    <3> DEFINE m == n - N
    <3>1. m \in 1..M /\ m \in 0..M /\ m - 1 \in 0..M /\ N + m = n /\ N + (m - 1) = n - 1
      BY <1>1, <2>2
    <3> HIDE DEF m
    <3>2. w[N + m] = g[m] /\ w[N + (m - 1)] = g[m - 1] /\ u[N + m] = t[m]
      BY <1>2, <1>8, <3>1
    <3> QED BY <1>7, <3>1, <3>2
  <2> QED BY <2>1, <2>2
<1>10. RunOver(w, f, u)
  BY <1>2, <1>8, <1>9 DEF RunOver
<1>11. RunInstrs(f, u) = w[N + M]
  BY <1>2, <1>3, <1>10, RunIs
<1>12. w[N + M] = g[M]
  <2>1. M \in 0..M
    BY <1>1
  <2> QED BY <1>8, <2>1
<1> QED BY <1>3, <1>4, <1>6, <1>11, <1>12 DEF u

-----------------------------------------------------------------------------
(* What the instructions do                                                *)

Word == TwoTo(2 * Half)

LEMMA WordIs == Word \in Nat \ {0}
<1>1. Half \in Nat
  BY RiscvAssumption DEF Half
<1> QED BY <1>1, PowerLaw DEF Word

LEMMA WrapIs ==
  ASSUME NEW n \in Int
  PROVE  /\ Wrap(n) \in Int /\ Number(Wrap(n)) \in Value
         /\ \E k \in Int : Wrap(n) = n + Word * k
<1>1. n \div Word \in Int /\ n % Word \in Int /\ n = Word * (n \div Word) + (n % Word)
  BY WordIs, Division
<1> DEFINE k == n \div Word
<1>2. Wrap(n) = n % Word
  BY DEF Wrap, Word
<1>3. k \in Int
  BY <1>1
<1>4. n = Word * k + Wrap(n)
  BY <1>1, <1>2
<1> HIDE DEF k
<1>5. Word \in Int /\ Word * k \in Int /\ Wrap(n) \in Int
  BY <1>1, <1>2, <1>3, WordIs
<1>6. -k \in Int /\ Wrap(n) = n + Word * (-k)
  BY <1>3, <1>4, <1>5
<1>7. Number(Wrap(n)) \in Value
  BY <1>5 DEF Number, Value
<1> QED BY <1>5, <1>6, <1>7

LEMMA WrapSame ==
  ASSUME NEW n \in Int, NEW m \in Int, NEW k \in Int, m = n + Word * k
  PROVE  Wrap(m) = Wrap(n)
BY WordIs, SameRemainder DEF Wrap, Word

LEMMA WrapPlus ==
  ASSUME NEW n \in Int, NEW m \in Int
  PROVE  Wrap(Wrap(n) + m) = Wrap(n + m)
<1>1. PICK k \in Int : Wrap(n) = n + Word * k
  BY WrapIs
<1>2. Word \in Int /\ Word * k \in Int
  BY WordIs
<1>3. Wrap(n) + m = (n + m) + Word * k
  BY <1>1, <1>2
<1> QED BY <1>3, WrapIs, WrapSame

LEMMA WrapTimes ==
  ASSUME NEW n \in Int, NEW m \in Int
  PROVE  Wrap(Wrap(n) * m) = Wrap(n * m)
<1>1. PICK k \in Int : Wrap(n) = n + Word * k
  BY WrapIs
<1>2. Word \in Int /\ k * m \in Int /\ n * m \in Int /\ Wrap(n) * m \in Int
  BY WordIs, WrapIs
<1>3. Wrap(n) * m = n * m + Word * (k * m)
  BY <1>1, <1>2
<1> QED BY <1>2, <1>3, WrapSame

LEMMA PlusIs ==
  ASSUME NEW v \in Value, NEW n \in Int PROVE Plus(v, n) \in Value
<1>1. v.n + n \in Int
  BY DEF Value
<1>2. Number(Wrap(v.n + n)) \in Value
  BY <1>1, WrapIs
<1>3. [v EXCEPT !.n = @ + n] \in Value
  BY <1>1 DEF Value
<1> QED BY <1>2, <1>3 DEF Plus

LEMMA NumberPlus ==
  ASSUME NEW m \in Int, NEW n \in Int
  PROVE  Plus(Number(Wrap(m)), n) = Number(Wrap(m + n))
<1>1. Number(Wrap(m)) # Garbage
  BY DEF Number, Garbage
<1>2. Number(Wrap(m)).var = 0 /\ Number(Wrap(m)).n = Wrap(m)
  BY DEF Number
<1>3. Plus(Number(Wrap(m)), n) = Number(Wrap(Wrap(m) + n))
  BY <1>1, <1>2 DEF Plus
<1> QED BY <1>3, WrapPlus

\* A register file with a number in a register
With(f, rd, n) == [f EXCEPT ![rd] = Number(Wrap(n))]

LEMMA WithIs ==
  ASSUME NEW f \in Files, NEW rd \in Regs, NEW n \in Int
  PROVE  With(f, rd, n) \in Files /\ With(f, rd, n)[rd] = Number(Wrap(n))
<1>1. Number(Wrap(n)) \in Value
  BY WrapIs
<1> HIDE DEF Value
<1> QED BY <1>1 DEF With, Files

LEMMA WithAgain ==
  ASSUME NEW f \in Files, NEW rd \in Regs, NEW n, NEW m
  PROVE  With(With(f, rd, n), rd, m) = With(f, rd, m)
BY DEF With, Files

\* An instruction sets its destination.
LEMMA SetsOne ==
  ASSUME NEW i, NEW rd \in Regs \ {0}, SetBy(i) = {rd},
         NEW f, f \in Files, Result(i, f) \in Value
  PROVE  Executed(f, i) = [f EXCEPT ![rd] = Result(i, f)] /\ Executed(f, i) \in Files
<1>1. ~(SetBy(i) \subseteq {0})
  OBVIOUS
<1>2. First(SetBy(i)) = rd
  <2>1. SetBy(i) \in SUBSET Nat /\ SetBy(i) # {}
    BY RiscvAssumption
  <2>2. First(SetBy(i)) \in SetBy(i)
    BY <2>1, FirstIn
  <2> QED BY <2>2
<1>3. Executed(f, i) = [f EXCEPT ![rd] = Result(i, f)]
  BY <1>1, <1>2 DEF Executed
<1> HIDE DEF Value
<1> QED BY <1>3 DEF Files

LEMMA RegNotUnset == \A r \in Regs : r # Unset
BY RiscvAssumption DEF Unset

\* The destination of the instructions the helpers make is their last operand.
LEMMA ThreeOperands ==
  ASSUME NEW i, i.kind \in {"addi", "ori", "slli", "lo12", "or"},
         NEW rd \in Regs, NEW rs, NEW n, i.val = <<n, rs, rd>>
  PROVE  SetBy(i) = {rd} /\ i.val[1] = n /\ i.val[2] = rs
<1>1. \A k \in {"addi", "ori", "slli", "lo12", "or"} :
         Operands[k][3].out /\ ~Operands[k][2].out /\ ~Operands[k][1].out
  BY DEF Operands, Imm, Use, Def
<1>2. DOMAIN i.val = {1, 2, 3} /\ i.val[1] = n /\ i.val[2] = rs /\ i.val[3] = rd
  OBVIOUS
<1>3. {p \in DOMAIN i.val : Operands[i.kind][p].out} = {3}
  BY <1>1, <1>2
<1> QED BY <1>2, <1>3, RegNotUnset DEF SetBy

LEMMA TwoOperands ==
  ASSUME NEW i, i.kind \in {"lui", "auipc"},
         NEW rd \in Regs, NEW n, i.val = <<n, rd>>
  PROVE  SetBy(i) = {rd} /\ i.val[1] = n
<1>1. \A k \in {"lui", "auipc"} : Operands[k][2].out /\ ~Operands[k][1].out
  BY DEF Operands, Imm, Def
<1>2. DOMAIN i.val = {1, 2} /\ i.val[1] = n /\ i.val[2] = rd
  OBVIOUS
<1>3. {p \in DOMAIN i.val : Operands[i.kind][p].out} = {2}
  BY <1>1, <1>2
<1> QED BY <1>2, <1>3, RegNotUnset DEF SetBy

LEMMA NumberIs ==
  ASSUME NEW f \in Files, NEW rs \in Regs
  PROVE  f[rs] \in Value /\ f[rs].n \in Int
<1>1. f[rs] \in Value
  BY DEF Files
<1> QED BY <1>1 DEF Value

LEMMA AddiDoes ==
  ASSUME NEW imm \in Int, imm # Unset, NEW rs \in Regs, NEW rd \in Regs \ {0}
  PROVE  /\ Runs(Addi(imm, rs, rd))
         /\ \A f \in Files : Executed(f, Addi(imm, rs, rd)) = [f EXCEPT ![rd] = Plus(f[rs], imm)]
<1> DEFINE i == Addi(imm, rs, rd)
<1>0. i.kind = "addi" /\ i.val = <<imm, rs, rd>>
  BY DEF Addi, Instr
<1> HIDE DEF i
<1>1. SetBy(i) = {rd} /\ i.val[1] = imm /\ i.val[2] = rs
  BY <1>0, ThreeOperands
<1>2. ASSUME NEW f \in Files PROVE Result(i, f) = Plus(f[rs], imm) /\ Result(i, f) \in Value
  <2>1. Result(i, f) = Plus(f[rs], imm)
    BY <1>0, <1>1 DEF Result
  <2> QED BY <2>1, NumberIs, PlusIs
<1>3. ASSUME NEW f \in Files
      PROVE  Executed(f, i) = [f EXCEPT ![rd] = Plus(f[rs], imm)] /\ Executed(f, i) \in Files
  BY <1>1, <1>2, SetsOne
<1> QED BY <1>3 DEF i, Runs

LEMMA OriDoes ==
  ASSUME NEW imm \in Int, imm # Unset, NEW rs \in Regs, NEW rd \in Regs \ {0}
  PROVE  LET i == Instr("ori", <<imm, rs, rd>>)
         IN  /\ Runs(i)
             /\ \A f \in Files : Executed(f, i) = [f EXCEPT ![rd] = Plus(f[rs], imm)]
<1> DEFINE i == Instr("ori", <<imm, rs, rd>>)
<1>0. i.kind = "ori" /\ i.val = <<imm, rs, rd>>
  BY DEF Instr
<1> HIDE DEF i
<1>1. SetBy(i) = {rd} /\ i.val[1] = imm /\ i.val[2] = rs
  BY <1>0, ThreeOperands
<1>2. ASSUME NEW f \in Files PROVE Result(i, f) = Plus(f[rs], imm) /\ Result(i, f) \in Value
  <2>1. Result(i, f) = Plus(f[rs], imm)
    BY <1>0, <1>1 DEF Result
  <2> QED BY <2>1, NumberIs, PlusIs
<1>3. ASSUME NEW f \in Files
      PROVE  Executed(f, i) = [f EXCEPT ![rd] = Plus(f[rs], imm)] /\ Executed(f, i) \in Files
  BY <1>1, <1>2, SetsOne
<1> QED BY <1>3 DEF i, Runs

LEMMA SlliDoes ==
  ASSUME NEW k, TwoTo(k) \in Int, NEW rs \in Regs, NEW rd \in Regs \ {0}
  PROVE  LET i == Instr("slli", <<k, rs, rd>>)
         IN  /\ Runs(i)
             /\ \A f \in Files : Executed(f, i)
                  = [f EXCEPT ![rd] = Number(Wrap(f[rs].n * TwoTo(k)))]
<1> DEFINE i == Instr("slli", <<k, rs, rd>>)
<1>0. i.kind = "slli" /\ i.val = <<k, rs, rd>>
  BY DEF Instr
<1> HIDE DEF i
<1>1. SetBy(i) = {rd} /\ i.val[1] = k /\ i.val[2] = rs
  BY <1>0, ThreeOperands
<1>2. ASSUME NEW f \in Files
      PROVE  Result(i, f) = Number(Wrap(f[rs].n * TwoTo(k))) /\ Result(i, f) \in Value
  <2>1. Result(i, f) = Number(Wrap(f[rs].n * TwoTo(k)))
    BY <1>0, <1>1 DEF Result
  <2>2. f[rs].n * TwoTo(k) \in Int
    BY NumberIs
  <2> QED BY <2>1, <2>2, WrapIs
<1>3. ASSUME NEW f \in Files
      PROVE  /\ Executed(f, i) = [f EXCEPT ![rd] = Number(Wrap(f[rs].n * TwoTo(k)))]
             /\ Executed(f, i) \in Files
  BY <1>1, <1>2, SetsOne
<1> QED BY <1>3 DEF i, Runs

LEMMA LuiDoes ==
  ASSUME NEW u, Signed(u, UpperBits) * Imms \in Int, NEW rd \in Regs \ {0}
  PROVE  LET i == Instr("lui", <<u, rd>>)
         IN  /\ Runs(i)
             /\ \A f \in Files : Executed(f, i) = With(f, rd, Signed(u, UpperBits) * Imms)
<1> DEFINE i == Instr("lui", <<u, rd>>)
           n == Signed(u, UpperBits) * Imms
<1>0. i.kind = "lui" /\ i.val = <<u, rd>>
  BY DEF Instr
<1> HIDE DEF i
<1>1. SetBy(i) = {rd} /\ i.val[1] = u
  BY <1>0, TwoOperands
<1>2. ASSUME NEW f \in Files PROVE Result(i, f) = Number(Wrap(n)) /\ Result(i, f) \in Value
  <2>1. Result(i, f) = Number(Wrap(n))
    BY <1>0, <1>1 DEF Result, Imms
  <2> QED BY <2>1, WrapIs
<1> HIDE DEF n
<1>3. ASSUME NEW f \in Files
      PROVE  Executed(f, i) = With(f, rd, n) /\ Executed(f, i) \in Files
  BY <1>1, <1>2, SetsOne DEF With
<1> QED BY <1>3 DEF i, n, Runs

LEMMA OrDoes ==
  ASSUME NEW rs \in Regs, NEW rd \in Regs \ {0}
  PROVE  LET i == Instr("or", <<rs, rs, rd>>)
         IN  /\ Runs(i)
             /\ \A f \in Files : Executed(f, i) = [f EXCEPT ![rd] = f[rs]]
<1> DEFINE i == Instr("or", <<rs, rs, rd>>)
<1>0. i.kind = "or" /\ i.val = <<rs, rs, rd>>
  BY DEF Instr
<1> HIDE DEF i
<1>1. SetBy(i) = {rd} /\ i.val[2] = rs
  BY <1>0, ThreeOperands
<1>2. ASSUME NEW f \in Files PROVE Result(i, f) = f[rs] /\ Result(i, f) \in Value
  <2>1. Result(i, f) = f[rs]
    BY <1>0, <1>1 DEF Result
  <2> QED BY <2>1, NumberIs
<1>3. ASSUME NEW f \in Files
      PROVE  Executed(f, i) = [f EXCEPT ![rd] = f[rs]] /\ Executed(f, i) \in Files
  BY <1>1, <1>2, SetsOne
<1> QED BY <1>3 DEF i, Runs

\* By name, a register gets the address whatever it held.
LEMMA SetByNameDoes ==
  ASSUME NEW a \in Value, NEW rd \in Regs \ {0}
  PROVE  /\ AllRun(SetByName(rd, a))
         /\ \A f \in Files : RunInstrs(f, SetByName(rd, a)) = [f EXCEPT ![rd] = a]
<1> DEFINE i == Instr("auipc", <<a, rd>>)
           j == Instr("lo12", <<a, rd, rd>>)
<1>0. /\ i.kind = "auipc" /\ i.val = <<a, rd>>
      /\ j.kind = "lo12" /\ j.val = <<a, rd, rd>>
  BY DEF Instr
<1>4. SetByName(rd, a) = <<i>> \o <<j>>
  BY DEF SetByName
<1> HIDE DEF i, j
<1>1. SetBy(i) = {rd} /\ SetBy(j) = {rd} /\ j.val[1] = a
  BY <1>0, ThreeOperands, TwoOperands
<1>2. \A f \in Files : Result(i, f) = Garbage /\ Result(j, f) = a
  BY <1>0, <1>1 DEF Result
<1>3. Garbage \in Value
  BY DEF Garbage, Value
<1>5. ASSUME NEW f \in Files
      PROVE  /\ Executed(f, i) = [f EXCEPT ![rd] = Garbage] /\ Executed(f, i) \in Files
             /\ Executed(f, j) = [f EXCEPT ![rd] = a] /\ Executed(f, j) \in Files
  BY <1>1, <1>2, <1>3, SetsOne
<1>6. Runs(i) /\ Runs(j)
  BY <1>5 DEF Runs
<1>7. ASSUME NEW f \in Files
      PROVE  /\ AllRun(SetByName(rd, a))
             /\ RunInstrs(f, SetByName(rd, a)) = [f EXCEPT ![rd] = a]
  <2>1. /\ AllRun(<<i>>) /\ AllRun(<<j>>)
        /\ RunInstrs(f, <<i>>) = Executed(f, i)
        /\ RunInstrs(Executed(f, i), <<j>>) = Executed(Executed(f, i), j)
    BY <1>5, <1>6, RunOne
  <2>2. /\ AllRun(<<i>> \o <<j>>)
        /\ RunInstrs(f, <<i>> \o <<j>>) = Executed(Executed(f, i), j)
    BY <2>1, RunJoined
  <2>3. Executed(Executed(f, i), j) = [Executed(f, i) EXCEPT ![rd] = a]
    BY <1>5
  <2>4. [[f EXCEPT ![rd] = Garbage] EXCEPT ![rd] = a] = [f EXCEPT ![rd] = a]
    BY DEF Files
  <2> QED BY <1>4, <1>5, <2>2, <2>3, <2>4
<1>8. \E f : f \in Files
  <2>1. [r \in Regs |-> Garbage] \in Files
    BY <1>3 DEF Files
  <2> QED BY <2>1
<1> QED BY <1>7, <1>8

\* What a chain of instructions on one register does to the number in it
LEMMA WithPlus ==
  ASSUME NEW f \in Files, NEW rd \in Regs, NEW n \in Int, NEW m \in Int
  PROVE  LET g == With(f, rd, n) IN [g EXCEPT ![rd] = Plus(g[rd], m)] = With(f, rd, n + m)
<1>1. With(f, rd, n)[rd] = Number(Wrap(n))
  BY WithIs
<1>2. Plus(Number(Wrap(n)), m) = Number(Wrap(n + m))
  BY NumberPlus
<1>3. [With(f, rd, n) EXCEPT ![rd] = Number(Wrap(n + m))] = With(f, rd, n + m)
  BY DEF With, Files
<1> QED BY <1>1, <1>2, <1>3

LEMMA WithTimes ==
  ASSUME NEW f \in Files, NEW rd \in Regs, NEW n \in Int, NEW m \in Int
  PROVE  LET g == With(f, rd, n)
         IN  [g EXCEPT ![rd] = Number(Wrap(g[rd].n * m))] = With(f, rd, n * m)
<1>1. With(f, rd, n)[rd].n = Wrap(n)
  <2>1. With(f, rd, n)[rd] = Number(Wrap(n))
    BY WithIs
  <2>2. Number(Wrap(n)).n = Wrap(n)
    BY DEF Number
  <2> QED BY <2>1, <2>2
<1>2. Wrap(Wrap(n) * m) = Wrap(n * m)
  BY WrapTimes
<1>3. [With(f, rd, n) EXCEPT ![rd] = Number(Wrap(n * m))] = With(f, rd, n * m)
  BY DEF With, Files
<1> QED BY <1>1, <1>2, <1>3

-----------------------------------------------------------------------------
(* set_register                                                            *)

LEMMA ImmNotUnset == \A n : IsImm(n) => n # Unset
BY UnsetAssumption

LEMMA NearIsImm == ASSUME NEW n \in Int, Near(n) PROVE IsImm(n)
<1>1. HalfImms \in Int
  BY Powers
<1> QED BY <1>1 DEF Near, IsImm, Abs, HalfImms

LEMMA SignedIs ==
  ASSUME NEW u \in 0..(Uppers - 1)
  PROVE  /\ Signed(u, UpperBits) \in Int
         /\ -HalfUppers <= Signed(u, UpperBits) /\ Signed(u, UpperBits) < HalfUppers
         /\ \E j \in Int : Signed(u, UpperBits) = u + Uppers * j
<1>1. HalfUppers \in Nat \ {0} /\ Uppers = 2 * HalfUppers
  BY Powers
<1>2. Signed(u, UpperBits) = IF u >= HalfUppers THEN u - Uppers ELSE u
  BY DEF Signed, HalfUppers, Uppers
<1>3. CASE u >= HalfUppers
  <2>1. Signed(u, UpperBits) = u + Uppers * (-1) /\ -1 \in Int
    BY <1>1, <1>2, <1>3
  <2> QED BY <1>1, <1>2, <1>3, <2>1
<1>4. CASE ~(u >= HalfUppers)
  <2>1. Signed(u, UpperBits) = u + Uppers * 0 /\ 0 \in Int
    BY <1>1, <1>2, <1>4
  <2> QED BY <1>1, <1>2, <1>4, <2>1
<1> QED BY <1>3, <1>4

\* LUI and ADDI make the half word of a value at a shift, as a signed number,
\* but for the highest ones.
LEMMA LuiAddiDoes ==
  ASSUME NEW f \in Files, NEW rd \in Regs \ {0},
         NEW value \in Int, NEW s, NEW v \in Int,
         ShiftRight(value, s) = v, ShiftRight(value, s + ImmBits) = v \div Imms
  PROVE  LET code0 == LuiAddi(rd, UpperLower(value, s))
         IN  /\ AllRun(code0)
             /\ \E x \in Int :
                  /\ RunInstrs(f, code0) = With(f, rd, x)
                  /\ \E k \in Int : x = v + TwoTo(Half) * k
                  /\ -TwoTo(Half - 1) <= v /\ v < TwoTo(Half - 1) - HalfImms => x = v
<1> DEFINE pair == UpperLower(value, s)
           u == pair[1]
           l == pair[2]
           half == Imms * Uppers
           y == Signed(u, UpperBits)
           x == y * Imms + l
           i == Instr("lui", <<u, rd>>)
           j == Addi(l, rd, rd)
<1>1. /\ HalfImms \in Nat \ {0, 1} /\ Imms = 2 * HalfImms /\ HalfUppers \in Nat \ {0}
      /\ Uppers = 2 * HalfUppers /\ Imms \in Nat \ {0} /\ Uppers \in Nat \ {0}
      /\ TwoTo(Half) = half /\ TwoTo(Half - 1) = Imms * HalfUppers
  BY Powers
<1>2. /\ u \in 0..(Uppers - 1) /\ l \in Int /\ -HalfImms <= l /\ l < HalfImms
      /\ \E k \in Int : Imms * u + l = v + half * k
  BY UpperLowerIs
<1> HIDE DEF u, l
<1>3. /\ y \in Int /\ -HalfUppers <= y /\ y < HalfUppers
      /\ \E k \in Int : y = u + Uppers * k
  BY <1>2, SignedIs
<1>4. LuiAddi(rd, pair) = <<i>> \o <<j>>
  BY DEF LuiAddi, u, l
<1>5. l # Unset
  BY <1>1, <1>2, ImmNotUnset DEF IsImm, HalfImms
<1>6. /\ Runs(i) /\ Executed(f, i) = With(f, rd, y * Imms)
      /\ y * Imms \in Int
  <2>1. y * Imms \in Int
    BY <1>1, <1>3
  <2> QED BY <2>1, LuiDoes
<1>7. /\ Runs(j)
      /\ \A g \in Files : Executed(g, j) = [g EXCEPT ![rd] = Plus(g[rd], l)]
  BY <1>2, <1>5, AddiDoes
<1> HIDE DEF i, j, pair
<1>8. /\ AllRun(LuiAddi(rd, pair))
      /\ RunInstrs(f, LuiAddi(rd, pair)) = With(f, rd, x)
  <2>1. With(f, rd, y * Imms) \in Files
    BY <1>6, WithIs
  <2>2. /\ AllRun(<<i>>) /\ AllRun(<<j>>)
        /\ RunInstrs(f, <<i>>) = With(f, rd, y * Imms)
        /\ RunInstrs(With(f, rd, y * Imms), <<j>>) = Executed(With(f, rd, y * Imms), j)
    BY <1>6, <1>7, <2>1, RunOne
  <2>3. Executed(With(f, rd, y * Imms), j) = With(f, rd, y * Imms + l)
    BY <1>2, <1>6, <1>7, <2>1, WithPlus
  <2>4. AllRun(<<i>> \o <<j>>)
        /\ RunInstrs(f, <<i>> \o <<j>>) = With(f, rd, y * Imms + l)
    BY <2>2, <2>3, RunJoined
  <2> QED BY <1>4, <2>4
<1> HIDE DEF y
<1>9. x \in Int /\ half \in Nat \ {0}
  BY <1>1, <1>2, <1>3
<1>10. PICK k \in Int : x = v + half * k
  <2>1. PICK k \in Int : Imms * u + l = v + half * k
    BY <1>2
  <2>2. PICK h \in Int : y = u + Uppers * h
    BY <1>3
  <2>3. x = v + half * (k + h)
    <3>1. y * Imms = Imms * u + (Imms * Uppers) * h
      BY <1>1, <1>2, <2>2
    <3>2. half * (k + h) = half * k + half * h
      BY <1>9
    <3>3. half * k \in Int /\ half * h \in Int /\ Imms * u \in Int
      BY <1>1, <1>2, <1>9
    <3> QED BY <1>2, <2>1, <3>1, <3>2, <3>3
  <2>4. k + h \in Int
    OBVIOUS
  <2> HIDE DEF x, half
  <2> QED BY <2>3, <2>4
<1>11. ASSUME -TwoTo(Half - 1) <= v, v < TwoTo(Half - 1) - HalfImms PROVE x = v
  <2> DEFINE m == Imms * HalfUppers
  <2>1. m \in Nat \ {0} /\ half = m + m /\ Imms <= m
    <3>1. Imms * Uppers = Imms * HalfUppers + Imms * HalfUppers
      BY <1>1
    <3>2. Imms * HalfUppers >= Imms
      BY <1>1
    <3> QED BY <1>1, <3>1, <3>2
  <2>2. -m <= y * Imms /\ y * Imms <= m - Imms /\ y * Imms \in Int
    <3>1. y + HalfUppers \in Nat /\ HalfUppers - 1 - y \in Nat
      BY <1>1, <1>3
    <3>2. (y + HalfUppers) * Imms >= 0 /\ (HalfUppers - 1 - y) * Imms >= 0
      BY <1>1, <3>1
    <3>3. PICK a : a = HalfUppers - 1 - y
      OBVIOUS
    <3>4. PICK c : c = y + HalfUppers
      OBVIOUS
    <3>5. a \in Int /\ c \in Int /\ y = HalfUppers - 1 - a /\ y = c - HalfUppers
      BY <1>1, <1>3, <3>3, <3>4
    <3>6. /\ y * Imms = c * Imms - Imms * HalfUppers
          /\ c * Imms \in Int
      BY <1>1, <3>5
    <3>7. /\ y * Imms = Imms * HalfUppers - Imms - a * Imms
          /\ a * Imms \in Int
      BY <1>1, <3>5
    <3> QED BY <1>1, <2>1, <3>2, <3>3, <3>4, <3>6, <3>7
  <2>3. -m <= v /\ v < m - HalfImms
    BY <1>1, <1>11
  <2>4. half * k = x - v /\ half * k \in Int
    BY <1>9, <1>10
  <2> HIDE DEF m, half
  <2>5. -half < half * k /\ half * k < half
    BY <1>1, <1>2, <2>1, <2>2, <2>3, <2>4
  <2>6. k = 0
    BY <1>9, <2>5, NoMultiple
  <2> QED BY <1>9, <1>10, <2>6
<1>12. \E h \in Int : x = v + TwoTo(Half) * h
  <2> HIDE DEF x, half
  <2> QED BY <1>1, <1>10
<1> HIDE DEF x
<1>13. \E z \in Int :
          /\ RunInstrs(f, LuiAddi(rd, pair)) = With(f, rd, z)
          /\ \E h \in Int : z = v + TwoTo(Half) * h
          /\ -TwoTo(Half - 1) <= v /\ v < TwoTo(Half - 1) - HalfImms => z = v
  BY <1>8, <1>9, <1>11, <1>12
<1> QED BY <1>8, <1>13 DEF pair

\* A shift and an OR append bits.
LEMMA PutDoes ==
  ASSUME NEW f \in Files, NEW rd \in Regs \ {0}, NEW x \in Int,
         NEW k, TwoTo(k) \in Nat \ {0}, NEW n \in 0..(TwoTo(k) - 1)
  PROVE  LET put == <<Instr("slli", <<k, rd, rd>>), Instr("ori", <<n, rd, rd>>)>>
         IN  /\ AllRun(put)
             /\ RunInstrs(With(f, rd, x), put) = With(f, rd, x * TwoTo(k) + n)
<1> DEFINE i == Instr("slli", <<k, rd, rd>>)
           j == Instr("ori", <<n, rd, rd>>)
           g == With(f, rd, x)
           e == With(f, rd, x * TwoTo(k))
<1>1. n \in Int /\ n # Unset /\ TwoTo(k) \in Int /\ x * TwoTo(k) \in Int
  BY DEF Unset
<1>2. Runs(i) /\ \A h \in Files : Executed(h, i) = [h EXCEPT ![rd] = Number(Wrap(h[rd].n * TwoTo(k)))]
  BY <1>1, SlliDoes
<1>3. Runs(j) /\ \A h \in Files : Executed(h, j) = [h EXCEPT ![rd] = Plus(h[rd], n)]
  BY <1>1, OriDoes
<1>4. <<Instr("slli", <<k, rd, rd>>), Instr("ori", <<n, rd, rd>>)>> = <<i>> \o <<j>>
  OBVIOUS
<1> HIDE DEF i, j
<1>5. g \in Files /\ e \in Files
  BY <1>1, WithIs
<1>6. Executed(g, i) = e
  <2> DEFINE t == TwoTo(k)
  <2>1. t \in Int /\ t = TwoTo(k)
    BY <1>1
  <2> HIDE DEF t
  <2>2. [g EXCEPT ![rd] = Number(Wrap(g[rd].n * t))] = With(f, rd, x * t)
    <3>1. g[rd].n = Wrap(x)
      <4>1. g[rd] = Number(Wrap(x))
        BY WithIs
      <4> QED BY <4>1 DEF Number
    <3>2. Wrap(Wrap(x) * t) = Wrap(x * t)
      BY <2>1, WrapTimes
    <3> QED BY <3>1, <3>2 DEF With, Files
  <2>3. Executed(g, i) = [g EXCEPT ![rd] = Number(Wrap(g[rd].n * t))]
    <3> HIDE DEF g
    <3> QED BY <1>2, <1>5, <2>1
  <2> QED BY <2>1, <2>2, <2>3
<1>7. Executed(e, j) = With(f, rd, x * TwoTo(k) + n)
  BY <1>1, <1>3, <1>5, WithPlus
<1> HIDE DEF g, e
<1>8. /\ AllRun(<<i>>) /\ AllRun(<<j>>)
      /\ RunInstrs(g, <<i>>) = e /\ RunInstrs(e, <<j>>) = Executed(e, j)
  BY <1>2, <1>3, <1>5, <1>6, RunOne
<1>9. AllRun(<<i>> \o <<j>>) /\ RunInstrs(g, <<i>> \o <<j>>) = Executed(e, j)
  BY <1>5, <1>8, RunJoined
<1> QED BY <1>4, <1>7, <1>9 DEF g

\* The long path sets the value.
LEMMA LongSetDoes ==
  ASSUME NEW f \in Files, NEW rd \in Regs \ {0}, NEW value \in Int
  PROVE  /\ AllRun(LongSet(rd, value))
         /\ RunInstrs(f, LongSet(rd, value)) = With(f, rd, value)
<1> DEFINE P == HalfImms
           L == TwoTo(LastBits)
           H == TwoTo(Half)
           b0 == value % L
           q1 == value \div L
           b1 == q1 % P
           q2 == q1 \div P
           b2 == q2 % P
           v == q2 \div P
           first == LuiAddi(rd, UpperLower(value, Half))
           put(k, n) == <<Instr("slli", <<k, rd, rd>>), Instr("ori", <<n, rd, rd>>)>>
<1>1. /\ P \in Nat \ {0} /\ L \in Nat \ {0} /\ H \in Nat \ {0} /\ P * L \in Nat \ {0}
      /\ Imms \in Nat \ {0} /\ H = P * (P * L) /\ Word = H * H
      /\ TwoTo(Half + ImmBits) = H * Imms /\ TwoTo(ImmBits - 1 + LastBits) = P * L
      /\ TwoTo(ImmBits - 1) = P
  <2>1. P * L \in Nat \ {0} /\ P * (P * L) \in Nat \ {0}
    BY Powers
  <2> QED BY <2>1, Powers DEF Word, HalfImms
<1> HIDE DEF P, L, H
<1>2. /\ q1 \in Int /\ b0 \in 0..(L - 1) /\ value = L * q1 + b0
  BY <1>1, Division
<1>3. q2 \in Int /\ b1 \in 0..(P - 1) /\ q1 = P * q2 + b1
  <2> HIDE DEF q1
  <2> QED BY <1>1, <1>2, Division
<1>4. v \in Int /\ b2 \in 0..(P - 1) /\ q2 = P * v + b2
  <2> HIDE DEF q2
  <2> QED BY <1>1, <1>3, Division
<1>5. P * L = L * P /\ P * (P * L) = (P * L) * P
  BY <1>1
<1>6. value \div (P * L) = q2
  <2>1. value \div (L * P) = (value \div L) \div P
    BY <1>1, DivisionTwice
  <2> QED BY <1>5, <2>1
<1>7. value \div H = v
  <2>1. value \div ((P * L) * P) = (value \div (P * L)) \div P
    BY <1>1, DivisionTwice
  <2> QED BY <1>1, <1>5, <1>6, <2>1
<1>8. value \div (H * Imms) = v \div Imms
  <2>1. value \div (H * Imms) = (value \div H) \div Imms
    BY <1>1, DivisionTwice
  <2> QED BY <1>7, <2>1
<1>9. ShiftRight(value, Half) = v /\ ShiftRight(value, Half + ImmBits) = v \div Imms
  BY <1>1, <1>7, <1>8 DEF ShiftRight, H
<1>10. /\ Low(ShiftRight(value, ImmBits - 1 + LastBits), ImmBits - 1) = b2
       /\ Low(ShiftRight(value, LastBits), ImmBits - 1) = b1
       /\ Low(ShiftRight(value, 0), LastBits) = b0
  <2>1. value \div TwoTo(0) = value
    BY PowersAssumption
  <2> QED BY <1>1, <1>6, <2>1 DEF ShiftRight, Low, L
<1>11. LongSet(rd, value) = ((first \o put(ImmBits - 1, b2)) \o put(ImmBits - 1, b1)) \o put(LastBits, b0)
  <2> HIDE DEF first, b0, b1, b2
  <2> QED BY <1>10 DEF LongSet, LastBits, first
<1> HIDE DEF b0, b1, b2, q1, q2
<1>12. AllRun(first) /\ \E x \in Int : /\ RunInstrs(f, first) = With(f, rd, x)
                                       /\ \E h \in Int : x = v + H * h
  <2> HIDE DEF v
  <2> QED BY <1>4, <1>9, LuiAddiDoes DEF H
<1> HIDE DEF first, v
<1>13. PICK x \in Int : RunInstrs(f, first) = With(f, rd, x) /\ \E h \in Int : x = v + H * h
  BY <1>12
<1>14. PICK h \in Int : x = v + H * h
  BY <1>13
<1> DEFINE x2 == x * P + b2
           x1 == x2 * P + b1
           x0 == x1 * L + b0
<1>15. x2 \in Int /\ x1 \in Int /\ x0 \in Int
  <2>1. x2 \in Int
    BY <1>1, <1>4
  <2> HIDE DEF x2
  <2>2. x1 \in Int
    BY <1>1, <1>3, <2>1
  <2> HIDE DEF x1
  <2>3. x0 \in Int
    BY <1>1, <1>2, <2>2
  <2> QED BY <2>1, <2>2, <2>3
<1>16. x0 = value + Word * h
  <2>1. x2 = q2 + P * (H * h)
    <3>1. H * h \in Int
      BY <1>1
    <3> DEFINE m == H * h
    <3> HIDE DEF m
    <3>2. (v + m) * P = P * v + P * m
      BY <1>1, <1>4, <3>1 DEF m
    <3>3. P * v \in Int /\ P * m \in Int
      BY <1>1, <1>4, <3>1 DEF m
    <3>4. x2 = (v + m) * P + b2
      BY <1>14 DEF m
    <3>5. x2 = q2 + P * m
      BY <1>4, <3>2, <3>3, <3>4
    <3> QED BY <3>5 DEF m
  <2>2. P * (H * h) \in Int
    BY <1>1
  <2> DEFINE m2 == P * (H * h)
  <2>3. x1 = q1 + P * m2
    <3> HIDE DEF m2
    <3>1. m2 \in Int
      BY <2>2 DEF m2
    <3>2. (q2 + m2) * P = P * q2 + P * m2
      BY <1>1, <1>3, <3>1
    <3>3. P * q2 \in Int /\ P * m2 \in Int
      BY <1>1, <1>3, <3>1
    <3>4. x1 = (q2 + m2) * P + b1
      BY <2>1 DEF m2
    <3> QED BY <1>3, <3>2, <3>3, <3>4
  <2> DEFINE m1 == P * m2
  <2>4. m1 \in Int
    BY <1>1, <2>2
  <2>5. x0 = value + L * m1
    <3> HIDE DEF m1
    <3>2. (q1 + m1) * L = L * q1 + L * m1
      BY <1>1, <1>2, <2>4
    <3>3. L * q1 \in Int /\ L * m1 \in Int
      BY <1>1, <1>2, <2>4
    <3>4. x0 = (q1 + m1) * L + b0
      BY <2>3 DEF m1
    <3> QED BY <1>2, <3>2, <3>3, <3>4
  <2>6. L * m1 = Word * h
    <3> DEFINE e == H * h
    <3>1. e \in Int /\ L \in Int /\ P \in Int /\ H \in Int /\ h \in Int
      BY <1>1
    <3>2. L * m1 = L * (P * (P * e))
      OBVIOUS
    <3> HIDE DEF e
    <3>3. L * (P * (P * e)) = (P * (P * L)) * e
      BY <3>1
    <3>4. L * m1 = H * (H * h)
      BY <1>1, <3>2, <3>3 DEF e
    <3>5. H * (H * h) = (H * H) * h
      BY <3>1
    <3> QED BY <1>1, <3>4, <3>5
  <2> QED BY <2>5, <2>6
<1>17. LET s == put(ImmBits - 1, b2)
       IN  AllRun(s) /\ RunInstrs(With(f, rd, x), s) = With(f, rd, x2)
  BY <1>1, <1>4, PutDoes
<1>18. LET s == put(ImmBits - 1, b1)
       IN  AllRun(s) /\ RunInstrs(With(f, rd, x2), s) = With(f, rd, x1)
  <2> HIDE DEF x2
  <2> QED BY <1>1, <1>3, <1>15, PutDoes
<1>19. LET s == put(LastBits, b0)
       IN  AllRun(s) /\ RunInstrs(With(f, rd, x1), s) = With(f, rd, x0)
  <2> HIDE DEF x1
  <2> QED BY <1>1, <1>2, <1>15, PutDoes DEF L
<1> HIDE DEF x0, x1, x2, put
<1>20. /\ AllRun(first \o put(ImmBits - 1, b2))
       /\ RunInstrs(f, first \o put(ImmBits - 1, b2)) = With(f, rd, x2)
  BY <1>12, <1>13, <1>17, RunJoined
<1>21. /\ AllRun((first \o put(ImmBits - 1, b2)) \o put(ImmBits - 1, b1))
       /\ RunInstrs(f, (first \o put(ImmBits - 1, b2)) \o put(ImmBits - 1, b1)) = With(f, rd, x1)
  BY <1>18, <1>20, RunJoined
<1>22. /\ AllRun(LongSet(rd, value))
       /\ RunInstrs(f, LongSet(rd, value)) = With(f, rd, x0)
  BY <1>11, <1>19, <1>21, RunJoined
<1>23. With(f, rd, x0) = With(f, rd, value)
  BY <1>15, <1>16, WrapSame DEF With
<1> QED BY <1>22, <1>23

\* What is known of registers is what they hold.
Holds(k, f) ==
    /\ IsKnown(k) /\ f \in Files /\ f[0] = Number(0)
    /\ \A r \in DOMAIN k :
          /\ k[r].var \in Nat
          /\ f[r] = IF k[r].var = 0 THEN Number(Wrap(k[r].n)) ELSE k[r]

LEMMA WrapZero == Wrap(0) = 0
<1>1. Word \in Nat \ {0}
  BY WordIs
<1> HIDE DEF Word
<1>2. 0 % Word = 0
  BY <1>1
<1> QED BY <1>2 DEF Wrap, Word

\* An ADDI makes a number of the one in a register.
LEMMA AddiFrom ==
  ASSUME NEW f \in Files, NEW rs \in Regs, NEW rd \in Regs \ {0},
         NEW m \in Int, NEW n \in Int, f[rs] = Number(Wrap(m)), n # Unset
  PROVE  /\ AllRun(<<Addi(n, rs, rd)>>)
         /\ RunInstrs(f, <<Addi(n, rs, rd)>>) = With(f, rd, m + n)
<1> DEFINE i == Addi(n, rs, rd)
<1>1. Runs(i) /\ Executed(f, i) = [f EXCEPT ![rd] = Plus(f[rs], n)]
  BY AddiDoes
<1> HIDE DEF i
<1>2. AllRun(<<i>>) /\ RunInstrs(f, <<i>>) = Executed(f, i)
  BY <1>1, RunOne
<1>3. Plus(f[rs], n) = Number(Wrap(m + n))
  BY NumberPlus
<1>4. Executed(f, i) = With(f, rd, m + n)
  BY <1>1, <1>3 DEF With
<1> QED BY <1>2, <1>4 DEF i

\* set_register sets the value, unless it is a number right below half a word.
LEMMA SetRegisterDoes ==
  ASSUME NEW k, NEW f, Holds(k, f), NEW rd \in Regs \ {0},
         NEW value \in Int, ~AtHalfWord(value)
  PROVE  /\ AllRun(SetRegister(rd, value, k))
         /\ RunInstrs(f, SetRegister(rd, value, k)) = With(f, rd, value)
<1> DEFINE current == rd \in DOMAIN k /\ k[rd].var = 0
           closest == Closest(k, Number(value))
           near == {r \in closest : Near(value - k[r].n)}
           same == Holding(k, Number(value))
           Sets(s) == AllRun(s) /\ RunInstrs(f, s) = With(f, rd, value)
<1>1. /\ IsKnown(k) /\ f \in Files /\ f[0] = Number(0) /\ 0 \in Regs /\ Regs \subseteq Nat
      /\ DOMAIN k \subseteq Regs /\ \A r \in DOMAIN k : k[r].n \in Int
      /\ \A r \in DOMAIN k : k[r].var = 0 => f[r] = Number(Wrap(k[r].n))
  BY RiscvAssumption DEF Holds, IsKnown
<1>2. f[0] = Number(Wrap(0)) /\ 0 # Unset
  BY <1>1, WrapZero DEF Unset
<1>3. Number(value).var = 0 /\ Number(value).n = value
  BY DEF Number
<1>4. \A r \in Regs, m \in Int, n \in Int :
         f[r] = Number(Wrap(m)) /\ n # Unset /\ m + n = value => Sets(<<Addi(n, r, rd)>>)
  <2> SUFFICES ASSUME NEW r \in Regs, NEW m \in Int, NEW n \in Int,
                      f[r] = Number(Wrap(m)), n # Unset, m + n = value
               PROVE  Sets(<<Addi(n, r, rd)>>)
    OBVIOUS
  <2>1. /\ AllRun(<<Addi(n, r, rd)>>)
        /\ RunInstrs(f, <<Addi(n, r, rd)>>) = With(f, rd, m + n)
    BY <1>1, AddiFrom
  <2> QED BY <2>1
<1>5. \A r \in DOMAIN k : k[r].var = 0 /\ Near(value - k[r].n)
         => Sets(<<Addi(value - k[r].n, r, rd)>>)
  <2> SUFFICES ASSUME NEW r \in DOMAIN k, k[r].var = 0, Near(value - k[r].n)
               PROVE  Sets(<<Addi(value - k[r].n, r, rd)>>)
    OBVIOUS
  <2>1. /\ k[r].n \in Int /\ value - k[r].n \in Int /\ k[r].n + (value - k[r].n) = value
        /\ f[r] = Number(Wrap(k[r].n)) /\ r \in Regs
    BY <1>1
  <2>2. value - k[r].n # Unset
    BY <2>1, NearIsImm, ImmNotUnset
  <2> HIDE DEF Sets
  <2> QED BY <1>4, <2>1, <2>2
<1>6. CASE value = 0
  <2>1. Sets(<<Addi(0, 0, rd)>>)
    <3> HIDE DEF Sets
    <3> QED BY <1>1, <1>2, <1>4, <1>6
  <2>2. SetRegister(rd, value, k) = <<Addi(0, 0, rd)>>
    BY <1>6 DEF SetRegister
  <2> QED BY <2>1, <2>2
<1>7. CASE value # 0 /\ same # {}
  <2> DEFINE r == First(same)
  <2>1. same \in SUBSET Nat
    BY <1>1 DEF Holding
  <2>2. r \in same
    BY <1>7, <2>1, FirstIn
  <2>3. r \in DOMAIN k /\ k[r] = Number(value)
    BY <2>2 DEF Holding
  <2>4. r \in Regs /\ f[r] = Number(Wrap(value)) /\ value + 0 = value
    BY <1>1, <1>3, <2>3
  <2>5. SetRegister(rd, value, k) = <<Addi(0, r, rd)>>
    BY <1>7 DEF SetRegister
  <2> HIDE DEF r, same
  <2>6. Sets(<<Addi(0, r, rd)>>)
    <3> HIDE DEF Sets
    <3> QED BY <1>2, <1>4, <2>4
  <2> QED BY <2>5, <2>6
<1>8. CASE value # 0 /\ same = {} /\ current /\ Near(value - k[rd].n)
  <2>1. SetRegister(rd, value, k) = <<Addi(value - k[rd].n, rd, rd)>>
    BY <1>8 DEF SetRegister
  <2>2. Sets(<<Addi(value - k[rd].n, rd, rd)>>)
    <3> HIDE DEF Sets
    <3> QED BY <1>5, <1>8
  <2> QED BY <2>1, <2>2
<1>9. CASE value # 0 /\ same = {} /\ ~(current /\ Near(value - k[rd].n)) /\ near # {}
  <2> DEFINE r == First(near)
  <2>1. \A q \in closest : q \in DOMAIN k /\ k[q].var = 0
    BY <1>1, <1>3, ClosestIn
  <2>2. near \in SUBSET Nat
    BY <1>1, <2>1
  <2>3. r \in near
    BY <1>9, <2>2, FirstIn
  <2>4. SetRegister(rd, value, k) = <<Addi(value - k[r].n, r, rd)>>
    BY <1>9 DEF SetRegister
  <2>5. r \in DOMAIN k /\ k[r].var = 0 /\ Near(value - k[r].n)
    BY <2>1, <2>3
  <2>6. Sets(<<Addi(value - k[r].n, r, rd)>>)
    <3> HIDE DEF Sets, r
    <3> QED BY <1>5, <2>5
  <2> QED BY <2>4, <2>6
<1> DEFINE rest == value # 0 /\ same = {} /\ ~(current /\ Near(value - k[rd].n)) /\ near = {}
<1>10. CASE rest /\ IsImm(value)
  <2>1. SetRegister(rd, value, k) = <<Addi(value, 0, rd)>>
    BY <1>10 DEF SetRegister
  <2>2. value # Unset /\ 0 + value = value
    BY <1>10, ImmNotUnset
  <2>3. Sets(<<Addi(value, 0, rd)>>)
    <3> HIDE DEF Sets
    <3> QED BY <1>1, <1>2, <1>4, <2>2
  <2> QED BY <2>1, <2>3
<1> DEFINE short == -(TwoTo(Half - 1)) <= value /\ value < TwoTo(Half - 1)
<1>11. CASE rest /\ ~IsImm(value) /\ short
  <2>1. SetRegister(rd, value, k) = LuiAddi(rd, UpperLower(value, 0))
    BY <1>11 DEF SetRegister
  <2>2. ShiftRight(value, 0) = value /\ ShiftRight(value, 0 + ImmBits) = value \div Imms
    <3>1. value \div 1 = value /\ 0 + ImmBits = ImmBits
      BY RiscvAssumption
    <3> QED BY <3>1, PowersAssumption DEF ShiftRight, Imms
  <2>3. -TwoTo(Half - 1) <= value /\ value < TwoTo(Half - 1) - HalfImms
    <3>1. TwoTo(Half - 1) \in Int /\ HalfImms \in Int
      BY Powers
    <3> QED BY <1>11, <3>1 DEF AtHalfWord, HalfImms
  <2> DEFINE s == LuiAddi(rd, UpperLower(value, 0))
  <2>4. AllRun(s) /\ \E x \in Int : RunInstrs(f, s) = With(f, rd, x) /\ x = value
    BY <1>1, <2>2, <2>3, LuiAddiDoes
  <2> HIDE DEF s
  <2>5. Sets(s)
    BY <2>4
  <2> QED BY <2>1, <2>5 DEF s
<1>12. CASE rest /\ ~IsImm(value) /\ ~short
  <2>1. SetRegister(rd, value, k) = LongSet(rd, value)
    BY <1>12 DEF SetRegister
  <2> QED BY <1>1, <2>1, LongSetDoes
<1> QED BY <1>6, <1>7, <1>8, <1>9, <1>10, <1>11, <1>12

\* More than one ADDI is needed for what one cannot add.
LEMMA FarAdds ==
  ASSUME NEW rd, NEW n \in Int, n # 0, ~Near(n)
  PROVE  Len(AddToRegister(rd, n)) >= 2
<1> DEFINE most == TwoTo(ImmBits - 1) - 1
           d == Abs(n) - 1
           steps == d \div most
           sign == IF n < 0 THEN -1 ELSE 1
           i == Addi(sign * most, rd, rd)
           j == Addi(n - sign * steps * most, rd, rd)
           first == [s \in 1..steps |-> i]
           rest == <<j>>
<1>1. AddToRegister(rd, n) = first \o rest
  BY DEF AddToRegister
<1>2. IsInstr(i) /\ IsInstr(j)
  BY AddiIs
<1> HIDE DEF i, j
<1>3. most \in Nat \ {0} /\ d \in Nat /\ d >= most
  BY Powers DEF Near, Abs, HalfImms
<1> HIDE DEF most, d
<1>4. steps \in Nat \ {0}
  <2>1. /\ d \div most \in Int /\ d % most \in 0..(most - 1)
        /\ d = most * (d \div most) + (d % most)
    BY <1>3, Division
  <2>2. d \div most \in Nat
    BY <1>3, DivMod
  <2> QED BY <1>3, <2>1, <2>2
<1> HIDE DEF steps
<1>5. IsCode(first) /\ Len(first) = steps
  <2>1. first = [k \in 1..steps |-> first[k]] /\ \A k \in 1..steps : IsInstr(first[k])
    BY <1>2
  <2> HIDE DEF first
  <2> QED BY <1>4, <2>1, CodeMade
<1>6. IsCode(rest) /\ Len(rest) = 1
  BY <1>2, OneInstr
<1> HIDE DEF first, rest
<1>7. Len(first \o rest) = Len(first) + Len(rest)
  BY <1>5, <1>6, CodeJoined
<1> QED BY <1>1, <1>4, <1>5, <1>6, <1>7

\* set_register_to_address sets the address, from a register near to it or by
\* name.
LEMMA SetAddressDoes ==
  ASSUME NEW k, NEW f, Holds(k, f), NEW rd \in Regs \ {0},
         NEW a \in Value, a.var \in Nat \ {0}
  PROVE  /\ AllRun(SetRegisterToAddress(rd, a, k))
         /\ RunInstrs(f, SetRegisterToAddress(rd, a, k)) = [f EXCEPT ![rd] = a]
<1> DEFINE closest == Closest(k, a)
           from == First(closest)
           disp == a.n - k[from].n
           copy == IF from = rd THEN <<>> ELSE <<Instr("or", <<from, from, rd>>)>>
           near == IF disp # 0 /\ Near(disp) THEN <<Addi(disp, from, rd)>>
                   ELSE copy \o AddToRegister(rd, disp)
           Sets(s) == AllRun(s) /\ RunInstrs(f, s) = [f EXCEPT ![rd] = a]
<1>1. /\ IsKnown(k) /\ f \in Files /\ a.n \in Int /\ DOMAIN k \subseteq Regs
      /\ \A r \in DOMAIN k : k[r].n \in Int /\ (k[r].var # 0 => f[r] = k[r])
  BY DEF Holds, IsKnown, Value
<1>2. SetRegisterToAddress(rd, a, k) = IF closest # {} /\ Len(near) < 2
                                       THEN near ELSE SetByName(rd, a)
  BY DEF SetRegisterToAddress
<1>3. ASSUME closest # {}, Len(near) < 2 PROVE Sets(near)
  <2>1. from \in closest
    <3>1. closest \in SUBSET Nat
      BY <1>1, ClosestIn, RiscvAssumption
    <3> HIDE DEF closest
    <3> QED BY <1>3, <3>1, FirstIn
  <2>2. from \in DOMAIN k /\ k[from].var = a.var
    BY <1>1, <2>1, ClosestIn
  <2>3. /\ from \in Regs /\ k[from].n \in Int /\ disp \in Int
        /\ f[from] = k[from] /\ f[from] \in Value
    BY <1>1, <2>2, NumberIs
  <2> DEFINE m == k[from].n
  <2>4. k[from] = [var |-> a.var, n |-> m] /\ a = [var |-> a.var, n |-> a.n]
    BY <2>2, <2>3 DEF Value
  <2>5. CASE disp # 0 /\ Near(disp)
    <3>1. disp # Unset
      BY <2>3, <2>5, NearIsImm, ImmNotUnset
    <3>2. Plus(f[from], disp) = a
      <4>1. f[from] # Garbage /\ f[from].var # 0 /\ m + disp = a.n
        BY <1>1, <2>2, <2>3 DEF Garbage
      <4>2. [[var |-> a.var, n |-> m] EXCEPT !.n = @ + disp] = [var |-> a.var, n |-> m + disp]
        OBVIOUS
      <4> HIDE DEF disp, m
      <4> QED BY <2>3, <2>4, <4>1, <4>2 DEF Plus
    <3> DEFINE i == Addi(disp, from, rd)
    <3>3. Runs(i) /\ Executed(f, i) = [f EXCEPT ![rd] = Plus(f[from], disp)]
      BY <1>1, <2>3, <3>1, AddiDoes
    <3>4. near = <<i>>
      BY <2>5
    <3> HIDE DEF i, near
    <3>5. AllRun(<<i>>) /\ RunInstrs(f, <<i>>) = Executed(f, i)
      BY <1>1, <3>3, RunOne
    <3> QED BY <3>2, <3>3, <3>4, <3>5
  <2>6. CASE disp = 0
    <3>1. a.n = m
      BY <1>1, <2>3, <2>6
    <3>2. f[from] = a
      BY <2>3, <2>4, <3>1
    <3>3. AddToRegister(rd, 0) = <<>>
      BY DEF AddToRegister
    <3>4. near = copy \o <<>>
      BY <2>6, <3>3
    <3>5. CASE from = rd
      <4>1. near = <<>>
        BY <3>4, <3>5
      <4>2. [f EXCEPT ![rd] = a] = f
        BY <1>1, <3>2, <3>5 DEF Files
      <4> QED BY <1>1, <4>1, <4>2, RunNone
    <3>6. CASE from # rd
      <4> DEFINE i == Instr("or", <<from, from, rd>>)
      <4>1. near = <<i>>
        BY <3>4, <3>6
      <4>2. Runs(i) /\ Executed(f, i) = [f EXCEPT ![rd] = f[from]]
        BY <1>1, <2>3, OrDoes
      <4> HIDE DEF i, near
      <4>3. AllRun(<<i>>) /\ RunInstrs(f, <<i>>) = Executed(f, i)
        BY <1>1, <4>2, RunOne
      <4> QED BY <3>2, <4>1, <4>2, <4>3
    <3> QED BY <3>5, <3>6
  <2>7. CASE disp # 0 /\ ~Near(disp)
    <3>1. near = copy \o AddToRegister(rd, disp)
      BY <2>7
    <3>2. Len(AddToRegister(rd, disp)) >= 2
      BY <2>3, <2>7, FarAdds
    <3>3. IsCode(copy)
      <4>1. IsInstr(Instr("or", <<from, from, rd>>))
        BY DEF IsInstr, Instr, Operands
      <4> HIDE DEF from
      <4> QED BY <4>1, OneInstr, NoInstr
    <3>4. IsCode(AddToRegister(rd, disp))
      BY <2>3, AddToRegisterIs DEF AreAdds
    <3> DEFINE adds == AddToRegister(rd, disp)
    <3> HIDE DEF copy, adds
    <3>5. Len(copy \o adds) = Len(copy) + Len(adds) /\ Len(copy) \in Nat /\ Len(adds) \in Nat
      BY <3>3, <3>4, CodeJoined, CodeOf DEF adds
    <3>6. Len(near) >= 2
      <4> HIDE DEF near
      <4> QED BY <3>1, <3>2, <3>5 DEF adds
    <3> HIDE DEF near
    <3>7. Len(near) \in Nat
      BY <3>1, <3>5 DEF adds
    <3> QED BY <1>3, <3>6, <3>7
  <2> QED BY <2>5, <2>6, <2>7
<1>4. Sets(SetByName(rd, a))
  BY <1>1, SetByNameDoes
<1> HIDE DEF near, closest
<1> QED BY <1>2, <1>3, <1>4

\* What is put in a register is known of it.
LEMMA KnownPut ==
  ASSUME NEW k, NEW f, Holds(k, f), NEW r \in Regs \ {0},
         NEW v \in Value, v.var \in Nat,
         NEW w \in Value, w = IF v.var = 0 THEN Number(Wrap(v.n)) ELSE v
  PROVE  Holds(Knowing(k, r, v), [f EXCEPT ![r] = w])
<1>1. v.n \in Int
  BY DEF Value
<1>2. IsKnown(Knowing(k, r, v))
  BY <1>1, KnowingIs DEF Holds
<1>3. f \in Files /\ f[0] = Number(0) /\ DOMAIN k \subseteq Regs /\ 0 \in Regs
  BY RiscvAssumption DEF Holds, IsKnown
<1>4. [f EXCEPT ![r] = w] \in Files
  <2> HIDE DEF Value
  <2> QED BY <1>3 DEF Files
<1>5. [f EXCEPT ![r] = w][0] = Number(0)
  BY <1>3 DEF Files
<1>6. ASSUME NEW q \in DOMAIN Knowing(k, r, v)
      PROVE  LET u == Knowing(k, r, v)[q]
             IN  /\ u.var \in Nat
                 /\ [f EXCEPT ![r] = w][q] = IF u.var = 0 THEN Number(Wrap(u.n)) ELSE u
  <2>1. q \in DOMAIN k \cup {r} /\ Knowing(k, r, v)[q] = IF q = r THEN v ELSE k[q]
    BY DEF Knowing
  <2>2. q \in Regs
    BY <1>3, <2>1
  <2>3. [f EXCEPT ![r] = w][q] = IF q = r THEN w ELSE f[q]
    BY <1>3, <2>2 DEF Files
  <2>4. CASE q = r
    BY <2>1, <2>3, <2>4
  <2>5. CASE q # r
    <3>1. q \in DOMAIN k /\ Knowing(k, r, v)[q] = k[q]
      BY <2>1, <2>5
    <3> QED BY <2>3, <2>5, <3>1 DEF Holds
  <2> QED BY <2>4, <2>5
<1> QED BY <1>2, <1>4, <1>5, <1>6 DEF Holds

\* The registers of streams differ from one another.
RegistersApart(regs, n) ==
    \A i, j \in 1..n : /\ regs.base[i] # regs.idx[j]
                       /\ i # j => /\ regs.base[i] # regs.base[j]
                                   /\ regs.idx[i] # regs.idx[j]

LEMMA StreamRegsApart ==
  ASSUME NEW n \in Nat, NEW taken, Cardinality(AddressRegsLeft(taken)) >= 2 * n
  PROVE  RegistersApart(StreamRegs(n, taken), n)
<1> DEFINE S == AddressRegsLeft(taken)
           left == Sorted(S)
           regs == StreamRegs(n, taken)
<1>1. S \in SUBSET Regs /\ IsFiniteSet(Regs) /\ Regs \in SUBSET Nat
  BY RiscvAssumption DEF AddressRegsLeft
<1> HIDE DEF S
<1>2. IsFiniteSet(S) /\ S \in SUBSET Nat
  BY <1>1, FS_Subset
<1>3. left \in Seq(S) /\ Len(left) >= 2 * n /\ Len(left) \in Nat /\ Distinct(left)
  BY <1>1, <1>2, SortedNumbers, SortedSet DEF S
<1> HIDE DEF left
<1>4. \A p, q \in 1..Len(left) : p # q => left[p] # left[q]
  BY <1>3 DEF Distinct
<1>5. \A i \in 1..n : regs.base[i] = left[2 * i - 1] /\ regs.idx[i] = left[2 * i]
  BY DEF StreamRegs, left, S
<1> HIDE DEF regs
<1>6. \A i, j \in 1..n :
         /\ 2 * i - 1 \in 1..Len(left) /\ 2 * i \in 1..Len(left)
         /\ 2 * j - 1 \in 1..Len(left) /\ 2 * j \in 1..Len(left)
         /\ 2 * i - 1 # 2 * j
         /\ i # j => 2 * i - 1 # 2 * j - 1 /\ 2 * i # 2 * j
  BY <1>3
<1>7. RegistersApart(regs, n)
  BY <1>4, <1>5, <1>6 DEF RegistersApart
<1> QED BY <1>7 DEF regs

\* What is known with one more stream
LEMMA OneMoreStream ==
  ASSUME NEW n \in Nat, NEW regs, RegistersApart(regs, n), NEW s \in 1..n
  PROVE  KnowingStreams(regs, s) =
           Knowing(Knowing(KnowingStreams(regs, s - 1), regs.base[s], [var |-> step, n |-> 0]),
                   regs.idx[s], Number(0))
<1> DEFINE bases(m) == {regs.base[j] : j \in 1..m}
           indices(m) == {regs.idx[j] : j \in 1..m}
           a == [var |-> step, n |-> 0]
           b == regs.base[s]
           x == regs.idx[s]
<1>1. 1..s = 1..(s - 1) \cup {s} /\ \A j \in 1..s : j \in 1..n /\ (j \in 1..(s - 1) => j # s)
  OBVIOUS
<1>2. bases(s) = bases(s - 1) \cup {b} /\ indices(s) = indices(s - 1) \cup {x}
  BY <1>1
<1>3. x \notin bases(s)
  BY <1>1 DEF RegistersApart
<1>4. \A m : KnowingStreams(regs, m) =
         [r \in DOMAIN known \cup bases(m) \cup indices(m) |->
            IF r \in bases(m) THEN a ELSE IF r \in indices(m) THEN Number(0) ELSE known[r]]
  BY DEF KnowingStreams
<1> HIDE DEF bases, indices, a, b, x
<1> DEFINE k == KnowingStreams(regs, s - 1)
           l == KnowingStreams(regs, s)
           g == Knowing(k, b, a)
           h == Knowing(g, x, Number(0))
<1>5. /\ DOMAIN k = DOMAIN known \cup bases(s - 1) \cup indices(s - 1)
      /\ \A r \in DOMAIN k :
            k[r] = IF r \in bases(s - 1) THEN a ELSE IF r \in indices(s - 1) THEN Number(0) ELSE known[r]
  BY <1>4
<1>6. h = [q \in DOMAIN k \cup {b} \cup {x} |->
              IF q = x THEN Number(0) ELSE IF q = b THEN a ELSE k[q]]
  BY DEF Knowing
<1>7. l = [r \in DOMAIN k \cup {b} \cup {x} |->
              IF r \in bases(s) THEN a ELSE IF r \in indices(s) THEN Number(0) ELSE known[r]]
  <2>1. DOMAIN known \cup bases(s) \cup indices(s) = DOMAIN k \cup {b} \cup {x}
    BY <1>2, <1>5
  <2> HIDE DEF k
  <2> QED BY <1>4, <2>1
<1> HIDE DEF k
<1>8. ASSUME NEW q \in DOMAIN k \cup {b} \cup {x}
      PROVE  (IF q = x THEN Number(0) ELSE IF q = b THEN a ELSE k[q])
               = IF q \in bases(s) THEN a ELSE IF q \in indices(s) THEN Number(0) ELSE known[q]
  BY <1>2, <1>3, <1>5
<1>9. h = l
  <2> HIDE DEF h, l
  <2> QED BY <1>6, <1>7, <1>8
<1> QED BY <1>9 DEF k, a, b, x

\* A stream's registers hold the address of the variable and zero.
LEMMA SetStreamDoes ==
  ASSUME NEW n \in Nat, NEW regs, Registers(regs, n), RegistersApart(regs, n), NEW s \in 1..n,
         regs.base[s] # 0, regs.idx[s] # 0, step \in Nat \ {0},
         NEW f, Holds(KnowingStreams(regs, s - 1), f)
  PROVE  Holds(KnowingStreams(regs, s), SetStream(f, regs, s))
<1> DEFINE before == KnowingStreams(regs, s - 1)
           a == [var |-> step, n |-> 0]
           b == regs.base[s]
           x == regs.idx[s]
           g == [f EXCEPT ![b] = a]
           more == Knowing(before, b, a)
           adr == SetRegisterToAddress(b, a, before)
           zero == SetRegister(x, 0, more)
<1>1. b \in Regs \ {0} /\ x \in Regs \ {0}
  BY DEF Registers
<1>2. a \in Value /\ a.var \in Nat \ {0} /\ Number(0) \in Value
      /\ Number(0).var = 0 /\ Number(0).n = 0
  BY DEF Value, Number
<1>3. ~AtHalfWord(0)
  <2>1. /\ HalfImms \in Nat \ {0} /\ HalfUppers \in Nat \ {0} /\ Imms = 2 * HalfImms
        /\ TwoTo(Half - 1) = Imms * HalfUppers
    BY Powers
  <2>2. Imms * HalfUppers >= Imms /\ Imms * HalfUppers \in Nat
    BY <2>1
  <2>3. TwoTo(Half - 1) - HalfImms > 0
    BY <2>1, <2>2
  <2> QED BY <2>1, <2>2, <2>3 DEF AtHalfWord, HalfImms
<1>4. SetStream(f, regs, s) = RunInstrs(f, adr \o zero)
  BY DEF SetStream
<1>5. KnowingStreams(regs, s) = Knowing(more, x, Number(0))
  BY OneMoreStream
<1>6. Holds(before, f) /\ f \in Files
  BY DEF Holds
<1> HIDE DEF before, a, b, x
<1>7. AllRun(adr) /\ RunInstrs(f, adr) = g
  BY <1>1, <1>2, <1>6, SetAddressDoes
<1>8. Holds(more, g)
  BY <1>1, <1>2, <1>6, KnownPut
<1>9. AllRun(zero) /\ RunInstrs(g, zero) = With(g, x, 0)
  <2> HIDE DEF more, g
  <2> QED BY <1>1, <1>3, <1>8, SetRegisterDoes
<1>10. RunInstrs(f, adr \o zero) = With(g, x, 0)
  <2> HIDE DEF more, g, adr, zero
  <2> QED BY <1>6, <1>7, <1>9, RunJoined
<1>11. Holds(Knowing(more, x, Number(0)), With(g, x, 0))
  <2>1. Number(Wrap(0)) \in Value
    BY WrapIs
  <2> HIDE DEF more, g, Value
  <2> QED BY <1>1, <1>2, <1>8, <2>1, KnownPut DEF With
<1> QED BY <1>4, <1>5, <1>10, <1>11

\* So do the registers of all streams of a variable.
LEMMA SetStreamsDoes ==
  ASSUME NEW n \in Nat, NEW regs, Registers(regs, n), RegistersApart(regs, n),
         \A s \in 1..n : regs.base[s] # 0 /\ regs.idx[s] # 0,
         step \in Nat \ {0}, Holds(known, file)
  PROVE  Holds(KnowingStreams(regs, n), SetStreams(regs, n))
<1> DEFINE Is(h) == h = [s \in 0..n |-> IF s = 0 THEN file ELSE SetStream(h[s - 1], regs, s)]
           turn == [s \in 1..n |-> [e \in Files |->
                      IF SetStream(e, regs, s) \in Files THEN SetStream(e, regs, s) ELSE e]]
           g == CHOOSE h : Is(h)
<1>1. \A s \in 1..n : \A e \in Files :
        /\ turn[s][e] \in Files
        /\ SetStream(e, regs, s) \in Files => turn[s][e] = SetStream(e, regs, s)
  OBVIOUS
<1>2. StepsInto(turn, n, Files)
  <2> HIDE DEF turn
  <2> QED BY <1>1 DEF StepsInto
<1> HIDE DEF turn
<1>3. file \in Files
  BY DEF Holds
<1>4. PICK h \in [0..n -> Files] : Unrolls(h, n, file, turn)
  BY <1>2, <1>3, RecursiveFunction
<1>5. \A s \in 1..n : s - 1 \in 0..n /\ s \in 0..n /\ s # 0
  OBVIOUS
<1>6. Holds(KnowingStreams(regs, 0), file)
  <2>1. {regs.base[j] : j \in 1..0} = {} /\ {regs.idx[j] : j \in 1..0} = {}
    OBVIOUS
  <2>2. KnowingStreams(regs, 0) = [r \in DOMAIN known |-> known[r]]
    BY <2>1 DEF KnowingStreams
  <2> QED BY <2>2 DEF Holds, IsKnown
<1> DEFINE S == {s \in 0..n : /\ Holds(KnowingStreams(regs, s), h[s])
                              /\ s # 0 => h[s] = SetStream(h[s - 1], regs, s)}
<1>7. 0 \in S
  BY <1>4, <1>6 DEF Unrolls
<1>8. ASSUME NEW s \in 1..n, s - 1 \in S PROVE s \in S
  <2>1. h[s - 1] \in Files /\ Holds(KnowingStreams(regs, s - 1), h[s - 1])
    BY <1>5, <1>8
  <2> DEFINE e == h[s - 1]
  <2>2. Holds(KnowingStreams(regs, s), SetStream(e, regs, s))
    BY <2>1, SetStreamDoes
  <2>3. SetStream(e, regs, s) \in Files
    BY <2>2 DEF Holds
  <2>4. h[s] = turn[s][e]
    BY <1>4 DEF Unrolls
  <2>5. h[s] = SetStream(e, regs, s)
    BY <1>1, <2>1, <2>3, <2>4
  <2> QED BY <1>5, <2>2, <2>5
<1> HIDE DEF S
<1>9. 0..n \subseteq S
  BY <1>7, <1>8, SetInductionUpTo
<1>10. Is(h)
  <2>1. \A s \in 0..n : h[s] = IF s = 0 THEN file ELSE SetStream(h[s - 1], regs, s)
    BY <1>4, <1>9 DEF S, Unrolls
  <2> QED BY <2>1
<1>11. Is(g)
  <2> HIDE DEF Is
  <2> QED BY <1>10
<1>12. SetStreams(regs, n) = g[n]
  BY DEF SetStreams
<1> HIDE DEF g
<1>13. g[0] = file /\ \A s \in 1..n : g[s] = SetStream(g[s - 1], regs, s)
  BY <1>5, <1>11
<1> DEFINE T == {s \in 0..n : g[s] = h[s]}
<1>14. 0 \in T
  BY <1>4, <1>13 DEF Unrolls
<1>15. ASSUME NEW s \in 1..n, s - 1 \in T PROVE s \in T
  <2>1. s \in S /\ s \in 0..n /\ s # 0
    BY <1>5, <1>9
  <2>2. h[s] = SetStream(h[s - 1], regs, s)
    BY <2>1 DEF S
  <2> QED BY <1>13, <1>15, <2>1, <2>2
<1> HIDE DEF T
<1>16. 0..n \subseteq T
  BY <1>14, <1>15, SetInductionUpTo
<1>17. n \in 0..n
  OBVIOUS
<1> QED BY <1>9, <1>12, <1>16, <1>17 DEF S, T

Settable == {"initialize", "declare"}

\* Until the streams are declared, what is known is what the registers hold.
KnownInv ==
    /\ phase \in Settable /\ 0 \notin DOMAIN known
    /\ \A e \in ToSet(case.given) : ~AtHalfWord(e.value)
    => Holds(known, file)

LEMMA KnownInit == Init => KnownInv
<1> SUFFICES ASSUME Init PROVE Holds(known, file)
  BY DEF KnownInv
<1>1. /\ known = [r \in {} |-> Number(0)]
      /\ file = [r \in Regs |-> IF r = 0 THEN Number(0) ELSE Garbage]
  BY DEF Init, InitBuilding
<1>2. Number(0) \in Value /\ Garbage \in Value /\ 0 \in Regs
  BY RiscvAssumption DEF Number, Garbage, Value
<1>3. file \in Files /\ file[0] = Number(0)
  <2> HIDE DEF Value
  <2> QED BY <1>1, <1>2 DEF Files
<1>4. DOMAIN known = {}
  BY <1>1
<1> QED BY <1>3, <1>4 DEF Holds, IsKnown

LEMMA KnownOutside == ASSUME phase' \notin Settable PROVE KnownInv'
BY DEF KnownInv

LEMMA KnownSame ==
  ASSUME KnownInv, UNCHANGED <<phase, case, known, file>> PROVE KnownInv'
BY DEF KnownInv, Holds, IsKnown

LEMMA InitializeKnown ==
  ASSUME BuildInv, KnownInv, InitializeRegister
  PROVE  KnownInv'
<1> DEFINE e == case.given[step]
<1>1. /\ phase = "initialize" /\ phase' = phase /\ case' = case
      /\ step \in 1..Len(case.given) /\ case \in Cases
  BY ModelIs DEF InitializeRegister, BuildInv
<1>2. e.reg \in Regs /\ e.value \in Int /\ e \in ToSet(case.given)
  <2>1. e.reg \in Regs /\ e.value \in Int /\ step \in DOMAIN case.given
    BY <1>1, ModelIs, CasesAssumption
  <2> QED BY <2>1 DEF ToSet
<1>3. CASE e.reg \in reserved
  <2>1. UNCHANGED <<known, file>>
    BY <1>3 DEF InitializeRegister
  <2> QED BY <1>1, <2>1, KnownSame
<1>4. CASE e.reg \notin reserved
  <2>1. /\ file' = RunInstrs(file, SetRegister(e.reg, e.value, known))
        /\ known' = Knowing(known, e.reg, Number(e.value))
    BY <1>4 DEF InitializeRegister, Initialized
  <2> HIDE DEF e
  <2> SUFFICES ASSUME 0 \notin DOMAIN known', \A d \in ToSet(case.given) : ~AtHalfWord(d.value)
               PROVE  Holds(known', file')
    BY <1>1 DEF KnownInv
  <2>2. DOMAIN known' = DOMAIN known \cup {e.reg}
    BY <2>1 DEF Knowing
  <2>3. Holds(known, file) /\ e.reg \in Regs \ {0}
    BY <1>1, <1>2, <2>2 DEF KnownInv, Settable
  <2>4. file' = With(file, e.reg, e.value)
    BY <1>2, <2>1, <2>3, SetRegisterDoes
  <2>5. /\ Number(e.value) \in Value /\ Number(e.value).var = 0 /\ Number(e.value).n = e.value
        /\ Number(Wrap(e.value)) \in Value
    BY <1>2, WrapIs DEF Number, Value
  <2> HIDE DEF Value
  <2>6. Holds(Knowing(known, e.reg, Number(e.value)), [file EXCEPT ![e.reg] = Number(Wrap(e.value))])
    BY <2>3, <2>5, KnownPut
  <2> QED BY <2>1, <2>4, <2>6 DEF With
<1> QED BY <1>3, <1>4

LEMMA DeclareKnown ==
  ASSUME BuildInv, KnownInv, DeclareStream
  PROVE  KnownInv'
<1>1. /\ phase = "declare" /\ step <= Len(Model) /\ UNCHANGED case
      /\ case \in Cases /\ step \in Nat \ {0}
  BY DEF DeclareStream, BuildInv
<1>2. Len(Model) \in Nat /\ step \in Sids /\ Model[step].streams \in Nat \ {0}
  BY <1>1, ModelIs
<1>3. CASE Fails
  BY <1>3, KnownOutside DEF Fails, Settable
<1>4. CASE ~Fails
  <2> DEFINE n == IF step \in Sharing THEN Model[step].streams ELSE 0
             regs == StreamRegs(n, reserved)
  <2>1. /\ ~(step \in Sharing /\ ~EnoughRegs(step, reserved))
        /\ known' = KnowingStreams(regs, n) /\ file' = SetStreams(regs, n)
        /\ phase' = phase
    BY <1>4 DEF DeclareStream
  <2>2. n \in Nat /\ Cardinality(AddressRegsLeft(reserved)) >= 2 * n
    <3>1. CASE step \in Sharing
      BY <1>2, <2>1, <3>1 DEF EnoughRegs
    <3>2. CASE step \notin Sharing
      <4>1. IsFiniteSet(AddressRegsLeft(reserved))
        BY RiscvAssumption, FS_Subset DEF AddressRegsLeft
      <4> QED BY <3>2, <4>1, FS_CardinalityType
    <3> QED BY <3>1, <3>2
  <2> HIDE DEF n
  <2>3. Registers(regs, n) /\ RegistersApart(regs, n)
    BY <2>2, StreamRegsIs, StreamRegsApart
  <2> HIDE DEF regs
  <2> SUFFICES ASSUME 0 \notin DOMAIN known', \A d \in ToSet(case.given) : ~AtHalfWord(d.value)
               PROVE  Holds(known', file')
    BY <1>1 DEF KnownInv
  <2>4. DOMAIN known' = DOMAIN known \cup {regs.base[j] : j \in 1..n}
                                     \cup {regs.idx[j] : j \in 1..n}
    BY <2>1 DEF KnowingStreams
  <2>5. Holds(known, file) /\ \A s \in 1..n : regs.base[s] # 0 /\ regs.idx[s] # 0
    BY <1>1, <2>4 DEF KnownInv, Settable
  <2> QED BY <1>1, <2>1, <2>2, <2>3, <2>5, SetStreamsDoes
<1> QED BY <1>3, <1>4

LEMMA KnownStep == BuildInv /\ KnownInv /\ [Next]_vars => KnownInv'
<1> SUFFICES ASSUME BuildInv, KnownInv, [Next]_vars PROVE KnownInv'
  OBVIOUS
<1>1. CASE InitializeRegister
  BY <1>1, InitializeKnown
<1>2. CASE InitializeDone
  <2>1. phase = "initialize" /\ UNCHANGED <<case, known, file>>
    BY <1>2 DEF InitializeDone
  <2> QED BY <2>1 DEF KnownInv, Settable, Holds, IsKnown
<1>3. CASE StreamsNext
  <2>1. CASE DeclareStream
    BY <2>1, DeclareKnown
  <2>2. CASE ~DeclareStream
    <3>1. phase' \notin Settable
      BY <1>3, <2>2 DEF StreamsNext, DeclareDone, ModelOther, ModelAccess, ModelDone, FinishStream,
             FinishDone, Modelling, Modelled, Proceed, Fails, Settable
    <3> QED BY <3>1, KnownOutside
  <2> QED BY <2>1, <2>2
<1>4. CASE NoHazardsNext
  <2>1. phase' \notin Settable
    BY <1>4 DEF NoHazardsNext, Collect, Minimum, MinimumDone, Balance, BalanceDone, Rotate,
                RotateDone, Proceed, Settable
  <2> QED BY <2>1, KnownOutside
<1>5. CASE DefaultNext
  <2>1. phase' \notin Settable
    BY <1>5, DefaultPhases DEF After, Settable
  <2> QED BY <2>1, KnownOutside
<1>6. CASE Execute \/ NextLoop
  <2>1. phase' \notin Settable
    BY <1>6 DEF Execute, NextLoop, building, Settable
  <2> QED BY <2>1, KnownOutside
<1>7. CASE UNCHANGED vars
  BY <1>7, KnownSame DEF vars, building
<1> QED BY <1>1, <1>2, <1>3, <1>4, <1>5, <1>6, <1>7 DEF Next

\* For any registers, numbers and width of immediates: what the context says of
\* the registers before the loop is what they hold when it starts, whichever of
\* their paths set_register and set_register_to_address took
\* (InitializeRegistersPass, GenericMemoryStreamsPass).
THEOREM KnownIsHeld == Spec => []RegistersKnown
<1>1. Spec => []BuildInv
  BY BuildInit, BuildStep, PTL DEF Spec
<1>2. Spec => []KnownInv
  BY <1>1, KnownInit, KnownStep, PTL DEF Spec
<1>3. KnownInv => RegistersKnown
  BY DEF KnownInv, RegistersKnown, Settable, Holds
<1> QED BY <1>2, <1>3, PTL

-----------------------------------------------------------------------------
(* The walk of memory streams, which the generated loop is checked to      *)
(* follow: the steps before the return to the start, and the accesses of   *)
(* one iteration past the last of them, fit in the variable.               *)

VARIABLE window  \* of each variable: its size, largest displacement, stride

W == INSTANCE StreamWalk

\* An invariant that is inductive: what was planned stays, and the last access
\* was in the variable it was planned for.
WalkInv ==
    /\ loop \in Nat /\ at \in Nat
    /\ W!WellPlanned(plan, window)
    /\ plan = <<>> => address = W!Nowhere
    /\ W!InBounds

\* What an access does to an address: planned and moved on, it is in bounds.
LEMMA MovedInBounds ==
    ASSUME loop \in Nat, W!WellPlanned(plan, window), NEW k \in DOMAIN plan
    PROVE  LET a == plan[k]
           IN  /\ 0 <= a.n + W!Offset(a.var)
               /\ a.n + W!Offset(a.var) < window[a.var].size
PROOF
<1> DEFINE v == plan[k].var
           n == plan[k].n
           w == window[v]
<1>1. /\ v \in DOMAIN window /\ n \in Nat
      /\ w.size \in Nat /\ w.max \in Nat /\ w.stride \in Nat
      /\ n <= w.max /\ w.max < w.size
      /\ w.stride = 0 => w.max = 0
  <2> DEFINE R == [var : DOMAIN window, n : Nat]
  <2>0. plan \in Seq(R)
    BY DEF W!WellPlanned
  <2>1. plan[k] \in R
    <3> HIDE DEF R
    <3> QED
      BY <2>0
  <2>2. v \in DOMAIN window /\ n \in Nat
    BY <2>1
  <2>3. window[v] \in [size : Nat, max : Nat, stride : Nat]
    BY <2>2 DEF W!WellPlanned
  <2>4. n <= w.max /\ w.max < w.size /\ (w.stride = 0 => w.max = 0)
    BY DEF W!WellPlanned
  <2> QED
    BY <2>2, <2>3, <2>4
<1>2. CASE W!Rounds(v) = 1
  <2>1. loop % 1 = 0
    OBVIOUS
  <2>2. W!Step(v) \in Nat
    BY <1>1 DEF W!Step
  <2>3. W!Offset(v) = 0
    BY <1>2, <2>1, <2>2 DEF W!Offset
  <2> QED
    BY <1>1, <2>3
<1>3. CASE W!Rounds(v) # 1
  <2>1. /\ W!Rounds(v) = w.size \div W!Step(v) /\ W!Rounds(v) # 0
        /\ w.max # 0
    BY <1>3 DEF W!Rounds
  <2>2. W!Step(v) \in Nat \ {0} /\ W!Step(v) = w.max + w.stride /\ w.stride >= 1
    BY <1>1, <2>1 DEF W!Step
  <2>3. W!Rounds(v) \in Nat \ {0} /\ W!Rounds(v) * W!Step(v) <= w.size
    BY <1>1, <2>1, <2>2, StepsFit
  <2> DEFINE q == loop % W!Rounds(v)
  <2>4. q \in Nat /\ q + 1 <= W!Rounds(v)
    BY <2>3
  <2>5. (q + 1) * W!Step(v) <= W!Rounds(v) * W!Step(v)
    BY <2>2, <2>3, <2>4, TimesMonotone
  <2>6. (q + 1) * W!Step(v) = q * W!Step(v) + W!Step(v)
    BY <2>2, <2>4
  <2>7. W!Offset(v) = q * W!Step(v) /\ q * W!Step(v) \in Nat
    BY <2>2, <2>4 DEF W!Offset
  <2>8. W!Offset(v) + w.max + w.stride <= w.size
    <3> HIDE DEF q
    <3> DEFINE qs == q * W!Step(v)
    <3>1. W!Rounds(v) * W!Step(v) \in Nat
      BY <2>2, <2>3
    <3> QED
      BY <1>1, <2>2, <2>3, <2>5, <2>6, <2>7, <3>1
  <2> QED
    BY <1>1, <2>2, <2>7, <2>8
<1> QED
  BY <1>2, <1>3

-----------------------------------------------------------------------------
\* Wherever the walk of a memory stream is, however often the loop was run, its
\* last access is in the variable (GenericMemoryStreamsPass: the guard of the
\* loop's end, size // (max + stride), and the step, max + stride).
THEOREM WalkInBounds == W!Spec => []W!InBounds
PROOF
<1>1. W!Init => WalkInv
  BY DEF W!Init, WalkInv, W!InBounds, W!WellPlanned
<1>2. WalkInv /\ [W!Next]_(W!vars) => WalkInv'
  <2> SUFFICES ASSUME WalkInv, [W!Next]_(W!vars) PROVE WalkInv'
    OBVIOUS
  <2>1. CASE W!Generate
    <3>1. address' = W!Nowhere
      BY <2>1 DEF WalkInv, W!Generate
    <3> QED
      BY <2>1, <3>1 DEF WalkInv, W!Generate, W!InBounds
  <2>2. CASE W!Access
    <3>1. plan \in Seq([var : DOMAIN window, n : Nat]) /\ at \in Nat
      BY DEF WalkInv, W!WellPlanned
    <3>2. at + 1 \in DOMAIN plan
      BY <2>2, <3>1 DEF W!Access
    <3>3. plan # <<>>
      BY <2>2, <3>1 DEF W!Access
    <3>4. LET a == plan[at + 1]
          IN  /\ 0 <= a.n + W!Offset(a.var)
              /\ a.n + W!Offset(a.var) < window[a.var].size
      BY <3>2, MovedInBounds DEF WalkInv
    <3>5. W!InBounds'
      BY <2>2, <3>4 DEF W!Access, W!InBounds
    <3> QED
      BY <2>2, <3>1, <3>3, <3>5 DEF W!Access, WalkInv
  <2>3. CASE W!Again
    BY <2>3 DEF W!Again, WalkInv, W!InBounds
  <2>4. CASE UNCHANGED W!vars
    BY <2>4 DEF W!vars, WalkInv, W!InBounds
  <2> QED
    BY <2>1, <2>2, <2>3, <2>4 DEF W!Next
<1>3. WalkInv => W!InBounds
  BY DEF WalkInv
<1> QED
  BY <1>1, <1>2, <1>3, PTL DEF W!Spec
=============================================================================
