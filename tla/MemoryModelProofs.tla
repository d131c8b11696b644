-------------------------- MODULE MemoryModelProofs --------------------------
(***************************************************************************)
(* For every hierarchy of caches, share of the accesses and number of      *)
(* operands: the addresses of EndlessLoopDataMemoryModel stay in their     *)
(* variables, keep their congruence classes, flush the inner level and hit *)
(* a direct-mapped first one.                                              *)
(*                                                                         *)
(* The first part shows what __init__ chooses (SetsOk), from the recursion *)
(* over the levels; the second that a base moves by at least a step, that  *)
(* its step is a multiple of the level below (MovingIs, TwoLevelsWhole),   *)
(* and how many lines that goes through; the third the inductive invariant *)
(* MemoryInv: the addresses handed out are the first lines of their level  *)
(* (TraceInv), a base is a whole number of increments below its guard      *)
(* (RunInv), and the first level keeps what was planned for it             *)
(* (ContentInv).                                                           *)
(***************************************************************************)
EXTENDS MemoryModel, FiniteFacts, SequenceTheorems

CacheT == [lines : Nat \ {0}, ways : Nat \ {0}]

\* A case is a hierarchy and a percentage for each of its levels.
PlanOk == caches \in Hierarchies /\ ratios \in Ratios /\ Len(ratios) = Len(caches)

\* The types of the hierarchy and of the percentages.
LEMMA PlanTypes ==
  ASSUME PlanOk
  PROVE  /\ caches \in Seq(CacheT) /\ ratios \in Seq(Nat)
         /\ Len(caches) \in Nat /\ Len(ratios) = Len(caches)
         /\ DOMAIN caches = Levels /\ DOMAIN ratios = Levels
         /\ Levels \subseteq Nat \ {0}
         /\ \A l \in Levels : /\ caches[l].lines \in Nat \ {0}
                              /\ caches[l].ways \in Nat \ {0}
                              /\ ratios[l] \in Nat
<1>1. caches \in Seq(CacheT) /\ ratios \in Seq(Nat) /\ Len(ratios) = Len(caches)
  BY ConstantsAssumption DEF PlanOk, CacheT
<1>2. /\ Len(caches) \in Nat /\ DOMAIN caches = Levels /\ DOMAIN ratios = Levels
      /\ Levels \subseteq Nat \ {0}
  BY <1>1 DEF Levels
<1>3. ASSUME NEW l \in Levels
      PROVE  caches[l] \in CacheT /\ ratios[l] \in Nat
  <2> HIDE DEF CacheT
  <2> QED BY <1>1, <1>2
<1> QED BY <1>1, <1>2, <1>3 DEF CacheT

\* What is left of the percentages is never negative, and none in the end.
LEMMA LeftIs ==
  ASSUME NEW r \in Ratios
  PROVE  /\ Len(r) \in Nat /\ Left(r)[0] = 100 /\ Left(r)[Len(r)] = 0
         /\ \A l \in 1..Len(r) : r[l] \in Nat /\ Left(r)[l] = Left(r)[l - 1] - r[l]
         /\ \A l \in 0..Len(r) : Left(r)[l] \in Nat
<1> DEFINE N == Len(r)
           Is(f) == f = [l \in 0..N |-> IF l = 0 THEN 100 ELSE f[l - 1] - r[l]]
           step == [l \in 1..N |-> [n \in Int |-> n - r[l]]]
           g == CHOOSE f : Is(f)
<1>1. r \in Seq(Nat) /\ N \in Nat /\ \A l \in 1..N : r[l] \in Nat
  BY ConstantsAssumption
<1>2. \A l \in 1..N, n \in Int : step[l][n] = n - r[l]
  OBVIOUS
<1>3. StepsInto(step, N, Int)
  BY <1>1, <1>2 DEF StepsInto
<1>4. Left(r) = g /\ Left(r)[N] = 0
  BY ConstantsAssumption DEF Left
<1> HIDE DEF step, N
<1>5. PICK f \in [0..N -> Int] : Unrolls(f, N, 100, step)
  <2>1. N \in Nat /\ 100 \in Int
    BY <1>1
  <2> QED BY <2>1, <1>3, RecursiveFunction
<1>6. \A l \in 0..N : l # 0 => l \in 1..N /\ l - 1 \in 0..N
  BY <1>1
<1>7. Is(f)
  <2>1. \A l \in 0..N : f[l] = IF l = 0 THEN 100 ELSE f[l - 1] - r[l]
    BY <1>2, <1>5, <1>6 DEF Unrolls
  <2> QED BY <2>1
<1>8. Is(g)
  <2> HIDE DEF Is
  <2> QED BY <1>7
<1> HIDE DEF g
<1>9. g[0] = 100 /\ \A l \in 1..N : g[l] = g[l - 1] - r[l]
  BY <1>1, <1>8
<1>10. \A l \in 0..N : g[l] \in Int
  <2> DEFINE S == {l \in 0..N : g[l] \in Int}
  <2>1. 0 \in S
    BY <1>1, <1>9
  <2>2. ASSUME NEW l \in 1..N, l - 1 \in S PROVE l \in S
    <3>1. r[l] \in Nat /\ l \in 0..N /\ g[l] = g[l - 1] - r[l]
      BY <1>1, <1>9
    <3> QED BY <2>2, <3>1
  <2> HIDE DEF S
  <2>3. 0..N \subseteq S
    BY <1>1, <2>1, <2>2, SetInductionUpTo
  <2> QED BY <2>3 DEF S
<1>11. \A l \in 0..N : g[l] >= 0
  <2> DEFINE S == {k \in 0..N : g[N - k] >= 0}
  <2>1. 0 \in S
    BY <1>1, <1>4
  <2>2. ASSUME NEW k \in 1..N, k - 1 \in S PROVE k \in S
    <3>1. N - k + 1 \in 1..N /\ N - k \in 0..N /\ N - k + 1 - 1 = N - k
          /\ N - (k - 1) = N - k + 1 /\ k \in 0..N /\ N - k + 1 \in 0..N
      BY <1>1
    <3>2. g[N - k + 1] = g[N - k] - r[N - k + 1]
      BY <1>9, <3>1
    <3>3. g[N - k + 1] >= 0
      BY <2>2, <3>1
    <3>4. r[N - k + 1] \in Nat /\ g[N - k] \in Int /\ g[N - k + 1] \in Int
      BY <1>1, <1>10, <3>1
    <3> QED BY <3>1, <3>2, <3>3, <3>4
  <2> HIDE DEF S
  <2>3. 0..N \subseteq S
    BY <1>1, <2>1, <2>2, SetInductionUpTo
  <2>4. ASSUME NEW l \in 0..N PROVE g[l] >= 0
    <3>1. N - l \in 0..N /\ N - (N - l) = l
      BY <1>1
    <3>2. N - l \in S
      BY <2>3, <3>1
    <3> QED BY <3>1, <3>2 DEF S
  <2> QED BY <2>4
<1> QED BY <1>1, <1>4, <1>9, <1>10, <1>11 DEF N

\* A share of at most all of them is at most all of them.
LEMMA ShareFits ==
  ASSUME NEW n \in Nat, NEW r \in Nat, NEW left \in Nat \ {0}, r <= left
  PROVE  (n * r) \div left \in 0..n
<1>1. n * r \in Nat /\ n * left \in Nat
  OBVIOUS
<1>2. r * n <= left * n
  BY TimesMonotone
<1>3. n * r <= n * left
  BY <1>2
<1> DEFINE a == n * r
           q == a \div left
<1>4. q \in Nat /\ q * left <= a
  BY <1>1, StepsFit
<1>5. ASSUME q >= n + 1 PROVE FALSE
  <2>1. (n + 1) * left <= q * left
    BY <1>4, <1>5, TimesMonotone
  <2>2. (n + 1) * left = n * left + left
    OBVIOUS
  <2> HIDE DEF q, a
  <2>3. q * left \in Nat /\ a \in Nat
    BY <1>1, <1>4 DEF a
  <2> QED BY <1>1, <1>3, <1>4, <2>1, <2>2, <2>3 DEF a
<1> HIDE DEF q
<1>6. q \in 0..n
  BY <1>4, <1>5
<1> QED BY <1>6 DEF q

-----------------------------------------------------------------------------
\* The lines a level may choose from, once every level has chosen.
Free(l) == {e \in SetsWays(caches[l]) :
               \A k \in 1..(l - 1) : e % caches[k].lines \notin ToSet(sets[k])}

\* Every level has the first ones of the lines it may choose from, the last one
\* all of them.
SetsOk ==
    /\ sets \in Seq(Seq(Nat)) /\ Len(sets) = Len(caches)
    /\ \A l \in Levels : /\ Len(sets[l]) <= Cardinality(Free(l))
                         /\ l = Len(caches) /\ ratios[l] > 0
                              => Len(sets[l]) = Cardinality(Free(l))
                         /\ \A n \in 1..Len(sets[l]) : sets[l][n] = At(Free(l), n)

\* A set of lines is a finite set of numbers, enumerated by Ascending.
LEMMA LinesAre ==
  ASSUME PlanOk, NEW l \in Levels, NEW S \in SUBSET SetsWays(caches[l])
  PROVE  /\ S \in SUBSET Nat /\ IsFiniteSet(S)
         /\ Cardinality(S) \in 0..caches[l].lines
         /\ Ascending(S) \in Seq(Nat) /\ Len(Ascending(S)) = Cardinality(S)
         /\ \A n \in 1..Cardinality(S) : /\ Ascending(S)[n] = At(S, n)
                                         /\ At(S, n) \in S
<1> DEFINE N == caches[l].lines
           M == Cardinality(S)
<1>1. N \in Nat \ {0} /\ S \in SUBSET (0..(N - 1))
  BY PlanTypes DEF SetsWays
<1>2. IsFiniteSet(0..(N - 1)) /\ Cardinality(0..(N - 1)) = N
  <2>1. 0 \in Int /\ N - 1 \in Int /\ 0 <= N - 1 /\ (N - 1) - 0 + 1 = N
    BY <1>1
  <2> HIDE DEF N
  <2> QED BY <2>1, FS_Interval
<1>3. S \in SUBSET Nat /\ IsFiniteSet(S) /\ M \in Nat /\ M <= N
  <2> HIDE DEF N
  <2>1. IsFiniteSet(S) /\ M <= N
    BY <1>1, <1>2, FS_Subset
  <2> QED BY <1>1, <2>1, FS_CardinalityType
<1>4. \A n \in 1..M : At(S, n) \in S
  BY <1>3, AtAscends DEF Ascends
<1> HIDE DEF M
<1>5. Ascending(S) = [n \in 1..M |-> At(S, n)]
  BY DEF Ascending, At, Below, M
<1>6. [n \in 1..M |-> At(S, n)] \in Seq(Nat)
  <2>1. \A n \in 1..M : At(S, n) \in Nat
    BY <1>3, <1>4
  <2> QED BY <1>3, <2>1
<1> QED BY <1>1, <1>3, <1>4, <1>5, <1>6 DEF M

\* A level takes the first of the lines it may choose from.
LEMMA ShareIs ==
  ASSUME PlanOk, NEW l \in Levels, NEW chosen
  PROVE  LET free == Avoiding(caches[l], chosen)
         IN  /\ Share(l, chosen) \in Seq(Nat)
             /\ Len(Share(l, chosen)) <= Cardinality(free)
             /\ l = Len(caches) /\ ratios[l] > 0 => Len(Share(l, chosen)) = Cardinality(free)
             /\ \A n \in 1..Len(Share(l, chosen)) : Share(l, chosen)[n] = At(free, n)
<1> DEFINE free == Avoiding(caches[l], chosen)
           F == Ascending(free)
           left == Left(ratios)[l - 1]
           m == (Len(F) * ratios[l]) \div left
<1>1. free \in SUBSET SetsWays(caches[l])
  BY DEF Avoiding
<1> HIDE DEF free
<1>2. /\ Cardinality(free) \in Nat /\ F \in Seq(Nat) /\ Len(F) = Cardinality(free)
      /\ \A n \in 1..Cardinality(free) : F[n] = At(free, n)
  BY <1>1, LinesAre
<1> HIDE DEF F
<1>3. /\ left \in Nat /\ ratios[l] \in Nat /\ ratios[l] <= left
      /\ l = Len(caches) => ratios[l] = left
  <2>1. Len(ratios) = Len(caches) /\ Levels = 1..Len(ratios) /\ ratios \in Ratios
        /\ Len(ratios) \in Nat
    BY PlanTypes DEF PlanOk, Levels
  <2>2. l \in 1..Len(ratios) /\ l - 1 \in 0..Len(ratios) /\ l \in 0..Len(ratios)
    BY <2>1
  <2>3. left \in Nat /\ Left(ratios)[l] \in Nat /\ ratios[l] \in Nat
        /\ Left(ratios)[l] = left - ratios[l]
        /\ Left(ratios)[Len(ratios)] = 0
    BY <2>1, <2>2, LeftIs
  <2> HIDE DEF left
  <2> QED BY <2>1, <2>3
<1> HIDE DEF left
<1>4. CASE left = 0
  <2>1. Share(l, chosen) = <<>>
    BY <1>4 DEF Share, left
  <2>2. Share(l, chosen) \in Seq(Nat) /\ Len(Share(l, chosen)) = 0
    BY <2>1
  <2> QED BY <1>2, <1>3, <1>4, <2>2 DEF free
<1>5. CASE left # 0
  <2>1. m \in 0..Len(F)
    BY <1>2, <1>3, <1>5, ShareFits
  <2>2. Share(l, chosen) = SubSeq(F, 1, m)
    BY <1>5 DEF Share, F, free, left
  <2> HIDE DEF m
  <2>3. /\ SubSeq(F, 1, m) \in Seq(Nat) /\ Len(SubSeq(F, 1, m)) = m
        /\ \A n \in 1..m : SubSeq(F, 1, m)[n] = F[n]
    BY <1>2, <2>1
  <2>4. \A n \in 1..m : n \in 1..Cardinality(free)
    BY <1>2, <2>1
  <2>5. ASSUME l = Len(caches) PROVE m = Cardinality(free)
    <3> DEFINE C == Cardinality(free)
    <3>1. Len(F) * ratios[l] = left * C + 0 /\ 0 \in 0..(left - 1)
          /\ C \in Nat /\ left \in Nat \ {0}
      BY <1>2, <1>3, <1>5, <2>5
    <3> HIDE DEF C
    <3>2. (left * C + 0) \div left = C
      BY <3>1, DivOf
    <3> QED BY <3>1, <3>2 DEF m, C
  <2> QED BY <1>2, <2>1, <2>2, <2>3, <2>4, <2>5 DEF free
<1> QED BY <1>4, <1>5

\* The lines __init__ chooses, one level after the other.
LEMMA ChosenAre ==
  ASSUME PlanOk, sets = ChosenLines
  PROVE  SetsOk
<1> DEFINE N == Len(caches)
           S == Seq(Seq(Nat))
           Is(f) == f = [l \in 0..N |-> IF l = 0 THEN <<>>
                                        ELSE Append(f[l - 1], Share(l, f[l - 1]))]
           step == [l \in 1..N |-> [c \in S |-> Append(c, Share(l, c))]]
           g == CHOOSE f : Is(f)
<1>1. N \in Nat /\ Levels = 1..N
  BY PlanTypes DEF Levels
<1>2. \A l \in 1..N, c \in S : Share(l, c) \in Seq(Nat)
  BY <1>1, ShareIs
<1>3. \A l \in 1..N, c \in S : step[l][c] = Append(c, Share(l, c))
  OBVIOUS
<1>4. StepsInto(step, N, S)
  <2> SUFFICES ASSUME NEW l \in 1..N, NEW c \in S
               PROVE  step[l][c] \in S
    BY DEF StepsInto
  <2>1. Share(l, c) \in Seq(Nat)
    BY <1>2
  <2>2. Append(c, Share(l, c)) \in S
    BY <2>1, AppendProperties
  <2> HIDE DEF step, S
  <2> QED BY <1>3, <2>2
<1>5. sets = g[N]
  BY DEF ChosenLines
<1> HIDE DEF step, N, S
<1>6. PICK f \in [0..N -> S] : Unrolls(f, N, <<>>, step)
  <2>1. <<>> \in S
    BY DEF S
  <2> QED BY <1>1, <1>4, <2>1, RecursiveFunction
<1>7. \A l \in 0..N : l # 0 => l \in 1..N /\ l - 1 \in 0..N
  BY <1>1
<1>8. Is(f)
  <2>1. ASSUME NEW l \in 0..N
        PROVE  f[l] = IF l = 0 THEN <<>> ELSE Append(f[l - 1], Share(l, f[l - 1]))
    <3>1. CASE l = 0
      BY <1>6, <3>1 DEF Unrolls
    <3>2. CASE l # 0
      <4>1. l \in 1..N /\ f[l - 1] \in S
        BY <1>7, <3>2
      <4>2. f[l] = step[l][f[l - 1]]
        BY <1>6, <4>1 DEF Unrolls
      <4> QED BY <1>3, <3>2, <4>1, <4>2
    <3> QED BY <3>1, <3>2
  <2> QED BY <2>1
<1>9. Is(g)
  <2> HIDE DEF Is
  <2> QED BY <1>8
<1> HIDE DEF g
<1>10. g[0] = <<>> /\ \A l \in 1..N : g[l] = Append(g[l - 1], Share(l, g[l - 1]))
  <2>1. 0 \in 0..N /\ \A l \in 1..N : l \in 0..N /\ l # 0
    BY <1>1
  <2> QED BY <1>9, <2>1
\* After l levels there are l shares, each made of what came before it.
<1> DEFINE T == {l \in 0..N : /\ g[l] \in S /\ Len(g[l]) = l
                              /\ \A k \in 1..l : g[l][k] = Share(k, g[k - 1])}
<1>11. 0..N \subseteq T
  <2>1. 0 \in T
    <3>1. 0 \in 0..N /\ 1..0 = {} /\ <<>> \in S /\ Len(<<>>) = 0
      BY <1>1 DEF S
    <3> QED BY <1>10, <3>1
  <2>2. ASSUME NEW l \in 1..N, l - 1 \in T PROVE l \in T
    <3>0. /\ l \in 0..N /\ g[l - 1] \in S /\ Len(g[l - 1]) = l - 1
          /\ \A k \in 1..(l - 1) : g[l - 1][k] = Share(k, g[k - 1])
      BY <1>1, <2>2
    <3>1. Share(l, g[l - 1]) \in Seq(Nat)
      BY <1>2, <3>0
    <3>2. g[l] = Append(g[l - 1], Share(l, g[l - 1]))
      BY <1>10
    <3>3. /\ g[l] \in S /\ Len(g[l]) = l
          /\ \A k \in 1..(l - 1) : g[l][k] = g[l - 1][k]
          /\ g[l][l] = Share(l, g[l - 1])
      BY <1>1, <3>0, <3>1, <3>2, AppendProperties DEF S
    <3>4. \A k \in 1..l : k = l \/ k \in 1..(l - 1)
      BY <1>1
    <3>5. \A k \in 1..l : g[l][k] = Share(k, g[k - 1])
      BY <3>0, <3>3, <3>4
    <3> QED BY <3>0, <3>3, <3>5
  <2> HIDE DEF T
  <2> QED BY <1>1, <2>1, <2>2, SetInductionUpTo
<1>12. /\ sets \in S /\ Len(sets) = N
       /\ \A k \in 1..N : sets[k] = Share(k, g[k - 1])
  <2>1. N \in T
    BY <1>1, <1>11
  <2> QED BY <1>5, <2>1
<1>13. ASSUME NEW l \in 1..N
       PROVE  Avoiding(caches[l], g[l - 1]) = Free(l)
  <2>1. l - 1 \in T /\ l - 1 \in Nat
    BY <1>1, <1>11
  <2>2. /\ g[l - 1] \in S /\ Len(g[l - 1]) = l - 1
        /\ \A k \in 1..(l - 1) : g[l - 1][k] = Share(k, g[k - 1])
    BY <2>1
  <2>3. DOMAIN g[l - 1] = 1..(l - 1)
    BY <2>1, <2>2 DEF S
  <2>4. \A k \in 1..(l - 1) : g[l - 1][k] = sets[k]
    BY <1>1, <1>12, <2>2
  <2> QED BY <2>3, <2>4 DEF Avoiding, Free
<1>14. ASSUME NEW l \in Levels
       PROVE  /\ Len(sets[l]) <= Cardinality(Free(l))
              /\ l = Len(caches) /\ ratios[l] > 0
                   => Len(sets[l]) = Cardinality(Free(l))
              /\ \A n \in 1..Len(sets[l]) : sets[l][n] = At(Free(l), n)
  <2>1. sets[l] = Share(l, g[l - 1])
    BY <1>1, <1>12
  <2> QED BY <1>1, <1>13, <2>1, ShareIs
<1> QED BY <1>12, <1>14 DEF SetsOk, S, N

\* There is a level, and the last one takes what is left.
LEMMA SomeLevel ==
  ASSUME PlanOk
  PROVE  Len(caches) \in Nat \ {0} /\ 1 \in Levels
<1>1. /\ ratios \in Ratios /\ Len(ratios) = Len(caches) /\ Len(caches) \in Nat
      /\ Left(ratios)[0] = 100 /\ Left(ratios)[Len(ratios)] = 0
  BY PlanTypes, LeftIs DEF PlanOk
<1>2. Len(caches) # 0
  BY <1>1
<1> QED BY <1>1, <1>2 DEF Levels

\* The lines of a level are its own lines, in order, and none shares its place
\* in a nearer level with a line chosen for that one.
LEMMA LinesOf ==
  ASSUME PlanOk, SetsOk, NEW l \in Levels
  PROVE  /\ sets[l] \in Seq(Nat) /\ Len(sets[l]) \in 0..caches[l].lines
         /\ \A n \in 1..Len(sets[l]) :
              /\ sets[l][n] \in Nat /\ sets[l][n] <= caches[l].lines - 1
              /\ sets[l][n] \in Free(l)
              /\ \A k \in Levels : k < l => sets[l][n] % caches[k].lines \notin ToSet(sets[k])
         /\ \A m, n \in 1..Len(sets[l]) : m < n => sets[l][m] < sets[l][n]
<1>1. /\ Free(l) \in SUBSET SetsWays(caches[l])
      /\ caches[l].lines \in Nat \ {0} /\ l \in Nat \ {0}
  BY PlanTypes DEF Free
<1>2. /\ Free(l) \in SUBSET Nat /\ IsFiniteSet(Free(l))
      /\ Cardinality(Free(l)) \in 0..caches[l].lines
      /\ \A n \in 1..Cardinality(Free(l)) : At(Free(l), n) \in Free(l)
  BY <1>1, LinesAre
<1>3. /\ sets[l] \in Seq(Nat) /\ Len(sets[l]) \in Nat
      /\ Len(sets[l]) <= Cardinality(Free(l))
      /\ \A n \in 1..Len(sets[l]) : sets[l][n] = At(Free(l), n)
  <2>1. sets \in Seq(Seq(Nat)) /\ DOMAIN sets = Levels
    BY PlanTypes DEF SetsOk, Levels
  <2>2. sets[l] \in Seq(Nat)
    BY <2>1
  <2> QED BY <2>2 DEF SetsOk
<1>4. \A n \in 1..Len(sets[l]) : n \in 1..Cardinality(Free(l))
  BY <1>2, <1>3
<1>5. ASSUME NEW n \in 1..Len(sets[l])
      PROVE  /\ sets[l][n] \in Nat /\ sets[l][n] <= caches[l].lines - 1
             /\ sets[l][n] \in Free(l)
             /\ \A k \in Levels : k < l =>
                  sets[l][n] % caches[k].lines \notin ToSet(sets[k])
  <2>1. sets[l][n] \in Free(l)
    BY <1>2, <1>3, <1>4
  <2>2. sets[l][n] \in 0..(caches[l].lines - 1)
    BY <1>1, <2>1 DEF SetsWays
  <2>3. \A k \in Levels : k < l => k \in 1..(l - 1)
    BY <1>1, PlanTypes DEF Levels
  <2>4. \A k \in 1..(l - 1) : sets[l][n] % caches[k].lines \notin ToSet(sets[k])
    BY <2>1 DEF Free
  <2>5. \A k \in Levels : k < l => sets[l][n] % caches[k].lines \notin ToSet(sets[k])
    BY <2>3, <2>4, Zenon
  <2>6. sets[l][n] \in Nat /\ sets[l][n] <= caches[l].lines - 1
    <3> DEFINE x == sets[l][n]
               y == caches[l].lines
    <3>1. y \in Nat \ {0} /\ x \in 0..(y - 1)
      BY <1>1, <2>2
    <3> HIDE DEF x, y
    <3>2. x \in Nat /\ x <= y - 1
      BY <3>1
    <3> QED BY <3>2 DEF x, y
  <2> QED BY <2>1, <2>5, <2>6, Zenon
<1>6. ASSUME NEW m \in 1..Len(sets[l]), NEW n \in 1..Len(sets[l]), m < n
      PROVE  sets[l][m] < sets[l][n]
  <2> DEFINE C == Cardinality(Free(l))
             f == [i \in 1..C |-> At(Free(l), i)]
  <2>1. \A i, j \in 1..C : i < j => f[i] < f[j]
    BY <1>2, AtAscends DEF Ascends
  <2>2. m \in 1..C /\ n \in 1..C /\ f[m] = sets[l][m] /\ f[n] = sets[l][n]
    BY <1>3, <1>4
  <2>3. f[m] < f[n]
    <3> HIDE DEF f, C
    <3> QED BY <1>6, <2>1, <2>2
  <2> QED BY <2>2, <2>3
<1>7. Len(sets[l]) \in 0..caches[l].lines
  BY <1>1, <1>2, <1>3
<1> QED BY <1>3, <1>5, <1>6, <1>7

\* The level a level is compared with is a nearer one.
LEMMA AntIs ==
  ASSUME PlanOk, NEW l \in Levels, l > 1
  PROVE  Ant(l) \in Levels /\ Ant(l) < l /\ Ant(l) \in 1..(l - 1)
<1> DEFINE N == l - 1
           Chosen(k, m) == /\ k = 1 \/ ratios[k] = 0
                         /\ \A j \in (k + 1)..m : ratios[j] > 0
           T == {m \in 0..N : m = 0 \/ \E k \in 1..m : Chosen(k, m)}
<1>1. /\ Len(caches) \in Nat /\ Levels = 1..Len(caches) /\ l \in Nat /\ N \in Nat \ {0}
      /\ \A k \in 1..N : k \in Levels /\ ratios[k] \in Nat
  BY PlanTypes DEF Levels
<1>2. 0..N \subseteq T
  <2>1. 0 \in T
    BY <1>1
  <2>2. ASSUME NEW m \in 1..N, m - 1 \in T PROVE m \in T
    <3>1. m \in 0..N /\ ratios[m] \in Nat
      BY <1>1
    <3>2. CASE m = 1 \/ ratios[m] = 0
      <4>1. m \in 1..m /\ (m + 1)..m = {}
        BY <3>1
      <4>2. Chosen(m, m)
        BY <3>2, <4>1
      <4> QED BY <3>1, <4>1, <4>2
    <3>3. CASE m # 1 /\ ratios[m] > 0
      <4>1. PICK k \in 1..(m - 1) : Chosen(k, m - 1)
        BY <2>2, <3>1, <3>3
      <4>2. k \in 1..m /\ \A j \in (k + 1)..m : j = m \/ j \in (k + 1)..(m - 1)
        BY <3>1
      <4>3. Chosen(k, m)
        BY <3>3, <4>1, <4>2
      <4> QED BY <3>1, <4>2, <4>3
    <3> QED BY <3>1, <3>2, <3>3
  <2> HIDE DEF T, N
  <2> QED BY <1>1, <2>1, <2>2, SetInductionUpTo
<1>3. \E k \in 1..N : Chosen(k, N)
  <2>1. N \in T /\ N # 0
    <3> HIDE DEF N, T
    <3> QED BY <1>1, <1>2
  <2> HIDE DEF N
  <2> QED BY <2>1
<1>4. Ant(l) \in 1..N
  BY <1>3 DEF Ant
<1>5. Ant(l) \in Levels
  BY <1>1, <1>4
<1> QED BY <1>1, <1>4, <1>5

\* A cache holds the lines of a nearer one some number of times, an even one
\* unless they are as large.
LEMMA NearerDivides ==
  ASSUME PlanOk, NEW k \in Levels, NEW l \in Levels, k < l
  PROVE  /\ caches[l].lines % caches[k].lines = 0
         /\ caches[k].lines <= caches[l].lines
         /\ caches[k].lines < caches[l].lines =>
              caches[l].lines % (2 * caches[k].lines) = 0
<1> DEFINE a == caches[k].lines
           b == caches[l].lines
<1>1. a \in Nat \ {0} /\ b \in Nat \ {0} /\ (b = a \/ b % (2 * a) = 0)
  BY PlanTypes, SizesAssumption DEF PlanOk
<1> HIDE DEF a, b
<1>2. CASE b = a
  <2>1. b = a * 1 + 0 /\ 0 \in 0..(a - 1)
    BY <1>1, <1>2
  <2>2. (a * 1 + 0) % a = 0
    BY <1>1, <2>1, DivOf
  <2> QED BY <1>1, <1>2, <2>1, <2>2 DEF a, b
<1>3. CASE b % (2 * a) = 0
  <2> DEFINE d == 2 * a
             q == b \div d
  <2>1. d \in Nat \ {0} /\ b % d = 0
    BY <1>1, <1>3
  <2>2. q \in Nat /\ b = d * q
    <3> HIDE DEF d
    <3> QED BY <1>1, <2>1, DivMod
  <2> HIDE DEF q
  <2>3. b = a * (2 * q) + 0 /\ 0 \in 0..(a - 1) /\ 2 * q \in Nat
    BY <1>1, <2>2
  <2>4. b % a = 0
    BY <1>1, <2>3, DivOf
  <2>5. q # 0
    BY <1>1, <2>2
  <2>6. 1 * a <= (2 * q) * a
    BY <1>1, <2>2, <2>5, TimesMonotone
  <2>7. a <= b
    BY <1>1, <2>3, <2>6
  <2> QED BY <1>3, <2>4, <2>7 DEF a, b
<1> QED BY <1>1, <1>2, <1>3

-----------------------------------------------------------------------------
\* The address of a line of a level
Address(l, n) == [level |-> l, value |-> LineSize * sets[l][n]]

TypeInv ==
    /\ PlanOk /\ SetsOk
    /\ phase \in {"balance", "access", "run", "error"}
    /\ trace \in Seq([level : Levels, value : Nat])
    /\ count \in [Levels -> Nat] /\ maxValue \in [Levels -> Nat]
    /\ loop \in Nat /\ next \in Nat \ {0}
    /\ turn \in [Levels -> Nat] /\ base \in [Levels -> Nat]

\* The addresses of a level are those of its first lines, round and round.
TraceInv ==
    /\ \A i \in 1..Len(trace) :
         /\ trace[i].value <= maxValue[trace[i].level]
         /\ \E n \in 1..Len(sets[trace[i].level]) :
              trace[i] = Address(trace[i].level, n)
    /\ \A l \in Levels :
         /\ maxValue[l] # 0 => \E n \in 1..Len(sets[l]) :
              n <= count[l] /\ maxValue[l] = LineSize * sets[l][n]
         /\ \A n \in 1..Module(l) :
              n <= count[l] => \E i \in 1..Len(trace) : trace[i] = Address(l, n)

\* Bases move only in a run, as finalize_model decided, each a whole number of
\* increments below its guard.
RunInv ==
    /\ phase # "run" => DOMAIN moves = {} /\ loop = 0 /\ next = 1 /\ served.loop = 0
    /\ phase = "run" => moves = Moving /\ \A l \in Levels : ~TooFew(l)
    /\ \A l \in Levels :
         \/ turn[l] = 0 /\ base[l] = 0
         \/ /\ l \in DOMAIN moves
            /\ turn[l] < moves[l].guard /\ base[l] = turn[l] * moves[l].increment

LineT == [var : Levels, line : Nat]
Direct == caches[1].ways = 1 /\ (Len(caches) = 2 \/ AllWhole)

\* In a direct-mapped first level, the lines its accesses brought there stay.
ContentInv ==
    /\ DOMAIN content = Levels
    /\ content[1] \in [0..(NumSets(caches[1]) - 1) -> Seq(LineT)]
    /\ \A i \in 1..Len(trace) :
         trace[i].level = 1 /\ (loop > 0 \/ i < next) /\ Direct
           => LET e == trace[i].value \div LineSize
              IN  content[1][e] = <<[var |-> 1, line |-> e]>>
    /\ FirstLevelHits

MemoryInv == TypeInv /\ TraceInv /\ RunInv /\ ContentInv

\* The least multiple of b that is not below m.
LEMMA RoundedUp ==
  ASSUME NEW b \in Nat \ {0}, NEW m \in Nat \ {0}
  PROVE  LET c == (m + b - 1) \div b
         IN  /\ c \in Nat \ {0} /\ b * c \in Nat \ {0} /\ (b * c) % b = 0
             /\ m <= b * c /\ b * c <= m + b - 1
             /\ m % b # 0 => m < b * c
<1> DEFINE a == m + b - 1
           c == a \div b
           r == a % b
<1>1. a \in Nat /\ c \in Nat /\ r \in 0..(b - 1) /\ a = b * c + r
  <2>1. a \in Nat
    OBVIOUS
  <2> HIDE DEF a
  <2> QED BY <2>1, DivMod
<1> HIDE DEF c, r
<1>2. c # 0
  BY <1>1
<1>3. b * c \in Nat /\ m <= b * c /\ b * c <= a
  BY <1>1
<1>4. (b * c + 0) % b = 0
  <2>1. 0 \in 0..(b - 1)
    OBVIOUS
  <2> QED BY <1>1, <2>1, DivOf
<1>5. b * c = b * c + 0
  BY <1>3
<1>6. ASSUME m % b # 0 PROVE m # b * c
  BY <1>4, <1>5, <1>6
<1>7. b * c # 0
  BY <1>3
<1> QED BY <1>1, <1>2, <1>3, <1>4, <1>5, <1>6, <1>7 DEF c

\* A level has some bytes.
LEMMA BytesOf ==
  ASSUME PlanOk, NEW l \in Levels
  PROVE  Bytes(caches[l]) \in Nat \ {0} /\ LineSize \in Nat \ {0}
<1>1. caches[l].lines \in Nat \ {0} /\ LineSize \in Nat \ {0}
  BY PlanTypes, ConstantsAssumption
<1> QED BY <1>1 DEF Bytes

\* A level whose base moves: the step is a multiple of the level it is compared
\* with and skips what an iteration touches, the increment is no smaller, and
\* as many increments as the guard allows fit in the level.
LEMMA MovingIs ==
  ASSUME TypeInv, RunInv, NEW l \in DOMAIN moves
  PROVE  LET below == Bytes(caches[Ant(l)])
             guard == moves[l].guard
             inc == moves[l].increment
         IN  /\ phase = "run" /\ l \in Levels /\ Checked(l) /\ ~TooFew(l)
             /\ count[l] <= Len(sets[l]) /\ count[l] <= 2 * RoomBelow(l)
             /\ Ant(l) \in Levels /\ Ant(l) < l
             /\ below \in Nat \ {0} /\ maxValue[l] \in Nat \ {0}
             /\ StepSize(l) \in Nat \ {0} /\ StepSize(l) % below = 0
             /\ maxValue[l] <= StepSize(l) /\ StepSize(l) <= maxValue[l] + below - 1
             /\ maxValue[l] % below # 0 => maxValue[l] < StepSize(l)
             /\ guard = Guard(l) /\ guard \in Nat
             /\ guard * StepSize(l) <= Bytes(caches[l])
             /\ guard > 0 => /\ inc \in Nat /\ StepSize(l) <= inc
                             /\ guard * inc <= Bytes(caches[l])
             /\ guard > 0 /\ Whole(l) => inc = StepSize(l)
<1> DEFINE below == Bytes(caches[Ant(l)])
           size == Bytes(caches[l])
           max == maxValue[l]
           step == StepSize(l)
           guard == Guard(l)
           inc == size \div guard
<1>1. phase = "run" /\ moves = Moving /\ \A k \in Levels : ~TooFew(k)
  BY DEF RunInv
<1>2. /\ l \in Levels /\ Checked(l) /\ count[l] <= Len(sets[l])
      /\ count[l] <= 2 * RoomBelow(l)
      /\ moves[l] = [increment |-> inc, guard |-> guard]
  BY <1>1 DEF Moving
<1>3. l > 1 /\ Ant(l) \in Levels /\ Ant(l) < l
  BY <1>2, AntIs DEF Checked, TypeInv
<1>4. below \in Nat \ {0} /\ size \in Nat \ {0}
  BY <1>2, <1>3, BytesOf DEF TypeInv
<1>5. max \in Nat \ {0}
  BY <1>1, <1>2 DEF TooFew, TypeInv
<1> HIDE DEF below, size, max
<1>6. /\ step \in Nat \ {0} /\ step % below = 0 /\ max <= step
      /\ step <= max + below - 1 /\ (max % below # 0 => max < step)
  BY <1>4, <1>5, RoundedUp DEF StepSize, below, max
<1> HIDE DEF step
<1>7. guard \in Nat /\ guard * step <= size
  BY <1>4, <1>6, StepsFit DEF Guard, step, size
<1>8. ASSUME guard > 0
      PROVE  inc \in Nat /\ step <= inc /\ guard * inc <= size
  <2> HIDE DEF guard
  <2>1. inc \in Nat /\ inc * guard <= size /\ size = guard * inc + (size % guard)
        /\ size % guard \in 0..(guard - 1)
    BY <1>4, <1>7, <1>8, StepsFit, DivMod
  <2>2. ASSUME inc + 1 <= step PROVE FALSE
    <3>1. (inc + 1) * guard <= step * guard
      BY <1>6, <1>7, <2>1, <2>2, TimesMonotone
    <3>2. (inc + 1) * guard = guard * inc + guard /\ step * guard = guard * step
      BY <1>6, <1>7, <2>1
    <3> HIDE DEF inc
    <3>3. guard * inc \in Nat /\ guard * step \in Nat
      BY <1>6, <1>7, <2>1
    <3> QED BY <1>4, <1>7, <1>8, <2>1, <3>1, <3>2, <3>3
  <2>3. step <= inc
    <3> HIDE DEF inc
    <3> QED BY <1>6, <2>1, <2>2
  <2>4. inc * guard = guard * inc
    BY <1>7, <2>1
  <2> QED BY <2>1, <2>3, <2>4
<1>9. ASSUME guard > 0, Whole(l)
      PROVE  inc = step
  <2>1. size % step = 0 /\ guard = size \div step
    BY <1>9 DEF Whole, Guard, size, step
  <2> HIDE DEF guard
  <2>2. size = step * guard
    BY <1>4, <1>6, <1>7, <2>1, DivMod
  <2>3. size = guard * step + 0 /\ guard \in Nat \ {0} /\ 0 \in 0..(guard - 1)
    BY <1>6, <1>7, <1>9, <2>2
  <2>4. (guard * step + 0) \div guard = step
    BY <1>6, <2>3, DivOf
  <2> QED BY <2>3, <2>4
<1> HIDE DEF guard
<1>10. moves[l].guard = guard /\ moves[l].increment = inc
  BY <1>2
<1> QED BY <1>1, <1>2, <1>3, <1>4, <1>5, <1>6, <1>7, <1>8, <1>9, <1>10
        DEF below, size, max, step, guard

\* The base of a level that moved on.
LEMMA MovedBase ==
  ASSUME TypeInv, RunInv, NEW l \in Levels, turn[l] # 0 \/ base[l] # 0
  PROVE  /\ l \in DOMAIN moves /\ turn[l] \in Nat /\ turn[l] + 1 <= moves[l].guard
         /\ moves[l].guard \in Nat \ {0} /\ moves[l].increment \in Nat
         /\ base[l] = turn[l] * moves[l].increment
<1>1. l \in DOMAIN moves /\ turn[l] < moves[l].guard
      /\ base[l] = turn[l] * moves[l].increment /\ turn[l] \in Nat
  BY DEF RunInv, TypeInv
<1>2. moves[l].guard \in Nat /\ (moves[l].guard > 0 => moves[l].increment \in Nat)
  BY <1>1, MovingIs
<1>3. moves[l].guard > 0
  BY <1>1, <1>2
<1> QED BY <1>1, <1>2, <1>3

\* The displacement of an access is that of a line of its level.
LEMMA TracedLine ==
  ASSUME TypeInv, TraceInv, NEW i \in 1..Len(trace)
  PROVE  /\ trace[i] \in [level : Levels, value : Nat]
         /\ trace[i].value <= maxValue[trace[i].level]
         /\ \E n \in 1..Len(sets[trace[i].level]) :
              LET e == sets[trace[i].level][n]
              IN  /\ e \in Nat /\ e <= caches[trace[i].level].lines - 1
                  /\ trace[i].value = LineSize * e
<1>1. trace[i] \in [level : Levels, value : Nat]
  <2> DEFINE T == [level : Levels, value : Nat]
  <2>1. trace \in Seq(T)
    BY DEF TypeInv
  <2> HIDE DEF T
  <2>2. trace[i] \in T
    BY <2>1
  <2> QED BY <2>2 DEF T
<1> DEFINE l == trace[i].level
<1>2. PICK n \in 1..Len(sets[l]) : trace[i] = Address(l, n)
  BY DEF TraceInv
<1>3. sets[l][n] \in Nat /\ sets[l][n] <= caches[l].lines - 1
  <2>1. l \in Levels /\ PlanOk /\ SetsOk
    BY <1>1 DEF TypeInv
  <2> HIDE DEF l
  <2> QED BY <2>1, LinesOf
<1>4. trace[i].value = LineSize * sets[l][n]
  BY <1>2 DEF Address
<1>5. trace[i].value <= maxValue[l]
  BY DEF TraceInv
<1> QED BY <1>1, <1>3, <1>4, <1>5

\* A line of a level lies in the level.
LEMMA LineInside ==
  ASSUME PlanOk, NEW l \in Levels, NEW e \in Nat, e <= caches[l].lines - 1
  PROVE  LineSize * e \in Nat /\ LineSize * e < Bytes(caches[l])
<1> DEFINE N == caches[l].lines
<1>1. N \in Nat \ {0} /\ LineSize \in Nat \ {0}
  BY PlanTypes, ConstantsAssumption
<1>2. e + 1 <= N
  BY <1>1
<1> HIDE DEF N
<1>3. (e + 1) * LineSize <= N * LineSize
  BY <1>1, <1>2, TimesMonotone
<1>4. (e + 1) * LineSize = LineSize * e + LineSize /\ LineSize * e \in Nat
      /\ N * LineSize \in Nat
  BY <1>1
<1>5. LineSize * e < N * LineSize
  BY <1>1, <1>3, <1>4
<1> QED BY <1>4, <1>5 DEF Bytes, N

\* An access and the base of its level do not reach the end of the variable.
LEMMA InBoundsHolds ==
  ASSUME TypeInv, TraceInv, RunInv
  PROVE  InBounds
<1> SUFFICES ASSUME Running, ~OnEdge(trace[next].level)
             PROVE  base[trace[next].level] + trace[next].value
                      < Bytes(caches[trace[next].level])
  BY DEF InBounds
<1> DEFINE l == trace[next].level
           v == trace[next].value
<1>1. next \in 1..Len(trace)
  BY DEF Running, TypeInv
<1>2. /\ l \in Levels /\ v \in Nat /\ v <= maxValue[l]
      /\ v < Bytes(caches[l])
  <2>1. /\ trace[next] \in [level : Levels, value : Nat] /\ v <= maxValue[l]
        /\ \E n \in 1..Len(sets[l]) :
             LET e == sets[l][n]
             IN  e \in Nat /\ e <= caches[l].lines - 1 /\ v = LineSize * e
    BY <1>1, TracedLine
  <2>2. l \in Levels /\ v \in Nat /\ PlanOk
    BY <2>1 DEF TypeInv
  <2> HIDE DEF l, v
  <2>3. v < Bytes(caches[l])
    BY <2>1, <2>2, LineInside
  <2> QED BY <2>1, <2>2, <2>3
<1> HIDE DEF l, v
<1>3. /\ base[l] \in Nat /\ turn[l] \in Nat /\ maxValue[l] \in Nat
      /\ Bytes(caches[l]) \in Nat
  BY <1>2, BytesOf DEF TypeInv
<1>4. CASE base[l] = 0
  BY <1>2, <1>3, <1>4 DEF l, v
<1>5. CASE base[l] # 0
  <2> DEFINE t == turn[l]
             g == moves[l].guard
             inc == moves[l].increment
             size == Bytes(caches[l])
  <2>1. /\ l \in DOMAIN moves /\ t \in Nat /\ t + 1 <= g /\ g \in Nat \ {0}
        /\ inc \in Nat /\ base[l] = t * inc
    BY <1>2, <1>5, MovedBase
  <2>2. /\ Checked(l) /\ StepSize(l) <= inc /\ g * inc <= size
        /\ StepSize(l) \in Nat /\ size \in Nat
        /\ maxValue[l] % Bytes(caches[Ant(l)]) # 0 => maxValue[l] < StepSize(l)
    BY <1>3, <2>1, MovingIs
  <2>3. v < inc
    <3>1. maxValue[l] < StepSize(l)
      BY <2>2 DEF OnEdge, l
    <3> HIDE DEF inc
    <3> QED BY <1>2, <1>3, <2>1, <2>2, <3>1
  <2> HIDE DEF t, g, inc, size
  <2>4. (t + 1) * inc <= g * inc
    BY <2>1, TimesMonotone
  <2>5. (t + 1) * inc = t * inc + inc /\ t * inc \in Nat /\ g * inc \in Nat
    BY <2>1
  <2>6. base[l] + v < size
    BY <1>2, <1>3, <2>1, <2>2, <2>3, <2>4, <2>5
  <2> QED BY <2>6 DEF l, v, size
<1> QED BY <1>4, <1>5

-----------------------------------------------------------------------------
\* The lines chosen for the first level are its first ones.
LEMMA FirstLines ==
  ASSUME PlanOk, SetsOk
  PROVE  ToSet(sets[1]) = 0..(Len(sets[1]) - 1)
<1> DEFINE N == caches[1].lines
           S == Free(1)
           f == [n \in 1..N |-> n - 1]
           a == Len(sets[1])
<1>1. N \in Nat \ {0} /\ 1 \in Levels
  BY PlanTypes, SomeLevel
<1>2. S = 0..(N - 1)
  <2>1. 1..(1 - 1) = {}
    OBVIOUS
  <2> QED BY <2>1 DEF Free, SetsWays
<1> HIDE DEF S, N
<1>3. Ascends(f, N, S)
  <2>1. f \in [1..N -> S] /\ \A i, j \in 1..N : i < j => f[i] < f[j]
    BY <1>1, <1>2
  <2>2. ASSUME NEW p \in S PROVE \E i \in 1..N : f[i] = p
    <3>1. p + 1 \in 1..N /\ f[p + 1] = p
      BY <1>1, <1>2
    <3> QED BY <3>1
  <2> QED BY <2>1, <2>2 DEF Ascends
<1>4. Cardinality(S) = N /\ \A n \in 1..N : n - 1 = At(S, n)
  <2>1. S \in SUBSET Nat
    BY <1>1, <1>2
  <2>2. Cardinality(S) = N /\ \A n \in 1..N : f[n] = At(S, n)
    <3> HIDE DEF f
    <3> QED BY <1>1, <1>3, <2>1, OneEnumeration
  <2> QED BY <2>2
<1>5. a \in 0..N /\ sets[1] \in Seq(Nat)
  BY <1>1, LinesOf DEF N
<1>6. \A n \in 1..a : sets[1][n] = n - 1
  <2>1. \A n \in 1..a : sets[1][n] = At(S, n)
    BY <1>1 DEF SetsOk, S
  <2>2. \A n \in 1..a : n \in 1..N
    BY <1>1, <1>5
  <2> HIDE DEF a
  <2> QED BY <1>4, <2>1, <2>2
<1>7. DOMAIN sets[1] = 1..a
  BY <1>5
<1>8. ToSet(sets[1]) = {sets[1][n] : n \in 1..a}
  BY <1>7 DEF ToSet
<1> HIDE DEF a
<1>9. {sets[1][n] : n \in 1..a} = 0..(a - 1)
  <2>1. ASSUME NEW e \in 0..(a - 1) PROVE \E n \in 1..a : sets[1][n] = e
    <3>1. e + 1 \in 1..a /\ (e + 1) - 1 = e
      BY <1>5
    <3> QED BY <1>6, <3>1
  <2>2. \A n \in 1..a : sets[1][n] \in 0..(a - 1)
    BY <1>5, <1>6
  <2> QED BY <2>1, <2>2
<1> QED BY <1>8, <1>9 DEF a

\* With two levels, the second one may choose as many lines in each round of
\* the first level as that one leaves.
LEMMA SecondLines ==
  ASSUME PlanOk, SetsOk, Len(caches) = 2
  PROVE  /\ 1 \in Levels /\ 2 \in Levels /\ Ant(2) = 1
         /\ RoomBelow(2) \in Nat
         /\ Len(sets[1]) + RoomBelow(2) = caches[1].lines
         /\ \A e \in Nat : e \in Free(2) <=>
              /\ e <= caches[2].lines - 1
              /\ Len(sets[1]) <= e % caches[1].lines
<1>1. 1 \in Levels /\ 2 \in Levels
  BY DEF Levels
<1>2. Ant(2) = 1
  <2>1. Ant(2) \in 1..(2 - 1)
    BY <1>1, AntIs
  <2> QED BY <2>1
<1>3. /\ Len(sets[1]) \in 0..caches[1].lines /\ caches[1].lines \in Nat \ {0}
      /\ caches[2].lines \in Nat \ {0}
  BY <1>1, LinesOf, PlanTypes
<1>4. RoomBelow(2) = caches[1].lines - Len(sets[1])
  BY <1>2 DEF RoomBelow
<1>5. ASSUME NEW e \in Nat
      PROVE  e \in Free(2) <=> /\ e <= caches[2].lines - 1
                               /\ Len(sets[1]) <= e % caches[1].lines
  <2>1. 1..(2 - 1) = {1}
    OBVIOUS
  <2>2. e \in Free(2) <=> /\ e \in SetsWays(caches[2])
                          /\ e % caches[1].lines \notin 0..(Len(sets[1]) - 1)
    BY <2>1, FirstLines DEF Free
  <2>3. e % caches[1].lines \in Nat
    BY <1>3, DivMod
  <2>4. e \in SetsWays(caches[2]) <=> e <= caches[2].lines - 1
    BY <1>3 DEF SetsWays
  <2>5. e % caches[1].lines \notin 0..(Len(sets[1]) - 1)
          <=> Len(sets[1]) <= e % caches[1].lines
    BY <1>3, <2>3
  <2> QED BY <2>2, <2>4, <2>5
<1> QED BY <1>1, <1>2, <1>3, <1>4, <1>5

\* If n elements of a set are below a number, so is its n-th one.
LEMMA AtBelow ==
  ASSUME NEW S \in SUBSET Nat, IsFiniteSet(S), NEW X \in SUBSET S, NEW b \in Nat,
         \A x \in X : x < b, NEW n \in 1..Cardinality(S), n <= Cardinality(X)
  PROVE  At(S, n) < b
<1> DEFINE p == At(S, n)
<1>1. p \in S /\ p \in Nat /\ Cardinality(Below(S, p)) = n - 1
  BY RanksCount DEF At
<1> HIDE DEF p
<1> SUFFICES ASSUME b <= p PROVE FALSE
  BY <1>1 DEF p
<1>2. X \in SUBSET Below(S, p)
  <2> SUFFICES ASSUME NEW x \in X PROVE x < p
    BY DEF Below
  <2>1. x \in Nat /\ p \in Nat /\ x < b
    BY <1>1
  <2> QED BY <2>1
<1>3. Below(S, p) \in SUBSET S
  BY DEF Below
<1>4. IsFiniteSet(Below(S, p))
  BY <1>3, FS_Subset
<1>5. Cardinality(X) <= Cardinality(Below(S, p)) /\ IsFiniteSet(X)
  BY <1>2, <1>4, FS_Subset
<1>6. Cardinality(X) \in Nat /\ Cardinality(S) \in Nat
  BY <1>5, FS_CardinalityType
<1> QED BY <1>1, <1>5, <1>6

\* With two levels, the lines of the second one up to the room the first one
\* leaves lie in the size of the first one, twice as many in twice the size, and
\* it has as many if it is larger and has any accesses.
LEMMA EarlyLines ==
  ASSUME PlanOk, SetsOk, Len(caches) = 2
  PROVE  /\ \A n \in 1..Len(sets[2]) :
              /\ n <= RoomBelow(2) => sets[2][n] < caches[1].lines
              /\ n <= 2 * RoomBelow(2) => sets[2][n] < 2 * caches[1].lines
         /\ caches[1].lines < caches[2].lines /\ ratios[2] > 0
              => 2 * RoomBelow(2) <= Len(sets[2])
<1> DEFINE a == Len(sets[1])
           L == caches[1].lines
           M == caches[2].lines
           room == RoomBelow(2)
           F == Free(2)
           X == a..(L - 1)
           Y == (L + a)..(2 * L - 1)
<1>1. /\ 1 \in Levels /\ 2 \in Levels /\ room \in Nat /\ a + room = L
      /\ \A e \in Nat : e \in F <=> e <= M - 1 /\ a <= e % L
  BY SecondLines
<1>2. /\ L \in Nat \ {0} /\ M \in Nat \ {0} /\ L <= M /\ a \in Nat
      /\ L < M => 2 * L <= M
  <2>1. L \in Nat \ {0} /\ M \in Nat \ {0} /\ a \in Nat
    BY <1>1, PlanTypes, LinesOf
  <2>2. L <= M /\ (L < M => M % (2 * L) = 0)
    BY <1>1, NearerDivides
  <2>3. ASSUME M % (2 * L) = 0 PROVE 2 * L <= M
    <3> DEFINE d == 2 * L
    <3>1. d \in Nat \ {0} /\ M % d = 0
      BY <2>1, <2>3
    <3> HIDE DEF d
    <3>2. d <= M
      BY <2>1, <3>1, DivisorFits
    <3> QED BY <3>2 DEF d
  <2> QED BY <2>1, <2>2, <2>3
<1>3. /\ F \in SUBSET Nat /\ IsFiniteSet(F) /\ Len(sets[2]) \in Nat
      /\ Cardinality(F) \in Nat /\ Len(sets[2]) <= Cardinality(F)
      /\ \A n \in 1..Len(sets[2]) : sets[2][n] = At(F, n) /\ sets[2][n] \in Nat
      /\ ratios[2] > 0 => Len(sets[2]) = Cardinality(F)
  <2>1. F \in SUBSET SetsWays(caches[2])
    BY DEF Free
  <2>2. F \in SUBSET Nat /\ IsFiniteSet(F) /\ Cardinality(F) \in Nat
    <3>1. 2 \in Levels
      BY <1>1
    <3> HIDE DEF F
    <3>2. F \in SUBSET Nat /\ IsFiniteSet(F)
      BY <2>1, <3>1, LinesAre
    <3> QED BY <3>2, FS_CardinalityType
  <2>3. Len(sets[2]) \in Nat /\ \A n \in 1..Len(sets[2]) : sets[2][n] \in Nat
    BY <1>1, LinesOf
  <2> QED BY <1>1, <2>2, <2>3 DEF SetsOk
<1> HIDE DEF F, L, M, a, room
<1>4. /\ X \in SUBSET F /\ IsFiniteSet(X) /\ Cardinality(X) = room
      /\ \A x \in X : x < L
  <2>1. ASSUME NEW e \in X PROVE e \in F
    <3>1. e \in 0..(L - 1) /\ e = L * 0 + e /\ e \in Nat
      BY <1>2
    <3>2. (L * 0 + e) % L = e
      BY <1>2, <3>1, DivOf
    <3> QED BY <1>1, <1>2, <3>1, <3>2
  <2>2. a \in Int /\ L - 1 \in Int
    BY <1>2
  <2>3. IsFiniteSet(X) /\ Cardinality(X) = IF a > L - 1 THEN 0 ELSE L - 1 - a + 1
    <3> HIDE DEF X
    <3> QED BY <2>2, FS_Interval DEF X
  <2> QED BY <1>1, <1>2, <2>1, <2>3
<1>5. ASSUME L < M
      PROVE  /\ Y \in SUBSET F /\ IsFiniteSet(Y) /\ Cardinality(Y) = room
             /\ \A y \in Y : y < 2 * L
  <2>1. ASSUME NEW e \in Y PROVE e \in F
    <3>1. e - L \in 0..(L - 1) /\ e = L * 1 + (e - L) /\ e \in Nat
      BY <1>2
    <3>2. (L * 1 + (e - L)) % L = e - L
      BY <1>2, <3>1, DivOf
    <3> QED BY <1>1, <1>2, <1>5, <3>1, <3>2
  <2>2. L + a \in Int /\ 2 * L - 1 \in Int
    BY <1>2
  <2>3. IsFiniteSet(Y)
        /\ Cardinality(Y) = IF L + a > 2 * L - 1 THEN 0 ELSE 2 * L - 1 - (L + a) + 1
    <3> HIDE DEF Y
    <3> QED BY <2>2, FS_Interval DEF Y
  <2> QED BY <1>1, <1>2, <2>1, <2>3
<1>6. ASSUME L < M
      PROVE  /\ X \cup Y \in SUBSET F /\ Cardinality(X \cup Y) = 2 * room
             /\ \A x \in X \cup Y : x < 2 * L
  <2>1. X \cap Y = {}
    BY <1>2
  <2>2. \A x \in X : x < 2 * L
    BY <1>2
  <2> HIDE DEF X, Y
  <2>3. Cardinality(X \cup Y) = room + room - 0
    BY <1>4, <1>5, <1>6, <2>1, FS_Union, FS_EmptySet
  <2> QED BY <1>1, <1>4, <1>5, <1>6, <2>2, <2>3
<1> HIDE DEF X, Y
<1>7. ASSUME NEW n \in 1..Len(sets[2]), n <= room
      PROVE  sets[2][n] < L
  <2>1. n \in 1..Cardinality(F)
    BY <1>3
  <2> QED BY <1>2, <1>3, <1>4, <1>7, <2>1, AtBelow
<1>8. ASSUME NEW n \in 1..Len(sets[2]), n <= 2 * room
      PROVE  sets[2][n] < 2 * L
  <2>1. n \in 1..Cardinality(F) /\ 2 * L \in Nat
    BY <1>2, <1>3
  <2>2. CASE L < M
    <3>1. At(F, n) < 2 * L
      <4> DEFINE Z == X \cup Y
                 b == 2 * L
      <4>1. Z \in SUBSET F /\ b \in Nat /\ (\A x \in Z : x < b) /\ n <= Cardinality(Z)
        BY <1>6, <1>8, <2>1, <2>2
      <4> HIDE DEF Z, b
      <4>2. At(F, n) < b
        BY <1>3, <2>1, <4>1, AtBelow
      <4> QED BY <4>2 DEF b
    <3> QED BY <1>3, <3>1
  <2>3. CASE L = M
    <3>1. sets[2][n] <= M - 1 /\ sets[2][n] \in Nat
      BY <1>1, LinesOf DEF M
    <3> QED BY <1>2, <2>3, <3>1
  <2> QED BY <1>2, <2>2, <2>3
<1>9. ASSUME L < M, ratios[2] > 0
      PROVE  2 * room <= Len(sets[2])
  <2>1. Cardinality(X \cup Y) <= Cardinality(F)
    BY <1>3, <1>6, <1>9, FS_Subset
  <2> QED BY <1>3, <1>6, <1>9, <2>1
<1> QED BY <1>7, <1>8, <1>9 DEF L, M, room

-----------------------------------------------------------------------------
\* With two levels the size of the outer one is a multiple of its step: its
\* accesses lie in twice the size of the inner one.
LEMMA TwoLevelsWhole ==
  ASSUME TypeInv, TraceInv, RunInv, NEW l \in DOMAIN moves, Len(caches) = 2
  PROVE  l = 2 /\ Ant(l) = 1 /\ Whole(l)
<1> DEFINE L == caches[1].lines
           M == caches[2].lines
           b == LineSize * L
           size == LineSize * M
           step == StepSize(2)
           max == maxValue[2]
<1>1. PlanOk /\ SetsOk
  BY DEF TypeInv
<1>2. l = 2 /\ Ant(l) = 1
  <2>1. l \in Levels /\ l > 1
    BY MovingIs DEF Checked
  <2>2. Ant(2) = 1
    BY <1>1, SecondLines
  <2>3. l \in 1..2
    BY <2>1 DEF Levels
  <2> QED BY <2>1, <2>2, <2>3
<1>3. /\ L \in Nat \ {0} /\ M \in Nat \ {0} /\ LineSize \in Nat \ {0}
      /\ L <= M /\ M % L = 0 /\ (L < M => M % (2 * L) = 0)
  BY <1>1, SecondLines, PlanTypes, NearerDivides, ConstantsAssumption
<1>4. Bytes(caches[Ant(l)]) = b /\ Bytes(caches[2]) = size
      /\ b \in Nat \ {0} /\ size \in Nat \ {0}
  BY <1>2, <1>3 DEF Bytes
<1>5. /\ max \in Nat \ {0} /\ step \in Nat \ {0} /\ step % b = 0
      /\ step <= max + b - 1 /\ count[2] <= 2 * RoomBelow(2)
  BY <1>2, <1>4, MovingIs
<1>6. PICK n \in 1..Len(sets[2]) : n <= count[2] /\ max = LineSize * sets[2][n]
  <2>1. 2 \in Levels /\ maxValue[2] # 0
    BY <1>1, <1>5, SecondLines
  <2> QED BY <2>1 DEF TraceInv
<1> DEFINE e == sets[2][n]
<1>7. e \in Nat /\ e <= M - 1 /\ e < 2 * L
  <2>1. 2 \in Levels /\ RoomBelow(2) \in Nat
    BY <1>1, SecondLines
  <2>2. e \in Nat /\ e <= M - 1 /\ Len(sets[2]) \in Nat
    BY <1>1, <2>1, LinesOf
  <2>3. count[2] \in Nat
    BY <2>1 DEF TypeInv
  <2>4. n <= 2 * RoomBelow(2)
    BY <1>5, <1>6, <2>1, <2>2, <2>3
  <2>5. e < 2 * L
    BY <1>1, <2>4, EarlyLines
  <2> QED BY <2>2, <2>5
<1>8. Whole(l) <=> size % step = 0
  BY <1>2, <1>4 DEF Whole
<1> HIDE DEF L, M, e, step, max
<1>9. max = LineSize * e
  BY <1>6 DEF e
<1> DEFINE c == step \div b
<1>10. c \in Nat /\ step = b * c
  <2> HIDE DEF b
  <2>1. step \in Nat /\ b \in Nat \ {0}
    BY <1>4, <1>5
  <2>2. c \in Nat /\ step = b * c + (step % b)
    BY <2>1, DivMod
  <2> HIDE DEF c
  <2> QED BY <1>5, <2>1, <2>2
<1> HIDE DEF c
<1>11. c # 0
  BY <1>4, <1>5, <1>10
\* Lines below k times the first level make a step of at most k times it.
<1>12. ASSUME NEW k \in Nat, e + 1 <= k * L
       PROVE  c <= k
  <2>1. (e + 1) * LineSize <= (k * L) * LineSize
    <3>1. k * L \in Nat /\ e + 1 \in Nat
      BY <1>3, <1>7
    <3> HIDE DEF b
    <3> QED BY <1>3, <1>12, <3>1, TimesMonotone
  <2>2. (e + 1) * LineSize = max + LineSize /\ (k * L) * LineSize = k * b
    BY <1>3, <1>7, <1>9
  <2> HIDE DEF b
  <2>3. max + 1 <= k * b
    BY <1>3, <1>4, <1>5, <2>1, <2>2
  <2>4. ASSUME k + 1 <= c PROVE FALSE
    <3>1. (k + 1) * b <= c * b
      BY <1>4, <1>10, <2>4, TimesMonotone
    <3>2. (k + 1) * b = k * b + b /\ c * b = b * c
      BY <1>4, <1>10
    <3>3. k * b \in Nat /\ b * c \in Nat
      BY <1>4, <1>10
    <3> QED BY <1>4, <1>5, <1>10, <2>3, <3>1, <3>2, <3>3
  <2> QED BY <1>10, <2>4
<1>13. CASE L = M
  <2>1. e + 1 <= 1 * L
    BY <1>3, <1>7, <1>13
  <2>2. c = 1
    BY <1>10, <1>11, <1>12, <2>1
  <2>3. step = size
    BY <1>3, <1>10, <1>13, <2>2
  <2>4. size % size = 0
    <3>1. size * 1 + 0 = size /\ 0 \in 0..(size - 1)
      BY <1>4
    <3> HIDE DEF size
    <3> QED BY <1>4, <3>1, DivOf
  <2> QED BY <1>2, <1>8, <2>3, <2>4
<1>14. CASE L < M
  <2>1. e + 1 <= 2 * L
    BY <1>3, <1>7
  <2>2. c <= 2
    BY <1>12, <2>1
  <2>3. CASE c = 1
    <3>1. step = b
      BY <1>3, <1>10, <2>3
    <3>2. size % b = 0
      BY <1>3, Scaled
    <3> QED BY <1>2, <1>8, <3>1, <3>2
  <2>4. CASE c = 2
    <3> DEFINE d == 2 * L
    <3>1. step = LineSize * d
      BY <1>3, <1>10, <2>4
    <3>2. d \in Nat \ {0} /\ M % d = 0
      BY <1>3, <1>14
    <3> HIDE DEF d
    <3>3. size % (LineSize * d) = 0
      BY <1>3, <3>2, Scaled
    <3> QED BY <1>2, <1>8, <3>1, <3>3
  <2> QED BY <1>10, <1>11, <2>2, <2>3, <2>4
<1> QED BY <1>3, <1>13, <1>14

\* A base is a multiple of the level it must not disturb.
LEMMA BaseKeepsClass ==
  ASSUME TypeInv, TraceInv, RunInv, NEW l \in Levels, base[l] # 0,
         Len(caches) = 2 \/ Whole(l)
  PROVE  /\ l \in DOMAIN moves /\ Ant(l) \in Levels /\ Ant(l) < l
         /\ base[l] % Bytes(caches[Ant(l)]) = 0
<1> DEFINE b == Bytes(caches[Ant(l)])
           t == turn[l]
           inc == moves[l].increment
<1>1. /\ l \in DOMAIN moves /\ t \in Nat /\ moves[l].guard \in Nat \ {0}
      /\ base[l] = t * inc
  BY MovedBase
<1>2. Whole(l)
  BY <1>1, TwoLevelsWhole
<1>3. /\ Ant(l) \in Levels /\ Ant(l) < l /\ b \in Nat \ {0}
      /\ inc \in Nat /\ inc % b = 0
  <2>1. moves[l].guard > 0
    BY <1>1
  <2> QED BY <1>1, <1>2, <2>1, MovingIs
<1> HIDE DEF b, t, inc
<1>4. (t * inc) % b = 0
  BY <1>1, <1>3, MultipleOf
<1> QED BY <1>1, <1>3, <1>4 DEF b

\* A base that moved keeps the classes.
LEMMA MovesKeepClassesHolds ==
  ASSUME TypeInv, TraceInv, RunInv
  PROVE  MovesKeepClasses
<1> SUFFICES ASSUME NEW l \in Levels, base[l] > 0, Len(caches) = 2 \/ Whole(l)
             PROVE  base[l] % Bytes(caches[Ant(l)]) = 0
  BY DEF MovesKeepClasses
<1>1. base[l] # 0
  BY DEF TypeInv
<1> QED BY <1>1, BaseKeepsClass

-----------------------------------------------------------------------------
\* A quotient is no larger than the number.
LEMMA QuotientFits ==
  ASSUME NEW a \in Nat, NEW b \in Nat \ {0}
  PROVE  a \div b \in 0..a
<1> DEFINE q == a \div b
<1>1. q \in Nat /\ a % b \in Nat /\ a = b * q + (a % b)
  BY DivMod
<1> HIDE DEF q
<1>2. q * 1 <= q * b
  <2>1. 1 * q <= b * q
    BY <1>1, TimesMonotone
  <2> QED BY <1>1, <2>1
<1>3. b * q <= a /\ b * q \in Nat
  <2>1. b * q \in Nat
    BY <1>1
  <2> QED BY <1>1, <2>1
<1>4. q <= a
  BY <1>1, <1>2, <1>3
<1> QED BY <1>1, <1>4 DEF q

\* The bases of a level lie in it, and the start is one of them.
LEMMA BasesFit ==
  ASSUME TypeInv, RunInv, NEW l \in Levels
  PROVE  /\ \A b \in Bases(l) : b \in Nat /\ b <= Bytes(caches[l])
         /\ l \notin DOMAIN moves \/ moves[l].guard > 0 => 0 \in Bases(l)
<1> DEFINE size == Bytes(caches[l])
<1>1. size \in Nat
  BY BytesOf DEF TypeInv
<1> HIDE DEF size
<1>2. CASE l \notin DOMAIN moves
  BY <1>1, <1>2 DEF Bases, size
<1>3. CASE l \in DOMAIN moves
  <2> DEFINE g == moves[l].guard
             inc == moves[l].increment
  <2>1. g \in Nat /\ (g > 0 => inc \in Nat /\ g * inc <= size)
    BY <1>3, MovingIs DEF size
  <2>2. Bases(l) = {k * inc : k \in 0..(g - 1)}
    BY <1>3 DEF Bases
  <2> HIDE DEF g, inc
  <2>3. ASSUME NEW k \in 0..(g - 1)
        PROVE  k * inc \in Nat /\ k * inc <= size
    <3>1. g > 0 /\ k \in Nat /\ k <= g /\ inc \in Nat
      BY <2>1
    <3>2. k * inc <= g * inc
      BY <2>1, <3>1, TimesMonotone
    <3>3. k * inc \in Nat /\ g * inc \in Nat
      BY <2>1, <3>1
    <3> QED BY <1>1, <2>1, <3>1, <3>2, <3>3
  <2>4. ASSUME g > 0 PROVE 0 \in Bases(l)
    <3>1. 0 \in 0..(g - 1) /\ 0 * inc = 0
      BY <2>1, <2>4
    <3> QED BY <2>2, <3>1
  <2> QED BY <1>3, <2>2, <2>3, <2>4 DEF size, g
<1> QED BY <1>2, <1>3

\* The lines of a round are finitely many, and those of the accesses at
\* every base are among them.
LEMMA RoundLinesAre ==
  ASSUME TypeInv, TraceInv, RunInv, NEW l \in Levels
  PROVE  /\ IsFiniteSet(RoundLines(l)) /\ Cardinality(RoundLines(l)) \in Nat
         /\ \A b \in Bases(l), n \in 1..Module(l) :
              n <= count[l] => (b + LineSize * sets[l][n]) \div LineSize \in RoundLines(l)
<1> DEFINE size == Bytes(caches[l])
           I == {j \in 1..Len(trace) : trace[j].level = l}
<1>1. size \in Nat /\ LineSize \in Nat \ {0} /\ PlanOk
  BY BytesOf DEF TypeInv
<1> HIDE DEF size
<1>2. RoundLines(l) = {(b + trace[i].value) \div LineSize : b \in Bases(l), i \in I}
  BY DEF RoundLines
<1>3. ASSUME NEW b \in Bases(l), NEW i \in I
      PROVE  (b + trace[i].value) \div LineSize \in 0..(2 * size)
  <2> DEFINE v == trace[i].value
  <2>1. v \in Nat /\ v < size
    <3>1. /\ trace[i] \in [level : Levels, value : Nat] /\ trace[i].level = l
          /\ \E n \in 1..Len(sets[l]) :
               LET e == sets[l][n]
               IN  e \in Nat /\ e <= caches[l].lines - 1 /\ v = LineSize * e
      BY TracedLine
    <3>2. v \in Nat
      BY <3>1
    <3> HIDE DEF v
    <3> QED BY <1>1, <3>1, <3>2, LineInside DEF size
  <2>2. b \in Nat /\ b <= size
    BY BasesFit DEF size
  <2> HIDE DEF v
  <2>3. b + v \in Nat /\ b + v <= 2 * size
    BY <1>1, <2>1, <2>2
  <2>4. (b + v) \div LineSize \in 0..(b + v)
    BY <1>1, <2>3, QuotientFits
  <2>5. (b + v) \div LineSize \in 0..(2 * size)
    BY <1>1, <2>3, <2>4
  <2> QED BY <2>5 DEF v
<1> HIDE DEF I
<1>4. RoundLines(l) \in SUBSET (0..(2 * size))
  BY <1>2, <1>3
<1>5. IsFiniteSet(0..(2 * size))
  <2>1. 0 \in Int /\ 2 * size \in Int
    BY <1>1
  <2> QED BY <2>1, FS_Interval
<1>6. IsFiniteSet(RoundLines(l)) /\ Cardinality(RoundLines(l)) \in Nat
  BY <1>4, <1>5, FS_Subset, FS_CardinalityType
<1>7. ASSUME NEW b \in Bases(l), NEW n \in 1..Module(l), n <= count[l]
      PROVE  (b + LineSize * sets[l][n]) \div LineSize \in RoundLines(l)
  <2>1. PICK i \in 1..Len(trace) : trace[i] = Address(l, n)
    BY <1>7 DEF TraceInv
  <2>2. i \in I /\ trace[i].value = LineSize * sets[l][n]
    BY <2>1 DEF I, Address
  <2> QED BY <1>2, <2>2
<1> QED BY <1>6, <1>7

\* A set into which another one is mapped one to one is no smaller.
LEMMA AtLeast ==
  ASSUME NEW S, NEW T, NEW f \in [S -> T], IsFiniteSet(T),
         \A x, y \in S : f[x] = f[y] => x = y
  PROVE  Cardinality(S) <= Cardinality(T)
BY FS_Injection DEF Injection, IsInjective

\* The lines of a round of the outer level are more than the inner one has
\* room for: either one iteration has more accesses, or the bases keep them apart.
LEMMA OuterOverflowsHolds ==
  ASSUME TypeInv, TraceInv, RunInv
  PROVE  OuterOverflows
<1> SUFFICES ASSUME phase = "run", Len(caches) = 2, ratios[2] > 0,
                    caches[1].lines < caches[2].lines
             PROVE  Cardinality(RoundLines(2)) > RoomBelow(2)
  BY DEF OuterOverflows
<1> DEFINE L == caches[1].lines
           S == sets[2]
           N == Len(sets[2])
           room == RoomBelow(2)
           c == count[2]
           R == RoundLines(2)
           g == Guard(2)
<1>1. /\ PlanOk /\ SetsOk /\ 1 \in Levels /\ 2 \in Levels /\ Ant(2) = 1
      /\ room \in Nat /\ L \in Nat \ {0} /\ LineSize \in Nat \ {0}
      /\ c \in Nat /\ N \in Nat
  <2>1. PlanOk /\ SetsOk
    BY DEF TypeInv
  <2>2. 1 \in Levels /\ 2 \in Levels /\ Ant(2) = 1 /\ room \in Nat
    BY <2>1, SecondLines
  <2>3. c \in Nat
    BY <2>2 DEF TypeInv
  <2> QED BY <2>1, <2>2, <2>3, LinesOf, PlanTypes, ConstantsAssumption
<1>2. /\ Checked(2) /\ c # 0 /\ maxValue[2] # 0 /\ ~(g * c < 2 * room)
  BY <1>1 DEF RunInv, TooFew, Checked
<1>3. /\ \A n \in 1..N : /\ S[n] \in Nat
                         /\ n <= room => S[n] < L
      /\ 2 * room <= N
      /\ \A m, n \in 1..N : m < n => S[m] < S[n]
  BY <1>1, LinesOf, EarlyLines
<1>4. room # 0
  <2>1. PICK n \in 1..N : n <= c
    BY <1>1, <1>2 DEF TraceInv
  <2>2. S[n] \in Nat /\ S[n] \in Free(2)
    BY <1>1, LinesOf
  <2>3. Len(sets[1]) <= S[n] % L /\ Len(sets[1]) + room = L
    BY <1>1, <2>2, SecondLines
  <2>4. S[n] % L \in 0..(L - 1)
    BY <1>1, <2>2, DivMod
  <2>5. Len(sets[1]) \in Nat
    BY <1>1, LinesOf
  <2> HIDE DEF S, room, L
  <2> QED BY <1>1, <2>3, <2>4, <2>5
<1>5. /\ Module(2) \in Nat /\ 2 * room <= Module(2) /\ Module(2) <= N
  <2>1. caches[2 - 1].lines - Len(sets[2 - 1]) = room /\ 2 - 1 = 1
    BY <1>1 DEF RoomBelow
  <2>2. Module(2) = Min2(4 * room, N)
    BY <2>1 DEF Module
  <2> HIDE DEF room, N
  <2> QED BY <1>1, <1>3, <2>2 DEF Min2
<1>6. /\ IsFiniteSet(R) /\ Cardinality(R) \in Nat
      /\ \A b \in Bases(2), n \in 1..Module(2) :
           n <= c => (b + LineSize * S[n]) \div LineSize \in R
  BY <1>1, RoundLinesAre
<1>7. \A m, n \in 1..N : S[m] = S[n] => m = n
  <2> SUFFICES ASSUME NEW m \in 1..N, NEW n \in 1..N, S[m] = S[n] PROVE m = n
    OBVIOUS
  <2> HIDE DEF S, N
  <2>1. ~(m < n) /\ ~(n < m)
    BY <1>3
  <2> QED BY <1>1, <2>1
<1> HIDE DEF S, N, room, c, R, L, g
<1>8. 2 \in DOMAIN moves => /\ g = moves[2].guard /\ g \in Nat
                            /\ g # 0
  <2> SUFFICES ASSUME 2 \in DOMAIN moves PROVE g = moves[2].guard /\ g \in Nat /\ g # 0
    OBVIOUS
  <2>1. g = moves[2].guard /\ g \in Nat
    BY MovingIs DEF g
  <2>2. g # 0
    BY <1>1, <1>2, <1>4, <2>1
  <2> QED BY <2>1, <2>2
\* More accesses than the room go through more lines at the start.
<1>9. CASE room < c
  <2> DEFINE m == room + 1
             f == [n \in 1..m |-> S[n]]
  <2>1. 0 \in Bases(2)
    <3>1. 2 \notin DOMAIN moves \/ moves[2].guard > 0
      BY <1>8
    <3> QED BY <1>1, <3>1, BasesFit
  <2>2. ASSUME NEW n \in 1..m PROVE n \in 1..N /\ S[n] \in R
    <3>1. n \in 1..Module(2) /\ n <= c /\ n \in 1..N
      BY <1>1, <1>4, <1>5, <1>9
    <3>2. (0 + LineSize * S[n]) \div LineSize \in R
      BY <1>6, <2>1, <3>1
    <3>3. S[n] \in Nat /\ 0 \in 0..(LineSize - 1)
      BY <1>1, <1>3, <3>1
    <3>4. (LineSize * S[n] + 0) \div LineSize = S[n]
      BY <1>1, <3>3, DivOf
    <3>5. 0 + LineSize * S[n] = LineSize * S[n] + 0
      BY <1>1, <3>3
    <3> QED BY <3>1, <3>2, <3>4, <3>5
  <2>3. m \in Nat \ {0} /\ room < m
    BY <1>1
  <2> HIDE DEF m
  <2>4. f \in [1..m -> R] /\ \A i, j \in 1..m : f[i] = f[j] => i = j
    BY <1>7, <2>2
  <2> HIDE DEF f
  <2>5. Cardinality(1..m) = m
    <3>1. 1 \in Int /\ m \in Int
      BY <2>3
    <3>2. Cardinality(1..m) = IF 1 > m THEN 0 ELSE m - 1 + 1
      BY <3>1, FS_Interval
    <3> QED BY <2>3, <3>2
  <2>6. m <= Cardinality(R)
    <3> DEFINE D == 1..m
    <3>1. f \in [D -> R] /\ (\A i, j \in D : f[i] = f[j] => i = j) /\ Cardinality(D) = m
      BY <2>4, <2>5
    <3> HIDE DEF D
    <3> QED BY <1>6, <3>1, AtLeast
  <2> QED BY <1>1, <1>6, <2>3, <2>6 DEF room, R
\* Fewer stay in the first size of the inner level, and so apart from base to
\* base: the guard makes up for them.
<1>10. CASE c <= room
  <2> DEFINE b == LineSize * L
             K == 0..(g - 1)
             C == 1..c
             f == [p \in K \X C |-> L * p[1] + S[p[2]]]
  <2>1. 2 \in DOMAIN moves
    <3>1. c <= N /\ c <= 2 * room
      BY <1>1, <1>3, <1>10
    <3> QED BY <1>1, <1>2, <3>1 DEF RunInv, Moving, c, N, room
  <2>2. /\ g \in Nat \ {0} /\ g = moves[2].guard
        /\ b \in Nat \ {0} /\ Bytes(caches[Ant(2)]) = b
    <3>1. Bytes(caches[1]) = L * LineSize
      BY DEF Bytes, L
    <3> QED BY <1>1, <1>8, <2>1, <3>1
  <2>3. maxValue[2] \in Nat /\ maxValue[2] + 1 <= b
    <3>1. PICK n \in 1..N : n <= c /\ maxValue[2] = LineSize * S[n]
      BY <1>1, <1>2 DEF TraceInv, N, c, S
    <3>2. S[n] \in Nat /\ S[n] + 1 <= L
      BY <1>1, <1>3, <1>10, <3>1
    <3>3. (S[n] + 1) * LineSize <= L * LineSize
      BY <1>1, <3>2, TimesMonotone
    <3>4. (S[n] + 1) * LineSize = LineSize * S[n] + LineSize /\ LineSize * S[n] \in Nat
          /\ L * LineSize = b
      <4>1. L * LineSize = b
        BY <1>1
      <4> HIDE DEF b
      <4> QED BY <1>1, <3>2, <4>1
    <3> HIDE DEF b
    <3> QED BY <1>1, <2>2, <3>1, <3>3, <3>4
  <2>4. moves[2].increment = b
    <3> DEFINE step == StepSize(2)
               q == step \div b
    <3>1. /\ step \in Nat \ {0} /\ step % b = 0 /\ step <= maxValue[2] + b - 1
      BY <2>1, <2>2, MovingIs
    <3>2. moves[2].increment = step
      <4>1. Whole(2) /\ moves[2].guard > 0
        BY <2>1, <2>2, TwoLevelsWhole
      <4> QED BY <2>1, <4>1, MovingIs
    <3> HIDE DEF step, b
    <3>3. q \in Nat /\ step = b * q + (step % b)
      BY <2>2, <3>1, DivMod
    <3> HIDE DEF q
    <3>4. step = q * b /\ q # 0 /\ q * b \in Nat
      BY <2>2, <3>1, <3>3
    <3>5. ASSUME 2 <= q PROVE FALSE
      <4>1. 2 * b <= q * b
        BY <2>2, <3>3, <3>5, TimesMonotone
      <4> QED BY <2>2, <2>3, <3>1, <3>4, <4>1
    <3>6. q = 1
      BY <3>3, <3>4, <3>5
    <3> QED BY <2>2, <3>2, <3>4, <3>6
  <2>5. ASSUME NEW k \in K, NEW n \in C
        PROVE  /\ n \in 1..N /\ S[n] \in Nat /\ S[n] \in 0..(L - 1) /\ k \in Nat
               /\ L * k + S[n] \in R
    <3>1. n \in 1..N /\ S[n] \in Nat /\ S[n] < L /\ k \in Nat /\ n \in 1..Module(2)
          /\ n <= c
      BY <1>1, <1>3, <1>4, <1>5, <1>10, <2>2
    <3>2. k * b \in Bases(2)
      BY <2>1, <2>2, <2>4 DEF Bases
    <3>3. (k * b + LineSize * S[n]) \div LineSize \in R
      <4> HIDE DEF b
      <4> QED BY <1>6, <3>1, <3>2
    <3>4. k * b + LineSize * S[n] = LineSize * (L * k + S[n]) + 0
      <4>1. LineSize * (L * k + S[n]) = LineSize * (L * k) + LineSize * S[n]
        BY <1>1, <3>1
      <4>2. k * b = LineSize * (L * k)
        BY <1>1, <3>1
      <4>3. LineSize * (L * k) \in Nat /\ LineSize * S[n] \in Nat
        BY <1>1, <3>1
      <4> QED BY <4>1, <4>2, <4>3
    <3>5. L * k + S[n] \in Nat /\ 0 \in 0..(LineSize - 1)
      BY <1>1, <3>1
    <3>6. (LineSize * (L * k + S[n]) + 0) \div LineSize = L * k + S[n]
      BY <1>1, <3>5, DivOf
    <3>7. S[n] \in 0..(L - 1)
      BY <1>1, <3>1
    <3> QED BY <3>1, <3>3, <3>4, <3>6, <3>7
  <2> HIDE DEF b, K, C
  <2>6. f \in [K \X C -> R]
    BY <2>5
  <2>7. ASSUME NEW p \in K \X C, NEW q \in K \X C, f[p] = f[q]
        PROVE  p = q
    <3>1. p[1] \in K /\ p[2] \in C /\ q[1] \in K /\ q[2] \in C
          /\ p = <<p[1], p[2]>> /\ q = <<q[1], q[2]>>
      OBVIOUS
    <3>2. L * p[1] + S[p[2]] = L * q[1] + S[q[2]]
      BY <2>7
    <3>3. /\ p[1] \in Nat /\ q[1] \in Nat
          /\ S[p[2]] \in 0..(L - 1) /\ S[q[2]] \in 0..(L - 1)
          /\ p[2] \in 1..N /\ q[2] \in 1..N
      BY <2>5, <3>1
    <3>4. /\ (L * p[1] + S[p[2]]) \div L = p[1] /\ (L * p[1] + S[p[2]]) % L = S[p[2]]
          /\ (L * q[1] + S[q[2]]) \div L = q[1] /\ (L * q[1] + S[q[2]]) % L = S[q[2]]
      BY <1>1, <3>3, DivOf
    <3>5. p[1] = q[1] /\ S[p[2]] = S[q[2]]
      BY <3>2, <3>4
    <3>6. p[2] = q[2]
      BY <1>7, <3>3, <3>5
    <3> QED BY <3>1, <3>5, <3>6
  <2>8. Cardinality(K \X C) = g * c
    <3>1. IsFiniteSet(K) /\ Cardinality(K) = g
      <4>1. 0 \in Int /\ g - 1 \in Int
        BY <2>2
      <4>2. IsFiniteSet(K) /\ Cardinality(K) = IF 0 > g - 1 THEN 0 ELSE g - 1 - 0 + 1
        BY <4>1, FS_Interval DEF K
      <4> QED BY <2>2, <4>2
    <3>2. IsFiniteSet(C) /\ Cardinality(C) = c
      <4>1. 1 \in Int /\ c \in Int
        BY <1>1
      <4>2. IsFiniteSet(C) /\ Cardinality(C) = IF 1 > c THEN 0 ELSE c - 1 + 1
        BY <4>1, FS_Interval DEF C
      <4> QED BY <1>1, <1>2, <4>2
    <3> QED BY <3>1, <3>2, FS_Product
  <2> HIDE DEF f
  <2>9. g * c <= Cardinality(R)
    BY <1>6, <2>6, <2>7, <2>8, AtLeast
  <2>10. g * c \in Nat
    BY <1>1, <2>2
  <2> QED BY <1>1, <1>2, <1>4, <1>6, <2>9, <2>10 DEF room, R
<1> QED BY <1>1, <1>9, <1>10

-----------------------------------------------------------------------------
\* What depends only on the plan.
LEMMA PlanFrame ==
  ASSUME UNCHANGED plan
  PROVE  /\ Levels' = Levels /\ PlanOk' = PlanOk /\ SetsOk' = SetsOk
         /\ \A l : Module(l)' = Module(l)
         /\ \A l, n : Address(l, n)' = Address(l, n)
<1>1. Levels' = Levels /\ PlanOk' = PlanOk
  BY DEF plan, Levels, PlanOk
<1>2. \A l : Free(l)' = Free(l)
  BY DEF plan, Free, SetsWays
<1>3. SetsOk' = SetsOk
  BY <1>1, <1>2 DEF plan, SetsOk
<1>4. \A l : Module(l)' = Module(l)
  BY DEF plan, Module
<1>5. \A l, n : Address(l, n)' = Address(l, n)
  BY DEF plan, Address
<1> QED BY <1>1, <1>3, <1>4, <1>5

\* What depends on the plan and the accesses.
LEMMA ModelFrame ==
  ASSUME UNCHANGED plan, UNCHANGED count, UNCHANGED maxValue
  PROVE  /\ \A l : TooFew(l)' = TooFew(l)
         /\ Moving' = Moving /\ Direct' = Direct
<1>1. Levels' = Levels
  BY PlanFrame
<1>2. \A l : Ant(l)' = Ant(l)
  BY DEF plan, Ant
<1>3. \A l : RoomBelow(l)' = RoomBelow(l) /\ StepSize(l)' = StepSize(l)
  BY <1>2 DEF plan, RoomBelow, StepSize, Bytes
<1>4. \A l : Guard(l)' = Guard(l) /\ Whole(l)' = Whole(l) /\ Checked(l)' = Checked(l)
  BY <1>3 DEF plan, Guard, Whole, Checked, Bytes
<1>5. \A l : TooFew(l)' = TooFew(l)
  BY <1>3, <1>4 DEF plan, TooFew
<1>6. Moving' = Moving
  BY <1>1, <1>3, <1>4 DEF plan, Moving, Bytes
<1>7. Direct' = Direct
  BY <1>1, <1>4 DEF plan, Direct, AllWhole
<1> QED BY <1>5, <1>6, <1>7

\* A level goes round some of its lines.
LEMMA ModuleIs ==
  ASSUME PlanOk, SetsOk, NEW l \in Levels
  PROVE  Module(l) \in 0..Len(sets[l])
<1>1. Len(sets[l]) \in Nat /\ l \in Nat \ {0}
  BY LinesOf, PlanTypes
<1>2. CASE l = 1
  BY <1>1, <1>2 DEF Module
<1>3. CASE l # 1
  <2>1. l - 1 \in Levels
    BY <1>3, PlanTypes DEF Levels
  <2>2. Len(sets[l - 1]) \in 0..caches[l - 1].lines /\ caches[l - 1].lines \in Nat
    BY <2>1, LinesOf, PlanTypes
  <2>3. 4 * (caches[l - 1].lines - Len(sets[l - 1])) \in Nat
    BY <2>2
  <2> QED BY <1>1, <1>3, <2>3 DEF Module, Min2
<1> QED BY <1>2, <1>3

\* An access that is handed out is the next line in turn.
LEMMA AccessIs ==
  ASSUME TypeInv, NEW l \in Levels, Access(l), phase' # "error"
  PROVE  \E n \in 1..Module(l) :
           /\ n <= count[l] + 1 /\ (count[l] < Module(l) => n = count[l] + 1)
           /\ n \in 1..Len(sets[l]) /\ sets[l][n] \in Nat
           /\ LineSize * sets[l][n] \in Nat
           /\ trace' = Append(trace, Address(l, n))
           /\ count' = [count EXCEPT ![l] = @ + 1]
           /\ maxValue' = [maxValue EXCEPT ![l] =
                             IF @ < LineSize * sets[l][n] THEN LineSize * sets[l][n] ELSE @]
<1> DEFINE m == Module(l)
           n == (count[l] % m) + 1
<1>1. /\ PlanOk /\ SetsOk /\ count[l] \in Nat /\ m \in Nat /\ m <= Len(sets[l])
      /\ Len(sets[l]) \in Nat
  <2>1. PlanOk /\ SetsOk /\ count[l] \in Nat
    BY DEF TypeInv
  <2>2. Len(sets[l]) \in Nat
    BY <2>1, LinesOf
  <2> QED BY <2>1, <2>2, ModuleIs
<1>2. m # 0
  BY DEF Access
<1>3. /\ trace' = Append(trace, [level |-> l, value |-> LineSize * sets[l][n]])
      /\ count' = [count EXCEPT ![l] = @ + 1]
      /\ maxValue' = [maxValue EXCEPT ![l] =
                        IF @ < LineSize * sets[l][n] THEN LineSize * sets[l][n] ELSE @]
  BY DEF Access, ValueAt
<1> HIDE DEF m
<1>4. /\ count[l] % m \in 0..(m - 1) /\ count[l] % m <= count[l]
      /\ count[l] < m => count[l] % m = count[l]
  BY <1>1, <1>2, ModOf
<1> DEFINE r == count[l] % m
<1>5. /\ n \in 1..m /\ n <= count[l] + 1 /\ n \in 1..Len(sets[l])
      /\ count[l] < m => n = count[l] + 1
  <2>1. n = r + 1 /\ r \in 0..(m - 1) /\ r <= count[l] /\ (count[l] < m => r = count[l])
    BY <1>4
  <2> HIDE DEF n, r
  <2> QED BY <1>1, <1>2, <2>1
<1> HIDE DEF n
<1>6. sets[l][n] \in Nat /\ LineSize * sets[l][n] \in Nat
  <2>1. sets[l][n] \in Nat
    BY <1>1, <1>5, LinesOf
  <2> QED BY <2>1, ConstantsAssumption
<1> QED BY <1>3, <1>5, <1>6 DEF Address, m

\* An access that cannot be handed out leaves the others.
LEMMA AccessFails ==
  ASSUME NEW l \in Levels, Access(l), phase' = "error"
  PROVE  UNCHANGED <<trace, count, maxValue>>
BY DEF Access

\* The type of an address.
LEMMA AddressType ==
  ASSUME NEW l \in Levels, NEW n, LineSize * sets[l][n] \in Nat
  PROVE  Address(l, n) \in [level : Levels, value : Nat]
BY DEF Address

-----------------------------------------------------------------------------
\* No step changes the plan, and only an access and finalize_model leave the
\* accesses.
LEMMA StepFrame ==
  ASSUME [Next]_vars
  PROVE  /\ UNCHANGED plan
         /\ UNCHANGED <<trace, count, maxValue>> \/ \E l \in Levels : Access(l)
<1>1. CASE Balance \/ BalanceDone
  BY <1>1 DEF Balance, BalanceDone, model
<1>2. CASE \E l \in Levels : Access(l)
  BY <1>2 DEF Access
<1>3. CASE Finalize \/ Execute \/ EndOfLoop
  BY <1>3 DEF Finalize, Execute, EndOfLoop, model
<1>4. CASE UNCHANGED vars
  BY <1>4 DEF vars, model
<1> QED BY <1>1, <1>2, <1>3, <1>4 DEF Next

\* No step breaks the types.
LEMMA TypeStep ==
  ASSUME TypeInv, RunInv, [Next]_vars
  PROVE  TypeInv'
<1> DEFINE T == [level : Levels, value : Nat]
           Plan == PlanOk /\ SetsOk
           Accesses == trace \in Seq(T) /\ count \in [Levels -> Nat]
                       /\ maxValue \in [Levels -> Nat]
           Machine == /\ loop \in Nat /\ next \in Nat \ {0}
                      /\ turn \in [Levels -> Nat] /\ base \in [Levels -> Nat]
           Phase == phase \in {"balance", "access", "run", "error"}
<1>0. Plan /\ Accesses /\ Machine /\ Phase
  BY DEF TypeInv
<1>1. UNCHANGED plan /\ Levels' = Levels /\ Plan'
  BY <1>0, StepFrame, PlanFrame
<1>2. Accesses'
  <2>1. CASE UNCHANGED <<trace, count, maxValue>>
    BY <1>0, <1>1, <2>1
  <2>2. ASSUME NEW l \in Levels, Access(l), phase' # "error"
        PROVE  Accesses'
    <3>1. PICK n \in 1..Module(l) :
             /\ LineSize * sets[l][n] \in Nat
             /\ trace' = Append(trace, Address(l, n))
             /\ count' = [count EXCEPT ![l] = @ + 1]
             /\ maxValue' = [maxValue EXCEPT ![l] =
                  IF @ < LineSize * sets[l][n] THEN LineSize * sets[l][n] ELSE @]
      BY <2>2, AccessIs
    <3>2. Address(l, n) \in T
      BY <3>1, AddressType
    <3>3. trace' \in Seq(T)
      <4> HIDE DEF T
      <4> QED BY <1>0, <3>1, <3>2, AppendProperties
    <3>4. count' \in [Levels -> Nat] /\ maxValue' \in [Levels -> Nat]
      <4> HIDE DEF T
      <4> QED BY <1>0, <3>1
    <3> QED BY <1>1, <3>3, <3>4
  <2> QED BY <2>1, <2>2, StepFrame, AccessFails
<1>3. Machine' /\ Phase'
  <2> HIDE DEF Plan, Accesses
  <2>1. CASE Balance \/ BalanceDone
    BY <1>0, <1>1, <2>1 DEF Balance, BalanceDone, machine
  <2>2. CASE \E l \in Levels : Access(l)
    <3>1. UNCHANGED machine /\ phase' \in {phase, "error"}
      BY <2>2 DEF Access
    <3> QED BY <1>0, <1>1, <3>1 DEF machine
  <2>3. CASE Finalize
    BY <1>0, <1>1, <2>3 DEF Finalize, machine
  <2>4. CASE Execute
    BY <1>0, <1>1, <2>4 DEF Execute
  <2>5. CASE EndOfLoop
    <3>1. /\ loop' = loop + 1 /\ next' = 1 /\ phase' = phase
          /\ turn' = [l \in Levels |-> IF Again(l) THEN turn[l] + 1 ELSE 0]
          /\ base' = [l \in Levels |->
                        IF Again(l) THEN base[l] + moves[l].increment ELSE 0]
      BY <2>5 DEF EndOfLoop
    <3>2. ASSUME NEW l \in Levels, Again(l)
          PROVE  moves[l].increment \in Nat
      <4>1. l \in DOMAIN moves /\ turn[l] + 1 < moves[l].guard /\ turn[l] \in Nat
        BY <1>0, <3>2 DEF Again
      <4>2. moves[l].guard \in Nat /\ (moves[l].guard > 0 => moves[l].increment \in Nat)
        BY <4>1, MovingIs
      <4>3. moves[l].guard > 0
        BY <4>1, <4>2
      <4> QED BY <4>2, <4>3
    <3> QED BY <1>0, <1>1, <3>1, <3>2
  <2>6. CASE UNCHANGED vars
    BY <1>0, <1>1, <2>6 DEF vars, machine
  <2> QED BY <2>1, <2>2, <2>3, <2>4, <2>5, <2>6 DEF Next
<1> QED BY <1>1, <1>2, <1>3 DEF TypeInv

\* An access adds the next line in turn, and nothing else changes the accesses.
LEMMA TraceStep ==
  ASSUME TypeInv, TraceInv, [Next]_vars
  PROVE  TraceInv'
<1>1. /\ UNCHANGED plan /\ Levels' = Levels /\ \A l : Module(l)' = Module(l)
      /\ \A l, n : Address(l, n)' = Address(l, n)
  BY StepFrame, PlanFrame
<1>2. CASE UNCHANGED <<trace, count, maxValue>>
  BY <1>1, <1>2 DEF TraceInv, plan
<1>3. ASSUME NEW l \in Levels, Access(l), phase' # "error"
      PROVE  TraceInv'
  <2> DEFINE T == [level : Levels, value : Nat]
             value(n) == LineSize * sets[l][n]
             N == Len(trace)
  <2>1. PICK n \in 1..Module(l) :
           /\ n <= count[l] + 1 /\ (count[l] < Module(l) => n = count[l] + 1)
           /\ n \in 1..Len(sets[l])
           /\ value(n) \in Nat
           /\ trace' = Append(trace, Address(l, n))
           /\ count' = [count EXCEPT ![l] = @ + 1]
           /\ maxValue' = [maxValue EXCEPT ![l] = IF @ < value(n) THEN value(n) ELSE @]
    BY <1>3, AccessIs
  <2>2. /\ N \in Nat /\ Len(trace') = N + 1 /\ trace'[N + 1] = Address(l, n)
        /\ \A i \in 1..N : trace'[i] = trace[i] /\ trace[i] \in T
    <3>1. trace \in Seq(T)
      BY DEF TypeInv
    <3>2. Address(l, n) \in T
      BY <2>1, AddressType
    <3> HIDE DEF T
    <3> QED BY <2>1, <3>1, <3>2, AppendProperties
  <2>3. /\ count \in [Levels -> Nat] /\ maxValue \in [Levels -> Nat]
        /\ \A k \in Levels : Module(k) \in Nat
    BY ModuleIs, LinesOf DEF TypeInv
  <2>4. /\ \A k \in Levels : maxValue'[k] \in Nat /\ maxValue[k] <= maxValue'[k]
        /\ value(n) <= maxValue'[l]
        /\ maxValue'[l] = maxValue[l] \/ maxValue'[l] = value(n)
        /\ \A k \in Levels : k # l => maxValue'[k] = maxValue[k] /\ count'[k] = count[k]
        /\ count'[l] = count[l] + 1
    <3> HIDE DEF value
    <3> QED BY <2>1, <2>3
  <2> HIDE DEF N
  <2>5. \A i \in 1..(N + 1) : i \in 1..N \/ i = N + 1
    BY <2>2
  <2>6. ASSUME NEW i \in 1..(N + 1)
        PROVE  /\ trace'[i].value <= maxValue'[trace'[i].level]
               /\ \E j \in 1..Len(sets[trace'[i].level]) :
                    trace'[i] = Address(trace'[i].level, j)
    <3>1. CASE i = N + 1
      <4>1. trace'[i].level = l /\ trace'[i].value = value(n)
        BY <2>2, <3>1 DEF Address
      <4> HIDE DEF value
      <4> QED BY <2>1, <2>2, <2>4, <3>1, <4>1
    <3>2. CASE i \in 1..N
      <4>1. trace'[i] = trace[i] /\ trace[i] \in T
        BY <2>2, <3>2
      <4>2. /\ trace[i].value <= maxValue[trace[i].level]
            /\ \E j \in 1..Len(sets[trace[i].level]) :
                 trace[i] = Address(trace[i].level, j)
        BY <3>2 DEF TraceInv, N
      <4>3. trace[i].value \in Nat /\ trace[i].level \in Levels
        BY <4>1
      <4>4. trace[i].value <= maxValue'[trace[i].level]
        BY <2>3, <2>4, <4>2, <4>3
      <4> QED BY <4>1, <4>2, <4>4
    <3> QED BY <2>5, <3>1, <3>2
  <2>7. ASSUME NEW k \in Levels, maxValue'[k] # 0
        PROVE  \E j \in 1..Len(sets[k]) :
                 j <= count'[k] /\ maxValue'[k] = LineSize * sets[k][j]
    <3>1. CASE maxValue'[k] = maxValue[k]
      <4>1. PICK j \in 1..Len(sets[k]) :
               j <= count[k] /\ maxValue[k] = LineSize * sets[k][j]
        BY <2>7, <3>1 DEF TraceInv
      <4>2. j <= count'[k]
        <5>1. j \in Nat /\ count[k] \in Nat
          BY <2>3
        <5> QED BY <2>4, <4>1, <5>1
      <4> QED BY <3>1, <4>1, <4>2
    <3>2. CASE k = l /\ maxValue'[l] = value(n)
      BY <2>1, <2>4, <3>2
    <3> QED BY <2>4, <3>1, <3>2
  <2>8. ASSUME NEW k \in Levels, NEW j \in 1..Module(k), j <= count'[k]
        PROVE  \E i \in 1..(N + 1) : trace'[i] = Address(k, j)
    <3>1. CASE j <= count[k]
      <4>1. PICK i \in 1..N : trace[i] = Address(k, j)
        BY <3>1 DEF TraceInv, N
      <4>2. trace'[i] = Address(k, j) /\ i \in 1..(N + 1)
        BY <2>2, <4>1
      <4> QED BY <4>2
    <3>2. CASE ~(j <= count[k])
      <4>1. k = l /\ j = count[l] + 1 /\ count[l] < Module(l)
        BY <2>3, <2>4, <2>8, <3>2
      <4>2. j = n
        BY <2>1, <4>1
      <4>3. N + 1 \in 1..(N + 1)
        BY <2>2
      <4> QED BY <2>2, <4>1, <4>2, <4>3
    <3> QED BY <3>1, <3>2
  <2>9. sets' = sets
    BY <1>1 DEF plan
  <2> HIDE DEF value, T
  <2>10. Len(trace') = N + 1
    BY <2>2
  <2> QED BY <1>1, <2>6, <2>7, <2>8, <2>9, <2>10 DEF TraceInv
<1> QED BY <1>2, <1>3, StepFrame, AccessFails

\* Bases move by the end of the loop alone, by an increment or back.
LEMMA RunStep ==
  ASSUME TypeInv, RunInv, [Next]_vars
  PROVE  RunInv'
<1> DEFINE Idle == DOMAIN moves = {} /\ loop = 0 /\ next = 1 /\ served.loop = 0
           Going == moves = Moving /\ \A l \in Levels : ~TooFew(l)
           Placed(l) == \/ turn[l] = 0 /\ base[l] = 0
                        \/ /\ l \in DOMAIN moves /\ turn[l] < moves[l].guard
                           /\ base[l] = turn[l] * moves[l].increment
<1>0. (phase # "run" => Idle) /\ (phase = "run" => Going) /\ \A l \in Levels : Placed(l)
  BY DEF RunInv
<1>1. UNCHANGED plan /\ Levels' = Levels
  BY StepFrame, PlanFrame
<1>2. CASE Balance \/ BalanceDone \/ \E l \in Levels : Access(l)
  <2>1. phase # "run" /\ phase' # "run" /\ UNCHANGED <<moves, machine>>
    BY <1>2 DEF Balance, BalanceDone, Access, model
  <2> QED BY <1>0, <1>1, <2>1 DEF RunInv, machine
<1>3. CASE Finalize
  <2>1. /\ phase = "access" /\ UNCHANGED <<count, maxValue, machine>>
        /\ \/ phase' = "error" /\ UNCHANGED moves
           \/ phase' = "run" /\ moves' = Moving /\ \A l \in Levels : ~TooFew(l)
    BY <1>3 DEF Finalize
  <2>2. (\A l : TooFew(l)' = TooFew(l)) /\ Moving' = Moving
    BY <1>1, <2>1, ModelFrame
  <2>3. \A l \in Levels : turn[l] = 0 /\ base[l] = 0
    BY <1>0, <2>1
  <2> QED BY <1>0, <1>1, <2>1, <2>2, <2>3 DEF RunInv, machine
<1>4. CASE Execute
  <2>1. /\ phase = "run" /\ UNCHANGED <<phase, count, maxValue, moves, turn, base>>
    BY <1>4 DEF Execute, model
  <2>2. (\A l : TooFew(l)' = TooFew(l)) /\ Moving' = Moving
    BY <1>1, <2>1, ModelFrame
  <2> QED BY <1>0, <1>1, <2>1, <2>2 DEF RunInv
<1>5. CASE EndOfLoop
  <2>1. /\ phase = "run" /\ UNCHANGED <<phase, count, maxValue, moves>>
        /\ turn' = [l \in Levels |-> IF Again(l) THEN turn[l] + 1 ELSE 0]
        /\ base' = [l \in Levels |->
                      IF Again(l) THEN base[l] + moves[l].increment ELSE 0]
    BY <1>5 DEF EndOfLoop, model
  <2>2. (\A l : TooFew(l)' = TooFew(l)) /\ Moving' = Moving
    BY <1>1, <2>1, ModelFrame
  <2>3. ASSUME NEW l \in Levels PROVE Placed(l)'
    <3>1. CASE ~Again(l)
      BY <2>1, <3>1
    <3>2. CASE Again(l)
      <4> DEFINE t == turn[l]
                 inc == moves[l].increment
                 g == moves[l].guard
      <4>1. l \in DOMAIN moves /\ t + 1 < g /\ t \in Nat /\ base[l] \in Nat
        BY <3>2 DEF Again, TypeInv
      <4>2. g \in Nat /\ (g > 0 => inc \in Nat)
        BY <4>1, MovingIs
      <4>3. inc \in Nat
        BY <4>1, <4>2
      <4>4. base[l] = t * inc
        <5>1. CASE t = 0 /\ base[l] = 0
          BY <4>3, <5>1
        <5> QED BY <1>0, <5>1
      <4>5. turn'[l] = t + 1 /\ base'[l] = base[l] + inc
        BY <2>1, <3>2
      <4> HIDE DEF t, inc, g
      <4>6. (t + 1) * inc = t * inc + inc
        BY <4>1, <4>3
      <4>7. turn'[l] < g /\ base'[l] = turn'[l] * inc
        BY <4>1, <4>4, <4>5, <4>6
      <4> QED BY <2>1, <4>1, <4>7 DEF inc, g
    <3> QED BY <3>1, <3>2
  <2> HIDE DEF Placed
  <2>4. \A l \in Levels : Placed(l)'
    BY <2>3
  <2> QED BY <1>0, <1>1, <2>1, <2>2, <2>4 DEF RunInv, Placed
<1>6. CASE UNCHANGED vars
  <2>1. UNCHANGED <<phase, count, maxValue, moves, turn, base, loop, next, served>>
    BY <1>6 DEF vars, model, machine
  <2>2. (\A l : TooFew(l)' = TooFew(l)) /\ Moving' = Moving
    BY <1>1, <2>1, ModelFrame
  <2> QED BY <1>0, <1>1, <2>1, <2>2 DEF RunInv
<1> QED BY <1>2, <1>3, <1>4, <1>5, <1>6 DEF Next

-----------------------------------------------------------------------------
\* An access leaves the lines of a set lines, and in a set of one way itself.
LEMMA TouchedIs ==
  ASSUME NEW T, NEW s \in Seq(T), NEW x \in T, NEW w \in Nat \ {0}
  PROVE  Touched(s, x, w) \in Seq(T) /\ (w = 1 => Touched(s, x, w) = <<x>>)
<1> DEFINE at == {k \in DOMAIN s : s[k] = x}
           k0 == CHOOSE k \in at : TRUE
           others == IF at = {} THEN s ELSE RemoveAt(s, k0)
           m == Min2(w - 1, Len(others))
<1>1. others \in Seq(T)
  <2>1. CASE at = {}
    BY <2>1
  <2>2. CASE at # {}
    <3>1. k0 \in 1..Len(s) /\ Len(s) \in Nat
      BY <2>2
    <3> HIDE DEF k0
    <3>2. SubSeq(s, 1, k0 - 1) \in Seq(T) /\ SubSeq(s, k0 + 1, Len(s)) \in Seq(T)
      BY <3>1
    <3>3. RemoveAt(s, k0) \in Seq(T)
      BY <3>2, ConcatProperties DEF RemoveAt
    <3> QED BY <2>2, <3>3
  <2> QED BY <2>1, <2>2
<1> HIDE DEF others
<1>2. m \in 0..Len(others) /\ (w = 1 => m = 0)
  <2>1. Len(others) \in Nat
    BY <1>1
  <2> QED BY <2>1 DEF Min2
<1> HIDE DEF m
<1>3. SubSeq(others, 1, m) \in Seq(T) /\ (m = 0 => SubSeq(others, 1, m) = <<>>)
  BY <1>1, <1>2
<1>4. Touched(s, x, w) = <<x>> \o SubSeq(others, 1, m)
  BY DEF Touched, others, m
<1>5. <<x>> \in Seq(T)
  OBVIOUS
<1>6. <<x>> \o <<>> = <<x>>
  OBVIOUS
<1> QED BY <1>2, <1>3, <1>4, <1>5, <1>6, ConcatProperties

\* The first level has a line and a set.
LEMMA FirstCache ==
  ASSUME PlanOk
  PROVE  /\ 1 \in Levels /\ LineSize \in Nat \ {0}
         /\ caches[1].lines \in Nat \ {0} /\ caches[1].ways \in Nat \ {0}
         /\ NumSets(caches[1]) \in Nat \ {0}
         /\ caches[1].ways = 1 => NumSets(caches[1]) = caches[1].lines
<1> DEFINE N == caches[1].lines
           w == caches[1].ways
           q == N \div w
<1>1. 1 \in Levels /\ N \in Nat \ {0} /\ w \in Nat \ {0} /\ N % w = 0
  <2>1. 1 \in Levels /\ N \in Nat \ {0} /\ w \in Nat \ {0} /\ DOMAIN caches = Levels
    BY SomeLevel, PlanTypes
  <2> QED BY <2>1, ConstantsAssumption DEF PlanOk
<1> HIDE DEF N, w
<1>2. q \in Nat /\ N = w * q
  BY <1>1, DivMod
<1>3. q # 0
  BY <1>1, <1>2
<1>4. w = 1 => q = N
  BY <1>1, <1>2
<1>5. LineSize \in Nat \ {0}
  BY ConstantsAssumption
<1> QED BY <1>1, <1>2, <1>3, <1>4, <1>5 DEF NumSets, N, w

\* An access is to a line of its variable.  Where the bases keep their classes
\* and the first level is direct-mapped, an access planned for that level is to
\* one of its chosen places, and any other access is not.
LEMMA PlacedLine ==
  ASSUME TypeInv, TraceInv, RunInv, NEW i \in 1..Len(trace)
  PROVE  LET a == trace[i]
             x == LineOf(a)
             e == a.value \div LineSize
         IN  /\ x \in LineT /\ SetOf(caches[1], x) \in 0..(NumSets(caches[1]) - 1)
             /\ a.level = 1 => /\ x = [var |-> 1, line |-> e] /\ e \in ToSet(sets[1])
                               /\ Direct => SetOf(caches[1], x) = e
             /\ a.level # 1 /\ Direct => SetOf(caches[1], x) \notin ToSet(sets[1])
<1> DEFINE l == trace[i].level
           v == trace[i].value
           N == caches[1].lines
           M == NumSets(caches[1])
           line == (base[l] + v) \div LineSize
<1>1. PlanOk /\ SetsOk
  BY DEF TypeInv
<1>2. /\ 1 \in Levels /\ LineSize \in Nat \ {0} /\ N \in Nat \ {0}
      /\ M \in Nat \ {0} /\ (caches[1].ways = 1 => M = N)
  BY <1>1, FirstCache
<1>3. PICK n \in 1..Len(sets[l]) : trace[i] = Address(l, n)
  BY DEF TraceInv
<1> DEFINE e == sets[l][n]
<1>4. /\ l \in Levels /\ e \in Nat /\ e <= caches[l].lines - 1 /\ v = LineSize * e
      /\ \A k \in Levels : k < l => e % caches[k].lines \notin ToSet(sets[k])
  <2>1. l \in Levels
    BY TracedLine
  <2>2. v = LineSize * e
    BY <1>3 DEF Address
  <2> HIDE DEF l, v
  <2> QED BY <1>1, <2>1, <2>2, LinesOf
<1>5. base[l] \in Nat /\ v \in Nat
  <2>1. v \in Nat
    BY <1>2, <1>4
  <2> QED BY <1>4, <2>1 DEF TypeInv
<1>6. line \in Nat
  <2>1. base[l] + v \in Nat
    BY <1>5
  <2> QED BY <1>2, <2>1, DivMod
<1>7. /\ LineOf(trace[i]) = [var |-> l, line |-> line]
      /\ SetOf(caches[1], LineOf(trace[i])) = line % M
  BY DEF LineOf, SetOf
<1> HIDE DEF line
<1>8. [var |-> l, line |-> line] \in LineT /\ line % M \in 0..(M - 1)
  BY <1>2, <1>4, <1>6, DivMod DEF LineT
<1>9. v \div LineSize = e
  <2>1. 0 \in 0..(LineSize - 1)
    BY <1>2
  <2>2. (LineSize * e + 0) \div LineSize = e
    BY <1>2, <1>4, <2>1, DivOf
  <2> QED BY <1>2, <1>4, <2>2
<1>10. ASSUME l = 1
       PROVE  line = e /\ e \in ToSet(sets[1]) /\ (Direct => line % M = e)
  <2>1. base[1] = 0
    <3>1. 1 \notin DOMAIN moves
      BY MovingIs DEF Checked
    <3> QED BY <1>2, <3>1 DEF RunInv
  <2>2. base[l] + v = v
    BY <1>5, <1>10, <2>1
  <2>3. line = e
    BY <1>9, <2>2 DEF line
  <2>4. e \in ToSet(sets[1])
    <3>1. sets[1] \in Seq(Nat)
      BY <1>1, <1>2, LinesOf
    <3>2. n \in DOMAIN sets[1]
      BY <1>10, <3>1
    <3> QED BY <1>10, <3>2 DEF ToSet
  <2>5. Direct => e % M = e
    <3>1. Direct => M = N
      BY <1>2 DEF Direct
    <3>2. e < N
      BY <1>2, <1>4, <1>10
    <3> HIDE DEF e, M, N
    <3> QED BY <1>2, <1>4, <3>1, <3>2, ModOf
  <2> QED BY <2>3, <2>4, <2>5
<1>11. ASSUME l # 1, Direct
       PROVE  line % M \notin ToSet(sets[1])
  <2>1. M = N
    BY <1>2, <1>11 DEF Direct
  <2>2. e % N \notin ToSet(sets[1])
    <3>1. 1 < l
      BY <1>1, <1>4, <1>11, PlanTypes
    <3> QED BY <1>2, <1>4, <3>1
  \* The base is a number of whole first levels.
  <2>3. \E k \in Nat : base[l] = LineSize * (N * k)
    <3>1. CASE base[l] = 0
      <4>1. LineSize * (N * 0) = 0
        BY <1>2
      <4> QED BY <3>1, <4>1
    <3>2. CASE base[l] # 0
      <4> DEFINE A == caches[Ant(l)].lines
                 b == Bytes(caches[Ant(l)])
                 q == base[l] \div b
                 r == A \div N
      <4>1. Len(caches) = 2 \/ Whole(l)
        <5>1. l \in DOMAIN moves
          BY <1>4, <3>2, MovedBase
        <5>2. Checked(l)
          BY <5>1, MovingIs
        <5> QED BY <1>4, <1>11, <5>2 DEF Direct, AllWhole
      <4>2. Ant(l) \in Levels /\ base[l] % b = 0
        BY <1>4, <3>2, <4>1, BaseKeepsClass
      <4>3. A \in Nat \ {0} /\ b = A * LineSize /\ b \in Nat \ {0}
        BY <1>1, <1>2, <4>2, PlanTypes, BytesOf DEF Bytes
      <4>4. A % N = 0
        <5>1. CASE Ant(l) = 1
          <6>1. N * 1 + 0 = N /\ 0 \in 0..(N - 1)
            BY <1>2
          <6>2. (N * 1 + 0) % N = 0
            BY <1>2, <6>1, DivOf
          <6> QED BY <5>1, <6>1, <6>2
        <5>2. CASE Ant(l) # 1
          <6>1. 1 < Ant(l)
            BY <1>1, <4>2, <5>2, PlanTypes
          <6> QED BY <1>1, <1>2, <4>2, <6>1, NearerDivides
        <5> QED BY <5>1, <5>2
      <4> HIDE DEF A, b, N
      <4>5. q \in Nat /\ base[l] = b * q
        BY <1>5, <4>2, <4>3, Divides
      <4>6. r \in Nat /\ A = N * r
        BY <1>2, <4>3, <4>4, Divides
      <4> HIDE DEF q, r
      <4>7. r * q \in Nat
        BY <4>5, <4>6
      <4>8. base[l] = LineSize * (N * (r * q))
        BY <1>2, <4>3, <4>5, <4>6
      <4> QED BY <4>7, <4>8
    <3> QED BY <3>1, <3>2
  <2>4. PICK k \in Nat : base[l] = LineSize * (N * k)
    BY <2>3
  <2> HIDE DEF N, e
  <2>5. /\ base[l] + v = LineSize * (N * k + e) + 0 /\ N * k \in Nat
        /\ N * k + e \in Nat /\ 0 \in 0..(LineSize - 1)
    <3>1. N * k \in Nat
      BY <1>2
    <3>2. LineSize * (N * k + e) = LineSize * (N * k) + LineSize * e
      BY <1>2, <1>4, <3>1
    <3>3. LineSize * (N * k) \in Nat /\ LineSize * e \in Nat
      BY <1>2, <1>4, <3>1
    <3> QED BY <1>2, <1>4, <2>4, <3>1, <3>2, <3>3
  <2>6. line = N * k + e
    BY <1>2, <2>5, DivOf DEF line
  <2>7. (N * k) % N = 0
    BY <1>2, Multiple
  <2>8. line % N = e % N
    BY <1>2, <1>4, <2>5, <2>6, <2>7, ModKeeps
  <2> QED BY <2>1, <2>2, <2>8
<1> HIDE DEF l, v, e, M, N
<1> QED BY <1>7, <1>8, <1>9, <1>10, <1>11 DEF l, v, M

\* The first level is always asked, and answers if it has the line.
LEMMA ServingIs ==
  ASSUME PlanOk, NEW x
  PROVE  /\ ~(1 > Serving(x))
         /\ Contains(content[1][SetOf(caches[1], x)], x) => Serving(x) = 1
<1> DEFINE has == {l \in Levels : Contains(content[l][SetOf(caches[l], x)], x)}
<1>1. 1 \in Levels /\ Levels \subseteq Nat \ {0} /\ Len(caches) \in Nat
  BY SomeLevel, PlanTypes
<1>2. CASE has = {}
  BY <1>1, <1>2 DEF Serving
<1>3. CASE has # {}
  <2> DEFINE m == CHOOSE l \in has : \A k \in has : l <= k
  <2>1. Serving(x) = m
    BY <1>3 DEF Serving
  <2>2. has \in SUBSET Nat /\ has \subseteq Levels
    BY <1>1
  <2>3. 1 \in has <=> Contains(content[1][SetOf(caches[1], x)], x)
    BY <1>1
  <2> HIDE DEF has
  <2>4. m \in has /\ \A k \in has : m <= k
    BY <1>3, <2>2, LeastOf
  <2>5. m \in Nat \ {0}
    BY <1>1, <2>2, <2>4
  <2> HIDE DEF m
  <2>6. 1 \in has => m = 1
    BY <2>4, <2>5
  <2> QED BY <2>1, <2>3, <2>5, <2>6
<1> QED BY <1>2, <1>3

\* No access disturbs a line planned for a direct-mapped first level.
LEMMA ContentStep ==
  ASSUME TypeInv, TraceInv, RunInv, ContentInv, [Next]_vars
  PROVE  ContentInv'
<1> DEFINE S == 0..(NumSets(caches[1]) - 1)
           Line(i) == trace[i].value \div LineSize
           Kept(i) == content[1][Line(i)] = <<[var |-> 1, line |-> Line(i)]>>
           Filled(i) == trace[i].level = 1 /\ (loop > 0 \/ i < next) /\ Direct
           Hits == served.wanted = 1 /\ served.loop > 0 /\ Direct => served.by = 1
<1>0. /\ DOMAIN content = Levels /\ content[1] \in [S -> Seq(LineT)]
      /\ \A i \in 1..Len(trace) : Filled(i) => Kept(i)
      /\ Hits
  BY DEF ContentInv, FirstLevelHits, Direct
<1>a. FirstLevelHits <=> Hits
  BY DEF FirstLevelHits, Direct
<1>b. FirstLevelHits' <=> Hits'
  BY DEF FirstLevelHits, Direct
<1>1. UNCHANGED plan /\ Levels' = Levels /\ S' = S /\ LineT' = LineT
  BY StepFrame, PlanFrame DEF plan, LineT, NumSets
<1>2. CASE Balance \/ BalanceDone \/ (\E l \in Levels : Access(l)) \/ Finalize
  <2>1. phase # "run" /\ UNCHANGED machine
    BY <1>2 DEF Balance, BalanceDone, Access, Finalize
  <2>2. UNCHANGED <<loop, next, content, served>>
    BY <2>1 DEF machine
  <2>3. loop = 0 /\ next = 1 /\ served.loop = 0
    BY <2>1 DEF RunInv
  <2>4. \A i \in 1..Len(trace)' : ~Filled(i)'
    <3> SUFFICES ASSUME NEW i \in 1..Len(trace)' PROVE ~(loop > 0 \/ i < next)'
      OBVIOUS
    <3>1. Len(trace)' \in Nat
      <4>1. TypeInv'
        BY TypeStep
      <4> QED BY <4>1 DEF TypeInv
    <3> QED BY <2>2, <2>3, <3>1
  <2>5. Hits'
    BY <2>2, <2>3
  <2> HIDE DEF S, LineT, Hits, Filled, Kept
  <2>6. DOMAIN content' = Levels' /\ (content[1] \in [S -> Seq(LineT)])'
    BY <1>0, <1>1, <2>2
  <2>7. \A i \in 1..Len(trace)' : Filled(i)' => Kept(i)'
    BY <2>4
  <2> QED BY <1>b, <2>5, <2>6, <2>7 DEF ContentInv, S, Filled, Kept
<1>3. CASE Execute
  <2> DEFINE a == trace[next]
             x == LineOf(a)
             s == SetOf(caches[1], x)
             ways == caches[1].ways
             new == Touched(content[1][s], x, ways)
  <2>1. /\ phase = "run" /\ next \in 1..Len(trace) /\ Len(trace) \in Nat
        /\ served' = [wanted |-> a.level, by |-> Serving(x), loop |-> loop]
        /\ content' = [l \in Levels |->
              IF l > Serving(x) THEN content[l]
              ELSE [content[l] EXCEPT ![SetOf(caches[l], x)] =
                      Touched(@, x, caches[l].ways)]]
        /\ next' = next + 1 /\ UNCHANGED <<trace, count, maxValue, loop>>
        /\ next \in Nat /\ loop \in Nat
    BY <1>3 DEF Execute, model, TypeInv
  <2>2. /\ x \in LineT /\ s \in S
        /\ a.level = 1 => /\ x = [var |-> 1, line |-> Line(next)]
                          /\ Line(next) \in ToSet(sets[1]) /\ (Direct => s = Line(next))
        /\ a.level # 1 /\ Direct => s \notin ToSet(sets[1])
    BY <2>1, PlacedLine
  <2>3. 1 \in Levels /\ ways \in Nat \ {0} /\ PlanOk
    BY FirstCache DEF TypeInv
  <2>4. ~(1 > Serving(x)) /\ (Contains(content[1][s], x) => Serving(x) = 1)
    BY <2>3, ServingIs
  <2>5. DOMAIN content' = Levels /\ content'[1] = [content[1] EXCEPT ![s] = new]
    BY <2>1, <2>3, <2>4
  <2>6. content[1][s] \in Seq(LineT)
    <3> HIDE DEF S, LineT, s
    <3> QED BY <1>0, <2>2
  <2>7. new \in Seq(LineT) /\ (ways = 1 => new = <<x>>)
    BY <2>2, <2>3, <2>6, TouchedIs
  <2>8. Direct' = Direct
    BY <1>1, <2>1, ModelFrame
  <2>9. Hits'
    <3> SUFFICES ASSUME a.level = 1, loop > 0, Direct PROVE Serving(x) = 1
      BY <2>1, <2>8
    <3>1. Kept(next)
      BY <1>0, <2>1
    <3>2. content[1][s] = <<x>>
      BY <2>2, <3>1
    <3>3. Contains(content[1][s], x)
      BY <3>2 DEF Contains
    <3> QED BY <2>4, <3>3
  <2>10. ASSUME NEW i \in 1..Len(trace), Filled(i)' PROVE Kept(i)'
    <3>1. /\ trace' = trace /\ trace[i].level = 1 /\ (loop > 0 \/ i < next + 1) /\ Direct
      BY <2>1, <2>8, <2>10
    <3>2. ways = 1
      BY <3>1 DEF Direct
    <3>3. Line(i) \in ToSet(sets[1]) /\ Line(i) \in S
      <4>1. /\ Line(i) \in ToSet(sets[1])
            /\ SetOf(caches[1], LineOf(trace[i])) = Line(i)
            /\ SetOf(caches[1], LineOf(trace[i])) \in S
        BY <3>1, PlacedLine
      <4> QED BY <4>1
    <3> DEFINE e == Line(i)
    <3>4. CASE a.level = 1 /\ Line(next) = e
      <4>1. s = e /\ x = [var |-> 1, line |-> e]
        BY <2>2, <3>1, <3>4
      <4>2. content'[1][e] = <<[var |-> 1, line |-> e]>>
        <5> HIDE DEF S, LineT, s, x, new, e
        <5> QED BY <1>0, <2>2, <2>5, <2>7, <3>2, <4>1
      <4> QED BY <3>1, <4>2
    <3>5. CASE ~(a.level = 1 /\ Line(next) = e)
      <4>1. s # e
        BY <2>2, <3>1, <3>3, <3>5
      <4>2. i # next
        BY <3>1, <3>5
      <4>3. loop > 0 \/ i < next
        BY <2>1, <3>1, <4>2
      <4>4. Kept(i)
        BY <1>0, <3>1, <4>3
      <4>5. content'[1][e] = content[1][e]
        <5> HIDE DEF S, LineT, s, x, new, e
        <5> QED BY <1>0, <2>5, <3>3, <4>1 DEF e
      <4> QED BY <3>1, <4>4, <4>5
    <3> QED BY <3>4, <3>5
  <2> HIDE DEF s, x, new
  <2>11. (content[1] \in [S -> Seq(LineT)])'
    <3> HIDE DEF S, LineT
    <3>1. content'[1] \in [S -> Seq(LineT)]
      BY <1>0, <2>2, <2>5, <2>7
    <3> QED BY <1>1, <3>1
  <2> HIDE DEF Hits, Filled, Kept, S
  <2>12. \A i \in 1..Len(trace)' : Filled(i)' => Kept(i)'
    BY <2>1, <2>10
  <2> QED BY <1>1, <1>b, <2>5, <2>9, <2>11, <2>12 DEF ContentInv, S, Filled, Kept
<1>4. CASE EndOfLoop \/ UNCHANGED vars
  <2>1. UNCHANGED <<trace, count, maxValue, content, served>>
    BY <1>4 DEF EndOfLoop, vars, model, machine
  <2>2. Direct' = Direct
    BY <1>1, <2>1, ModelFrame
  <2>3. ASSUME NEW i \in 1..Len(trace), Filled(i)' PROVE Filled(i)
    <3>1. CASE UNCHANGED vars
      BY <2>1, <2>2, <2>3, <3>1 DEF vars, machine
    <3>2. CASE EndOfLoop
      <4>1. next > Len(trace) /\ Len(trace) \in Nat /\ next \in Nat
        BY <3>2 DEF EndOfLoop, TypeInv
      <4>2. i < next
        BY <4>1
      <4> QED BY <2>1, <2>2, <2>3, <4>2
    <3> QED BY <1>4, <3>1, <3>2
  <2>4. Hits'
    BY <1>0, <2>1, <2>2
  <2>5. \A i \in 1..Len(trace)' : Filled(i)' => Kept(i)'
    <3>1. \A i \in 1..Len(trace) : Kept(i) => Kept(i)'
      BY <2>1
    <3> HIDE DEF Filled, Kept
    <3> QED BY <1>0, <2>1, <2>3, <3>1
  <2> HIDE DEF S, LineT, Hits, Filled, Kept
  <2>6. DOMAIN content' = Levels' /\ (content[1] \in [S -> Seq(LineT)])'
    BY <1>0, <1>1, <2>1
  <2> QED BY <1>b, <2>4, <2>5, <2>6 DEF ContentInv, S, Filled, Kept
<1> QED BY <1>2, <1>3, <1>4 DEF Next

\* Nothing was handed out or executed at first.
LEMMA MemoryInit == Init => MemoryInv
<1> SUFFICES ASSUME Init PROVE MemoryInv
  OBVIOUS
<1>1. /\ PlanOk /\ sets = ChosenLines
      /\ phase \in {"balance", "access"} /\ trace = <<>> /\ moves = [l \in {} |-> {}]
      /\ count = [l \in Levels |-> 0] /\ maxValue = [l \in Levels |-> 0]
      /\ loop = 0 /\ next = 1
      /\ turn = [l \in Levels |-> 0] /\ base = [l \in Levels |-> 0]
      /\ content = [l \in Levels |-> [s \in 0..(NumSets(caches[l]) - 1) |-> <<>>]]
      /\ served = [wanted |-> 0, by |-> 0, loop |-> 0]
  BY DEF Init, PlanOk
<1>2. SetsOk
  BY <1>1, ChosenAre
<1>3. 1 \in Levels
  BY <1>1, SomeLevel
<1>4. TypeInv
  BY <1>1, <1>2 DEF TypeInv
<1>5. TraceInv
  <2>1. Len(trace) = 0 /\ 1..0 = {}
    BY <1>1
  <2>2. ASSUME NEW l \in Levels, NEW n \in 1..Module(l), n <= count[l] PROVE FALSE
    <3>1. Module(l) \in Nat /\ count[l] = 0
      BY <1>1, <1>2, ModuleIs, LinesOf
    <3> QED BY <2>2, <3>1
  <2>3. \A l \in Levels : maxValue[l] = 0
    BY <1>1
  <2> QED BY <2>1, <2>2, <2>3 DEF TraceInv
<1>6. RunInv
  BY <1>1 DEF RunInv
<1>7. ContentInv
  <2>1. Len(trace) = 0 /\ 1..0 = {}
    BY <1>1
  <2>2. content[1] \in [0..(NumSets(caches[1]) - 1) -> Seq(LineT)]
    BY <1>1, <1>3
  <2>3. FirstLevelHits
    BY <1>1 DEF FirstLevelHits
  <2> QED BY <1>1, <2>1, <2>2, <2>3 DEF ContentInv
<1> QED BY <1>4, <1>5, <1>6, <1>7 DEF MemoryInv

\* The invariant.
LEMMA MemoryAlways == Spec => []MemoryInv
<1>1. MemoryInv /\ [Next]_vars => MemoryInv'
  BY TypeStep, TraceStep, RunStep, ContentStep DEF MemoryInv
<1> QED BY <1>1, MemoryInit, PTL DEF Spec

\* No access leaves the variable of its level, unless its largest displacement is
\* on the edge of a step (finalize_model, GenericMemoryModelPass).
THEOREM AccessesInBounds == Spec => []InBounds
<1>1. MemoryInv => InBounds
  BY InBoundsHolds DEF MemoryInv
<1> QED BY <1>1, MemoryAlways, PTL

\* A base that moves on keeps every access of its level in its congruence class,
\* with two levels, or where the step divides the size (finalize_model).
THEOREM ClassesKept == Spec => []MovesKeepClasses
<1>1. MemoryInv => MovesKeepClasses
  BY MovesKeepClassesHolds DEF MemoryInv
<1> QED BY <1>1, MemoryAlways, PTL

\* With two levels, the accesses finalize_model accepts for the outer, larger one
\* go through more lines than the inner one has room for.
THEOREM InnerFlushed == Spec => []OuterOverflows
<1>1. MemoryInv => OuterOverflows
  BY OuterOverflowsHolds DEF MemoryInv
<1> QED BY <1>1, MemoryAlways, PTL

\* Once the first iterations have filled a direct-mapped first level, it serves
\* the accesses planned for it, whatever the accesses of other levels do.
THEOREM FirstLevelServes == Spec => []FirstLevelHits
<1>1. MemoryInv => FirstLevelHits
  BY DEF MemoryInv, ContentInv
<1> QED BY <1>1, MemoryAlways, PTL
=============================================================================
