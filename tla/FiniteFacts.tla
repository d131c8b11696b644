---------------------------- MODULE FiniteFacts ----------------------------
(***************************************************************************)
(* What the proofs about several components need of numbers, finite sets   *)
(* of numbers and functions defined by recursion.                          *)
(*                                                                         *)
(* Induction is stated over sets: to show P(n) for every n, cite           *)
(* SetInduction for the set of the n with P(n).  A function defined by     *)
(* recursion is a CHOOSE in the logic; RecursiveFunction shows that there  *)
(* is something to choose, so that the equation of the definition holds.   *)
(***************************************************************************)
EXTENDS Integers, Sequences, FiniteSets, FiniteSetTheorems,
        WellFoundedInduction, TLAPS

\* A set that has 0 and with each number the next one has them all.
LEMMA SetInduction ==
  ASSUME NEW S, 0 \in S, \A n \in Nat : n \in S => n + 1 \in S
  PROVE  Nat \subseteq S
<1> DEFINE R == OpToRel(<, Nat)
           T == Nat \ S
<1> SUFFICES ASSUME T # {} PROVE FALSE
  OBVIOUS
<1>1. IsWellFoundedOn(R, Nat)
  BY NatLessThanWellFounded
<1>2. PICK x \in T : \A y \in T : ~(<<y, x>> \in R)
  <2> HIDE DEF R
  <2> QED BY <1>1, WFMin
<1>3. x # 0 /\ x - 1 \in Nat /\ x - 1 \notin S
  OBVIOUS
<1>4. <<x - 1, x>> \in R
  BY <1>3 DEF OpToRel
<1> QED BY <1>2, <1>3, <1>4

\* A set of numbers has a least one.
LEMMA LeastOf ==
  ASSUME NEW S \in SUBSET Nat, S # {}
  PROVE  \E m \in S : \A k \in S : m <= k
<1> DEFINE R == OpToRel(<, Nat)
<1>1. IsWellFoundedOn(R, Nat)
  BY NatLessThanWellFounded
<1>2. PICK m \in S : \A k \in S : ~(<<k, m>> \in R)
  <2> HIDE DEF R
  <2> QED BY <1>1, WFMin
<1>3. ASSUME NEW k \in S PROVE m <= k
  <2>1. k \in Nat /\ m \in Nat /\ ~(k < m)
    BY <1>2 DEF OpToRel
  <2> QED BY <2>1
<1> QED BY <1>3

\* The same for the numbers up to N.
LEMMA SetInductionUpTo ==
  ASSUME NEW N \in Nat, NEW S, 0 \in S,
         \A n \in 1..N : n - 1 \in S => n \in S
  PROVE  0..N \subseteq S
<1> DEFINE T == S \cup {n \in Nat : n > N}
<1>1. \A n \in Nat : n \in T => n + 1 \in T
  <2> SUFFICES ASSUME NEW n \in Nat, n \in T, n + 1 <= N PROVE n + 1 \in S
    OBVIOUS
  <2>1. n \in S /\ n + 1 \in 1..N /\ (n + 1) - 1 = n
    OBVIOUS
  <2> QED BY <2>1
<1>2. 0 \in T
  OBVIOUS
<1> HIDE DEF T
<1>3. Nat \subseteq T
  BY <1>1, <1>2, SetInduction
<1> QED BY <1>3 DEF T

\* f is base at 0 and is computed up to N by the functions step[1], step[2]...
StepsInto(step, N, S) == \A n \in 1..N, r \in S : step[n][r] \in S
Unrolls(f, N, base, step) ==
    f[0] = base /\ \A n \in 1..N : f[n] = step[n][f[n - 1]]

\* There is a function whose value at 0 is base and whose value at n is made
\* of the value at n - 1.
LEMMA RecursiveFunction ==
  ASSUME NEW N \in Nat, NEW S, NEW base \in S, NEW step,
         StepsInto(step, N, S)
  PROVE  \E f \in [0..N -> S] : Unrolls(f, N, base, step)
<1> USE DEF StepsInto, Unrolls
<1> DEFINE Ok(m, f) == f[0] = base /\ \A n \in 1..m : f[n] = step[n][f[n - 1]]
           G == {m \in 0..N : \E f \in [0..m -> S] : Ok(m, f)}
<1>1. 0 \in G
  <2> DEFINE f == [n \in 0..0 |-> base]
  <2>1. f \in [0..0 -> S] /\ Ok(0, f)
    OBVIOUS
  <2>2. 0 \in 0..N
    OBVIOUS
  <2> HIDE DEF f, Ok
  <2> QED BY <2>1, <2>2
<1>2. ASSUME NEW m \in 1..N, m - 1 \in G
      PROVE  m \in G
  <2>1. PICK f \in [0..(m - 1) -> S] : Ok(m - 1, f)
    BY <1>2
  <2> DEFINE g == [n \in 0..m |-> IF n = m THEN step[m][f[m - 1]] ELSE f[n]]
  <2>2. m - 1 \in 0..(m - 1) /\ f[m - 1] \in S /\ step[m][f[m - 1]] \in S
    OBVIOUS
  <2>3. g \in [0..m -> S]
    <3> SUFFICES ASSUME NEW n \in 0..m, n # m PROVE f[n] \in S
      BY <2>2
    <3>1. n \in 0..(m - 1)
      OBVIOUS
    <3> QED BY <3>1
  <2>4. ASSUME NEW n \in 1..m PROVE g[n] = step[n][g[n - 1]]
    <3>1. n \in 0..m /\ n - 1 \in 0..m /\ n - 1 # m
      OBVIOUS
    <3>2. CASE n = m
      BY <3>1, <3>2
    <3>3. CASE n # m
      <4>1. n \in 1..(m - 1)
        BY <3>3
      <4> QED BY <2>1, <3>1, <3>3, <4>1
    <3> QED BY <3>2, <3>3
  <2>5. g[0] = base
    BY <2>1
  <2> HIDE DEF g
  <2>6. m \in 0..N
    OBVIOUS
  <2> QED BY <2>3, <2>4, <2>5, <2>6
<1>3. 0..N \subseteq G
  <2> HIDE DEF G
  <2> QED BY <1>1, <1>2, SetInductionUpTo
<1> QED BY <1>3

-----------------------------------------------------------------------------
Below(S, p) == {q \in S : q < p}
At(S, n) == CHOOSE p \in S : Cardinality(Below(S, p)) = n - 1

\* f enumerates S in ascending order.
Ascends(f, n, S) ==
    /\ f \in [1..n -> S]
    /\ \A i, j \in 1..n : i < j => f[i] < f[j]
    /\ \A p \in S : \E i \in 1..n : f[i] = p

\* The elements of a finite set of numbers have the ranks 0, 1, ...
LEMMA RanksCount ==
  ASSUME NEW S \in SUBSET Nat, IsFiniteSet(S)
  PROVE  /\ Cardinality(S) \in Nat
         /\ \A p \in S : Cardinality(Below(S, p)) \in 0..(Cardinality(S) - 1)
         /\ \A p, q \in S : p < q =>
              Cardinality(Below(S, p)) < Cardinality(Below(S, q))
         /\ \A n \in 1..Cardinality(S) : \E p \in S :
              Cardinality(Below(S, p)) = n - 1
<1> DEFINE N == Cardinality(S)
           R(p) == Cardinality(Below(S, p))
<1>1. N \in Nat
  BY FS_CardinalityType
<1>2. ASSUME NEW p \in S
      PROVE  /\ IsFiniteSet(Below(S, p)) /\ R(p) \in Nat /\ R(p) < N
  <2>1. Below(S, p) \in SUBSET S /\ p \notin Below(S, p)
    BY DEF Below
  <2>2. IsFiniteSet(Below(S, p)) /\ R(p) <= N /\ (N = R(p) => S = Below(S, p))
    BY <2>1, FS_Subset
  <2>3. R(p) \in Nat
    BY <2>2, FS_CardinalityType
  <2> QED BY <1>1, <2>1, <2>2, <2>3
<1>3. ASSUME NEW p \in S, NEW q \in S, p < q
      PROVE  R(p) < R(q)
  <2>1. Below(S, p) \in SUBSET Below(S, q)
    <3> SUFFICES ASSUME NEW x \in S, x < p PROVE x < q
      BY DEF Below
    <3>1. x \in Nat /\ p \in Nat /\ q \in Nat
      OBVIOUS
    <3> QED BY <1>3, <3>1
  <2>2. p \in Below(S, q) /\ p \notin Below(S, p)
    BY <1>3 DEF Below
  <2>3. R(p) <= R(q) /\ (R(q) = R(p) => Below(S, q) = Below(S, p))
    BY <1>2, <2>1, FS_Subset
  <2> QED BY <1>2, <2>2, <2>3
<1>4. \A n \in 1..N : \E p \in S : R(p) = n - 1
  <2> DEFINE T == 0..(N - 1)
             f == [p \in S |-> R(p)]
  <2>1. IsFiniteSet(T) /\ Cardinality(T) = N
    <3>1. 0 \in Int /\ N - 1 \in Int
      BY <1>1
    <3>2. IsFiniteSet(T) /\ Cardinality(T) = IF 0 > N - 1 THEN 0
                                            ELSE N - 1 - 0 + 1
      BY <3>1, FS_Interval
    <3> HIDE DEF N, T
    <3> QED BY <1>1, <3>2
  <2>2. f \in [S -> T]
    BY <1>1, <1>2
  <2>3. \A p, q \in S : f[p] = f[q] => p = q
    <3> SUFFICES ASSUME NEW p \in S, NEW q \in S, R(p) = R(q) PROVE p = q
      OBVIOUS
    <3>1. p \in Nat /\ q \in Nat /\ R(p) \in Nat
      BY <1>2
    <3>2. ~(p < q) /\ ~(q < p)
      BY <1>3, <3>1
    <3> QED BY <3>1, <3>2
  <2> HIDE DEF f, T
  <2>4. f \in Injection(S, T)
    BY <2>2, <2>3 DEF Injection, IsInjective
  <2>5. f \in Surjection(S, T)
    BY <2>1, <2>4, FS_Injection
  <2>6. \A t \in T : \E p \in S : f[p] = t
    BY <2>5 DEF Surjection
  <2> QED BY <1>1, <2>6 DEF f, T
<1> QED BY <1>1, <1>2, <1>3, <1>4

\* At enumerates a finite set of numbers in ascending order.
LEMMA AtAscends ==
  ASSUME NEW S \in SUBSET Nat, IsFiniteSet(S)
  PROVE  /\ Cardinality(S) \in Nat
         /\ Ascends([n \in 1..Cardinality(S) |-> At(S, n)], Cardinality(S), S)
<1> DEFINE N == Cardinality(S)
           R(p) == Cardinality(Below(S, p))
           f == [n \in 1..N |-> At(S, n)]
<1>1. /\ N \in Nat /\ \A p \in S : R(p) \in 0..(N - 1)
      /\ \A p, q \in S : p < q => R(p) < R(q)
      /\ \A n \in 1..N : \E p \in S : R(p) = n - 1
  BY RanksCount
<1>2. \A n \in 1..N : At(S, n) \in S /\ R(At(S, n)) = n - 1
  BY <1>1 DEF At
<1>3. ASSUME NEW i \in 1..N, NEW j \in 1..N, i < j
      PROVE  At(S, i) < At(S, j)
  <2> DEFINE p == At(S, i)
             q == At(S, j)
  <2>1. p \in S /\ q \in S /\ R(p) < R(q)
    BY <1>1, <1>2, <1>3
  <2> HIDE DEF p, q
  <2>2. p # q /\ ~(q < p) /\ p \in Nat /\ q \in Nat /\ R(p) \in Int /\ R(q) \in Int
    BY <1>1, <2>1
  <2>3. p < q
    BY <2>2
  <2> QED BY <2>3 DEF p, q
<1>4. ASSUME NEW p \in S
      PROVE  \E i \in 1..N : At(S, i) = p
  <2> DEFINE i == R(p) + 1
             q == At(S, i)
  <2>1. i \in 1..N
    BY <1>1
  <2>2. q \in S /\ R(q) = R(p)
    BY <1>1, <1>2, <2>1
  <2> HIDE DEF q
  <2>3. ~(p < q) /\ ~(q < p) /\ p \in Nat /\ q \in Nat
    BY <1>1, <2>2
  <2>4. q = p
    BY <2>3
  <2> QED BY <2>1, <2>4 DEF q
<1>5. f \in [1..N -> S]
  BY <1>2
<1> QED BY <1>1, <1>3, <1>4, <1>5 DEF Ascends

\* A set of numbers has one ascending enumeration.
LEMMA OneEnumeration ==
  ASSUME NEW S \in SUBSET Nat, NEW M \in Nat, NEW f, Ascends(f, M, S)
  PROVE  /\ IsFiniteSet(S) /\ Cardinality(S) = M
         /\ \A n \in 1..M : f[n] = At(S, n)
<1>1. /\ f \in [1..M -> S] /\ \A i, j \in 1..M : i < j => f[i] < f[j]
      /\ \A p \in S : \E i \in 1..M : f[i] = p
  BY DEF Ascends
<1>a. \A i \in 1..M : f[i] \in Nat
  <2>1. \A i \in 1..M : f[i] \in S
    BY <1>1
  <2> QED BY <2>1
<1>2. \A i, j \in 1..M : f[i] < f[j] => i < j
  <2> SUFFICES ASSUME NEW i \in 1..M, NEW j \in 1..M, f[i] < f[j] PROVE i < j
    OBVIOUS
  <2>1. f[i] \in Nat /\ f[j] \in Nat /\ i # j /\ ~(f[j] < f[i])
    BY <1>a
  <2>2. ~(j < i)
    BY <1>1, <2>1
  <2> QED BY <2>1, <2>2
<1>3. f \in Bijection(1..M, S)
  <2>1. \A i, j \in 1..M : f[i] = f[j] => i = j
    <3> SUFFICES ASSUME NEW i \in 1..M, NEW j \in 1..M, f[i] = f[j] PROVE i = j
      OBVIOUS
    <3>1. f[i] \in Nat /\ f[j] \in Nat /\ ~(f[i] < f[j]) /\ ~(f[j] < f[i])
      BY <1>a
    <3>2. ~(i < j) /\ ~(j < i)
      BY <1>1, <3>1
    <3> QED BY <3>2
  <2> QED BY <1>1, <2>1 DEF Bijection, Injection, IsInjective, Surjection
<1>4. IsFiniteSet(S) /\ Cardinality(S) = M
  <2>1. IsFiniteSet(1..M) /\ Cardinality(1..M) = M
    BY FS_Interval
  <2>2. ExistsBijection(1..M, S)
    BY <1>3 DEF ExistsBijection
  <2> QED BY <2>1, <2>2, FS_Bijection
<1>5. ASSUME NEW n \in 1..M
      PROVE  Cardinality(Below(S, f[n])) = n - 1
  <2> DEFINE g == [m \in 1..(n - 1) |-> f[m]]
             T == Below(S, f[n])
  <2>1. \A m \in 1..(n - 1) : m \in 1..M /\ f[m] \in T
    BY <1>1 DEF Below
  <2>2. \A p \in T : \E m \in 1..(n - 1) : f[m] = p
    <3> SUFFICES ASSUME NEW p \in T PROVE \E m \in 1..(n - 1) : f[m] = p
      OBVIOUS
    <3>1. p \in S /\ p < f[n]
      BY DEF Below
    <3>2. PICK m \in 1..M : f[m] = p
      BY <1>1, <3>1
    <3>3. m < n
      BY <1>2, <3>1, <3>2
    <3> QED BY <3>2, <3>3
  <2>3. g \in [1..(n - 1) -> T] /\ \A m \in 1..(n - 1) : g[m] = f[m]
    BY <2>1
  <2> HIDE DEF g, T
  <2>4. \A i, j \in 1..(n - 1) : g[i] = g[j] => i = j
    BY <1>3, <2>1, <2>3 DEF Bijection, Injection, IsInjective
  <2>5. g \in Bijection(1..(n - 1), T)
    BY <2>2, <2>3, <2>4 DEF Bijection, Injection, IsInjective, Surjection
  <2>6. IsFiniteSet(1..(n - 1)) /\ Cardinality(1..(n - 1)) = n - 1
    BY FS_Interval
  <2>7. ExistsBijection(1..(n - 1), T)
    BY <2>5 DEF ExistsBijection
  <2> QED BY <2>6, <2>7, FS_Bijection DEF T
<1>6. ASSUME NEW n \in 1..M
      PROVE  f[n] = At(S, n)
  <2> DEFINE q == At(S, n)
  <2>1. q \in S /\ Cardinality(Below(S, q)) = n - 1
    BY <1>1, <1>5 DEF At
  <2> HIDE DEF q
  <2>2. PICK m \in 1..M : f[m] = q
    BY <1>1, <2>1
  <2>3. Cardinality(Below(S, q)) = m - 1
    BY <1>5, <2>2
  <2>4. m = n
    BY <2>1, <2>3
  <2> QED BY <2>2, <2>4 DEF q
<1> QED BY <1>4, <1>6

-----------------------------------------------------------------------------
\* A product grows with its factor.
LEMMA TimesMonotone ==
    ASSUME NEW q \in Nat, NEW r \in Nat, NEW s \in Nat, q <= r
    PROVE  q * s <= r * s
PROOF
<1>1. PICK d \in Nat : r = q + d
  OBVIOUS
<1>2. r * s = q * s + d * s
  BY <1>1
<1>3. d * s \in Nat /\ q * s \in Nat
  OBVIOUS
<1> QED
  BY <1>2, <1>3

\* As many steps as a size was divided in fit in it.
LEMMA StepsFit ==
    ASSUME NEW size \in Nat, NEW s \in Nat \ {0}
    PROVE  /\ size \div s \in Nat
           /\ (size \div s) * s <= size
OBVIOUS

\* Quotient and remainder of any number by a positive one
LEMMA Division ==
  ASSUME NEW a \in Int, NEW b \in Nat \ {0}
  PROVE  /\ a \div b \in Int /\ a % b \in 0..(b - 1)
         /\ a = b * (a \div b) + (a % b)
OBVIOUS

\* They are the only ones.
LEMMA DivisionOf ==
  ASSUME NEW b \in Nat \ {0}, NEW q \in Int, NEW r \in 0..(b - 1)
  PROVE  /\ (b * q + r) \div b = q /\ (b * q + r) % b = r
<1> DEFINE a == b * q + r
           p == a \div b
           s == a % b
<1>1. a \in Int /\ b * q \in Int
  OBVIOUS
<1>2. p \in Int /\ s \in 0..(b - 1) /\ a = b * p + s
  BY <1>1, Division
<1>3. a = b * q + r
  OBVIOUS
<1> HIDE DEF a, p, s
<1>4. b * (p - q) = r - s
  BY <1>1, <1>2, <1>3
<1>5. p = q
  <2>1. CASE p - q >= 1
    <3>1. b * (p - q) >= b
      BY <1>2, <2>1
    <3> QED BY <1>2, <1>4, <3>1
  <2>2. CASE p - q <= -1
    <3>1. b * (p - q) <= -b
      BY <1>2, <2>2
    <3> QED BY <1>2, <1>4, <3>1
  <2> QED BY <1>2, <2>1, <2>2
<1>6. r = s
  BY <1>2, <1>4, <1>5
<1> QED BY <1>5, <1>6 DEF a, p, s

\* Numbers that differ by a multiple leave the same remainder.
LEMMA SameRemainder ==
  ASSUME NEW b \in Nat \ {0}, NEW n \in Int, NEW k \in Int
  PROVE  (n + b * k) % b = n % b
<1> DEFINE q == n \div b
           r == n % b
<1>1. q \in Int /\ r \in 0..(b - 1) /\ n = b * q + r
  BY Division
<1> HIDE DEF q
<1>2. r = n % b
  OBVIOUS
<1> HIDE DEF r
<1>3. n + b * k = b * (q + k) + r
  BY <1>1
<1>4. q + k \in Int
  BY <1>1
<1>5. (b * (q + k) + r) % b = r
  BY <1>1, <1>4, DivisionOf
<1> QED BY <1>2, <1>3, <1>5

\* Dividing twice is dividing by the product.
LEMMA DivisionTwice ==
  ASSUME NEW n \in Int, NEW a \in Nat \ {0}, NEW b \in Nat \ {0}
  PROVE  n \div (a * b) = (n \div a) \div b
<1> DEFINE q == n \div a
           r == n % a
           p == q \div b
           s == q % b
<1>1. q \in Int /\ r \in 0..(a - 1) /\ n = a * q + r
  BY Division
<1> HIDE DEF q, r
<1>2. p \in Int /\ s \in 0..(b - 1) /\ q = b * p + s
  BY <1>1, Division
<1> HIDE DEF p, s
<1>3. a * s \in Nat /\ a * s <= a * (b - 1)
  BY <1>2
<1>4. a * s + r \in 0..(a * b - 1) /\ a * b \in Nat \ {0}
  <2>1. a * (b - 1) = a * b - a /\ a * b \in Nat
    OBVIOUS
  <2>2. a * s + r <= a * b - 1
    BY <1>1, <1>3, <2>1
  <2>3. a * s + r \in Nat
    BY <1>1, <1>3
  <2>4. a * b > 0
    BY <2>2, <2>3, <2>1
  <2> QED BY <2>1, <2>2, <2>3, <2>4
<1>5. n = (a * b) * p + (a * s + r)
  <2>1. a * (b * p + s) = (a * b) * p + a * s
    BY <1>2
  <2> QED BY <1>1, <1>2, <1>3, <2>1
<1>6. ((a * b) * p + (a * s + r)) \div (a * b) = p
  BY <1>2, <1>4, DivisionOf
<1>7. n \div (a * b) = p
  BY <1>5, <1>6
<1> QED BY <1>7 DEF p, q

\* A multiple of a number, less than it, is none.
LEMMA NoMultiple ==
  ASSUME NEW b \in Nat \ {0}, NEW k \in Int, -b < b * k, b * k < b
  PROVE  k = 0
<1>1. CASE k >= 1
  <2>1. b * k >= b
    BY <1>1
  <2> QED BY <2>1
<1>2. CASE k <= -1
  <2>1. b * k <= -b
    BY <1>2
  <2> QED BY <2>1
<1> QED BY <1>1, <1>2

\* Division leaves a remainder below the divisor.
LEMMA DivMod ==
  ASSUME NEW a \in Nat, NEW b \in Nat \ {0}
  PROVE  /\ a \div b \in Nat /\ a % b \in 0..(b - 1)
         /\ a = b * (a \div b) + (a % b)
OBVIOUS

\* The only quotient and remainder.
LEMMA DivOf ==
  ASSUME NEW b \in Nat \ {0}, NEW q \in Nat, NEW r \in 0..(b - 1)
  PROVE  /\ (b * q + r) \div b = q /\ (b * q + r) % b = r
BY DivisionOf

\* A number is a multiple of what divides it.
LEMMA Divides ==
  ASSUME NEW a \in Nat, NEW b \in Nat \ {0}, a % b = 0
  PROVE  a \div b \in Nat /\ a = b * (a \div b)
<1> DEFINE q == a \div b
<1>1. q \in Nat /\ a = b * q + (a % b)
  BY DivMod
<1> HIDE DEF q
<1>2. b * q \in Nat
  BY <1>1
<1> QED BY <1>1, <1>2 DEF q

\* The other way round.
LEMMA Multiple ==
  ASSUME NEW b \in Nat \ {0}, NEW q \in Nat
  PROVE  b * q \in Nat /\ (b * q) % b = 0
<1>1. b * q \in Nat /\ 0 \in 0..(b - 1)
  OBVIOUS
<1>2. (b * q + 0) % b = 0
  BY <1>1, DivOf
<1>3. b * q + 0 = b * q
  BY <1>1
<1> QED BY <1>1, <1>2, <1>3

\* A multiple moves a number without changing what is left of it.
LEMMA ModKeeps ==
  ASSUME NEW b \in Nat \ {0}, NEW m \in Nat, NEW e \in Nat, m % b = 0
  PROVE  (m + e) % b = e % b
<1> DEFINE p == m \div b
           q == e \div b
           r == e % b
<1>1. p \in Nat /\ m = b * p + 0 /\ q \in Nat /\ r \in 0..(b - 1) /\ e = b * q + r
  BY DivMod
<1> HIDE DEF p, q, r
<1>2. m + e = b * (p + q) + r
  <2>1. b * (p + q) = b * p + b * q /\ b * p \in Nat /\ b * q \in Nat
    BY <1>1
  <2> QED BY <1>1, <2>1
<1>3. (b * (p + q) + r) % b = r
  <2>1. p + q \in Nat
    BY <1>1
  <2> QED BY <1>1, <2>1, DivOf
<1> QED BY <1>2, <1>3 DEF r

\* A multiple of a multiple is one.
LEMMA MultipleOf ==
  ASSUME NEW b \in Nat \ {0}, NEW m \in Nat, NEW k \in Nat, m % b = 0
  PROVE  (k * m) % b = 0
<1> DEFINE p == m \div b
<1>1. p \in Nat /\ m = b * p
  BY DivMod
<1> HIDE DEF p
<1>2. k * m = b * (k * p) + 0 /\ k * p \in Nat
  <2>1. k * (b * p) = b * (k * p)
    BY <1>1
  <2> QED BY <1>1, <2>1
<1>3. (b * (k * p) + 0) % b = 0
  BY <1>2, DivOf
<1> QED BY <1>2, <1>3

\* Scaling keeps a multiple.
LEMMA Scaled ==
  ASSUME NEW b \in Nat \ {0}, NEW m \in Nat, NEW s \in Nat \ {0}, m % b = 0
  PROVE  s * b \in Nat \ {0} /\ (s * m) % (s * b) = 0
<1> DEFINE p == m \div b
<1>1. p \in Nat /\ m = b * p
  BY DivMod
<1> HIDE DEF p
<1>2. s * b \in Nat \ {0} /\ s * m = (s * b) * p + 0
  <2>1. s * (b * p) = (s * b) * p
    BY <1>1
  <2> QED BY <1>1, <2>1
<1>3. ((s * b) * p + 0) % (s * b) = 0
  BY <1>1, <1>2, DivOf
<1> QED BY <1>2, <1>3

\* A number that divides another one is no larger.
LEMMA DivisorFits ==
  ASSUME NEW d \in Nat \ {0}, NEW m \in Nat \ {0}, m % d = 0
  PROVE  d <= m
<1> DEFINE q == m \div d
<1>1. q \in Nat /\ m = d * q
  BY DivMod
<1> HIDE DEF q
<1>2. q # 0
  BY <1>1
<1>3. 1 * d <= q * d
  BY <1>1, <1>2, TimesMonotone
<1> QED BY <1>1, <1>3

\* A remainder is no larger than the number, and is a smaller number itself.
LEMMA ModOf ==
  ASSUME NEW a \in Nat, NEW b \in Nat \ {0}
  PROVE  /\ a % b \in 0..(b - 1) /\ a % b <= a
         /\ a < b => a % b = a
<1> DEFINE q == a \div b
           r == a % b
<1>1. q \in Nat /\ r \in 0..(b - 1) /\ a = b * q + r
  BY DivMod
<1>2. ASSUME a < b PROVE r = a
  <2>1. b * 0 + a = a /\ a \in 0..(b - 1)
    BY <1>2
  <2> QED BY <2>1, DivOf
<1> HIDE DEF q, r
<1>3. b * q \in Nat
  BY <1>1
<1>4. r <= a
  BY <1>1, <1>3
<1> QED BY <1>1, <1>2, <1>4 DEF r
=============================================================================
