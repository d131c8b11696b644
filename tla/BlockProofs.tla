---------------------------- MODULE BlockProofs ----------------------------
(***************************************************************************)
(* Basic blocks, from the operations of one block up to all the blocks of  *)
(* a benchmark, for any stride and any bounds.                             *)
(*                                                                         *)
(* 1. What the operations of a block preserve, for every block, every      *)
(* anchor and every number of new instructions: no instruction occupies    *)
(* two positions, and the dictionary is right about those that are there.  *)
(*                                                                         *)
(* 2. The blocks of a benchmark, under every call with every anchor: no    *)
(* instruction is in two places, no dictionary points at a wrong one, and  *)
(* no call reorders what a block keeps.                                    *)
(*                                                                         *)
(* 3. A block under disciplined callers is a list: nothing falls behind    *)
(* the pointer, distance() counts the instructions in between, and every   *)
(* call does to the visible instructions what InstructionList says.  The   *)
(* visible instructions are the slots in ascending order, so the proof     *)
(* writes down, for each call, the ascending enumeration of the new        *)
(* positions in terms of the old one.                                      *)
(***************************************************************************)
EXTENDS BlockCalls, CodeLayout, FiniteFacts, FiniteSetTheorems,
        SequenceTheorems, TLAPS

\* The blocks that can be made of the first c instructions.
Block(c) ==
    [slot : UNION {[D -> 1..c] : D \in SUBSET Nat},
     pointer : Nat,
     index : UNION {[D -> Nat] : D \in SUBSET (1..c)}]

Bounded(b) == \E n \in Nat : \A p \in DOMAIN b.slot : p <= n

Injective(b) ==
    \A p, q \in DOMAIN b.slot : b.slot[p] = b.slot[q] => p = q

\* Every entry of the dictionary names an occupied position, and the position
\* of the instruction if the block has it.
IndexSound(b) ==
    \A i \in DOMAIN b.index :
        /\ b.index[i] \in DOMAIN b.slot
        /\ \A p \in DOMAIN b.slot : b.slot[p] = i => b.index[i] = p

Sound(b, c) == b \in Block(c) /\ Bounded(b) /\ Injective(b) /\ IndexSound(b)

\* All the instructions a block has or its dictionary mentions.
Mentioned(b) == {b.slot[p] : p \in DOMAIN b.slot} \cup DOMAIN b.index

----------------------------------------------------------------------------
\* A record of three functions is a block if its parts have the right values.
LEMMA BlockOfParts ==
  ASSUME NEW c \in Nat, NEW slot, NEW pointer \in Nat, NEW index,
         slot = [p \in DOMAIN slot |-> slot[p]],
         \A p \in DOMAIN slot : p \in Nat /\ slot[p] \in 1..c,
         index = [i \in DOMAIN index |-> index[i]],
         \A i \in DOMAIN index : i \in 1..c /\ index[i] \in Nat
  PROVE  [slot |-> slot, pointer |-> pointer, index |-> index] \in Block(c)
<1>1. slot \in [DOMAIN slot -> 1..c] /\ DOMAIN slot \in SUBSET Nat
  OBVIOUS
<1>2. index \in [DOMAIN index -> Nat] /\ DOMAIN index \in SUBSET (1..c)
  OBVIOUS
<1> QED BY <1>1, <1>2 DEF Block

\* The parts of a block.
LEMMA PartsOfBlock ==
  ASSUME NEW c \in Nat, NEW b \in Block(c)
  PROVE  /\ b = [slot |-> b.slot, pointer |-> b.pointer, index |-> b.index]
         /\ b.slot = [p \in DOMAIN b.slot |-> b.slot[p]]
         /\ \A p \in DOMAIN b.slot : p \in Nat /\ b.slot[p] \in 1..c
         /\ b.pointer \in Nat
         /\ b.index = [i \in DOMAIN b.index |-> b.index[i]]
         /\ \A i \in DOMAIN b.index : i \in 1..c /\ b.index[i] \in Nat
<1>1. /\ b.slot \in UNION {[D -> 1..c] : D \in SUBSET Nat}
      /\ b.pointer \in Nat
      /\ b.index \in UNION {[D -> Nat] : D \in SUBSET (1..c)}
      /\ b = [slot |-> b.slot, pointer |-> b.pointer, index |-> b.index]
  BY DEF Block
<1>2. PICK D \in SUBSET Nat : b.slot \in [D -> 1..c]
  BY <1>1
<1>3. PICK E \in SUBSET (1..c) : b.index \in [E -> Nat]
  BY <1>1
<1> QED BY <1>1, <1>2, <1>3

\* The instructions NewInstrs creates.
LEMMA NewInstrsAre ==
  ASSUME NEW n \in Nat, NEW k \in Nat
  PROVE  /\ NewInstrs(n, k) \in Seq(Nat) /\ Len(NewInstrs(n, k)) = k
         /\ \A j \in 1..k : NewInstrs(n, k)[j] = n + j
         /\ Elems(NewInstrs(n, k)) = (n + 1)..(n + k)
<1>1. /\ NewInstrs(n, k) \in Seq(Nat) /\ Len(NewInstrs(n, k)) = k
      /\ \A j \in 1..k : NewInstrs(n, k)[j] = n + j
  BY DEF NewInstrs
<1>2. \A i \in (n + 1)..(n + k) : i - n \in 1..k /\ n + (i - n) = i
  OBVIOUS
<1> HIDE DEF NewInstrs
<1> QED BY <1>1, <1>2 DEF Elems

\* A dictionary rebuilt from slots without duplicates is exact.
LEMMA RebuiltIndex ==
  ASSUME NEW slot,
         \A p, q \in DOMAIN slot : slot[p] = slot[q] => p = q
  PROVE  /\ DOMAIN IndexOfSlots(slot) = {slot[p] : p \in DOMAIN slot}
         /\ \A p \in DOMAIN slot : IndexOfSlots(slot)[slot[p]] = p
         /\ IndexOfSlots(slot) = [i \in DOMAIN IndexOfSlots(slot) |->
                                    IndexOfSlots(slot)[i]]
<1>1. \A p \in DOMAIN slot : (CHOOSE q \in DOMAIN slot : slot[q] = slot[p]) = p
  OBVIOUS
<1> QED BY <1>1 DEF IndexOfSlots

\* An operation that rebuilds the dictionary makes a sound block of any slots
\* without duplicates.
LEMMA RebuiltSound ==
  ASSUME NEW c \in Nat, NEW slot, NEW pointer \in Nat, NEW n \in Nat,
         slot = [p \in DOMAIN slot |-> slot[p]],
         \A p \in DOMAIN slot : p \in Nat /\ p <= n /\ slot[p] \in 1..c,
         \A p, q \in DOMAIN slot : slot[p] = slot[q] => p = q
  PROVE  Sound([slot |-> slot, pointer |-> pointer,
                index |-> IndexOfSlots(slot)], c)
<1> DEFINE index == IndexOfSlots(slot)
           b == [slot |-> slot, pointer |-> pointer, index |-> index]
<1>1. /\ DOMAIN index = {slot[p] : p \in DOMAIN slot}
      /\ \A p \in DOMAIN slot : index[slot[p]] = p
      /\ index = [i \in DOMAIN index |-> index[i]]
  BY RebuiltIndex
<1> HIDE DEF index
<1>2. \A i \in DOMAIN index : i \in 1..c /\ index[i] \in DOMAIN slot
  BY <1>1
<1>3. b \in Block(c)
  BY <1>1, <1>2, BlockOfParts
<1>4. Bounded(b) /\ Injective(b)
  BY DEF Bounded, Injective
<1>5. IndexSound(b)
  BY <1>1, <1>2 DEF IndexSound
<1> QED BY <1>3, <1>4, <1>5 DEF Sound, index

\* The positions of a new block: one for each instruction.
LEMMA NewBlockSlots ==
  ASSUME NEW new, NEW k \in Nat, Len(new) = k
  PROVE  /\ DOMAIN NewBlock(new).slot = {Stride * j : j \in 1..k}
         /\ \A j \in 1..k : NewBlock(new).slot[Stride * j] = new[j]
         /\ NewBlock(new).slot = [p \in DOMAIN NewBlock(new).slot |->
                                    NewBlock(new).slot[p]]
         /\ NewBlock(new).pointer = Stride * (k + 1)
         /\ NewBlock(new).index = IndexOfSlots(NewBlock(new).slot)
         /\ NewBlock(new) = [slot |-> NewBlock(new).slot,
                             pointer |-> NewBlock(new).pointer,
                             index |-> NewBlock(new).index]
<1>1. \A i, j \in 1..k : Stride * i = Stride * j => i = j
  BY StrideAssumption
<1>2. \A j \in 1..k : (CHOOSE i \in 1..k : Stride * j = Stride * i) = j
  BY <1>1
<1> DEFINE slot == [p \in {Stride * j : j \in 1..k} |->
                      new[CHOOSE j \in 1..k : p = Stride * j]]
<1>3. NewBlock(new) = [slot |-> slot, pointer |-> Stride * (k + 1),
                       index |-> IndexOfSlots(slot)]
  BY DEF NewBlock
<1>4. \A j \in 1..k : slot[Stride * j] = new[j]
  BY <1>2
<1>5. DOMAIN slot = {Stride * j : j \in 1..k}
      /\ slot = [p \in DOMAIN slot |-> slot[p]]
  OBVIOUS
<1> HIDE DEF slot
<1> QED BY <1>3, <1>4, <1>5

\* Bbl.__init__ makes a sound block of new instructions.
LEMMA NewBlockSound ==
  ASSUME NEW n \in Nat, NEW k \in Nat
  PROVE  LET b == NewBlock(NewInstrs(n, k))
         IN  Sound(b, n + k) /\ Mentioned(b) \subseteq (n + 1)..(n + k)
<1> DEFINE new == NewInstrs(n, k)
           b == NewBlock(new)
           slot == b.slot
<1>1. Len(new) = k /\ \A j \in 1..k : new[j] = n + j
  BY NewInstrsAre
<1> HIDE DEF new
<1>2. /\ DOMAIN slot = {Stride * j : j \in 1..k}
      /\ \A j \in 1..k : slot[Stride * j] = n + j
      /\ slot = [p \in DOMAIN slot |-> slot[p]]
      /\ b = [slot |-> slot, pointer |-> Stride * (k + 1),
              index |-> IndexOfSlots(slot)]
  BY <1>1, NewBlockSlots
<1> HIDE DEF slot, b
<1>3. /\ \A j \in 1..k : Stride * j \in Nat /\ Stride * j <= Stride * k
      /\ Stride * (k + 1) \in Nat /\ Stride * k \in Nat
  BY StrideAssumption
<1>4. \A p \in DOMAIN slot : \E j \in 1..k : p = Stride * j /\ slot[p] = n + j
  BY <1>2
<1>5. /\ \A p \in DOMAIN slot : p \in Nat /\ p <= Stride * k
                                /\ slot[p] \in (n + 1)..(n + k)
      /\ \A p, q \in DOMAIN slot : slot[p] = slot[q] => p = q
  BY <1>3, <1>4
<1>6. Sound(b, n + k)
  <2>1. \A p \in DOMAIN slot : p \in Nat /\ p <= Stride * k
                               /\ slot[p] \in 1..(n + k)
    BY <1>5
  <2>2. n + k \in Nat /\ Stride * k \in Nat /\ Stride * (k + 1) \in Nat
    BY <1>3
  <2>3. Sound([slot |-> slot, pointer |-> Stride * (k + 1),
               index |-> IndexOfSlots(slot)], n + k)
    BY <1>2, <1>5, <2>1, <2>2, RebuiltSound
  <2> QED BY <1>2, <2>3
<1>7. Mentioned(b) \subseteq (n + 1)..(n + k)
  <2>1. b.slot = slot /\ b.index = IndexOfSlots(slot)
    BY <1>2
  <2>2. DOMAIN IndexOfSlots(slot) = {slot[p] : p \in DOMAIN slot}
    BY <1>5, RebuiltIndex
  <2> QED BY <2>1, <2>2, <1>5 DEF Mentioned
<1> QED BY <1>6, <1>7 DEF b, new

\* Placing new instructions over a window of positions.
LEMMA PlaceSound ==
  ASSUME NEW c \in Nat, NEW k \in Nat, NEW b, Sound(b, c), NEW from \in Nat,
         NEW pointer \in Nat
  PROVE  LET d == [Place(b, NewInstrs(c, k), from) EXCEPT !.pointer = pointer]
         IN  Sound(d, c + k) /\ Mentioned(d) \subseteq Mentioned(b)
                                                     \cup (c + 1)..(c + k)
<1> DEFINE new == NewInstrs(c, k)
           window == from..(from + k - 1)
           slot == [p \in DOMAIN b.slot \cup window |->
                      IF p \in window THEN new[p - from + 1] ELSE b.slot[p]]
           index == [i \in DOMAIN b.index \cup Elems(new) |->
                       IF i \in DOMAIN b.index THEN b.index[i]
                       ELSE from - 1 + CHOOSE j \in 1..k : new[j] = i]
           d == [slot |-> slot, pointer |-> pointer, index |-> index]
<1>1. /\ Len(new) = k /\ \A j \in 1..k : new[j] = c + j
      /\ Elems(new) = (c + 1)..(c + k)
  BY NewInstrsAre
<1> HIDE DEF new
<1>2. /\ b = [slot |-> b.slot, pointer |-> b.pointer, index |-> b.index]
      /\ \A p \in DOMAIN b.slot : p \in Nat /\ b.slot[p] \in 1..c
      /\ \A i \in DOMAIN b.index : i \in 1..c /\ b.index[i] \in Nat
      /\ b.pointer \in Nat
  BY PartsOfBlock DEF Sound
<1>3. [Place(b, new, from) EXCEPT !.pointer = pointer] = d
  <2>1. Place(b, new, from) = [b EXCEPT !.slot = slot, !.index = index]
    BY <1>1 DEF Place
  <2> HIDE DEF slot, index
  <2>2. Place(b, new, from) =
          [slot |-> slot, pointer |-> b.pointer, index |-> index]
    BY <1>2, <2>1
  <2> QED BY <2>2
<1>4. \A p \in window : p - from + 1 \in 1..k /\ slot[p] = c + (p - from + 1)
  BY <1>1
<1>5. \A p \in DOMAIN slot \ window : p \in DOMAIN b.slot /\ slot[p] = b.slot[p]
  OBVIOUS
<1>6. \A i \in (c + 1)..(c + k) : /\ (CHOOSE j \in 1..k : new[j] = i) = i - c
                                  /\ i - c \in 1..k
  <2> SUFFICES ASSUME NEW i \in (c + 1)..(c + k)
               PROVE  /\ (CHOOSE j \in 1..k : new[j] = i) = i - c
                      /\ i - c \in 1..k
    OBVIOUS
  <2>1. i - c \in 1..k /\ new[i - c] = i
    BY <1>1
  <2>2. \A j \in 1..k : new[j] = i => j = i - c
    BY <1>1
  <2> QED BY <2>1, <2>2
<1>7. /\ DOMAIN index = DOMAIN b.index \cup (c + 1)..(c + k)
      /\ \A i \in DOMAIN b.index : i \in 1..c /\ index[i] = b.index[i]
      /\ \A i \in (c + 1)..(c + k) : index[i] = from - 1 + (i - c)
                                     /\ index[i] \in window
  <2>1. /\ DOMAIN index = DOMAIN b.index \cup (c + 1)..(c + k)
        /\ \A i \in DOMAIN b.index : i \in 1..c /\ index[i] = b.index[i]
    BY <1>1, <1>2
  <2>2. ASSUME NEW i \in (c + 1)..(c + k)
        PROVE  index[i] = from - 1 + (i - c)
    <3>1. i \in DOMAIN index /\ i \notin DOMAIN b.index
      BY <1>2, <2>1
    <3> QED BY <3>1, <1>6
  <2>3. \A i \in (c + 1)..(c + k) : from - 1 + (i - c) \in window
    OBVIOUS
  <2> QED BY <2>1, <2>2, <2>3
<1>8. slot = [p \in DOMAIN slot |-> slot[p]] /\ index = [i \in DOMAIN index |-> index[i]]
      /\ DOMAIN slot = DOMAIN b.slot \cup window
  OBVIOUS
<1> HIDE DEF slot, index
<1>9. d \in Block(c + k)
  <2>1. \A p \in DOMAIN slot : p \in Nat /\ slot[p] \in 1..(c + k)
    BY <1>2, <1>4, <1>5, <1>8
  <2>2. \A i \in DOMAIN index : i \in 1..(c + k) /\ index[i] \in Nat
    BY <1>2, <1>7
  <2>3. c + k \in Nat
    OBVIOUS
  <2> HIDE DEF window
  <2> QED BY <2>1, <2>2, <2>3, <1>8, BlockOfParts
<1>10. Bounded(d)
  <2>1. PICK n \in Nat : \A p \in DOMAIN b.slot : p <= n
    BY DEF Sound, Bounded
  <2>2. n + from + k \in Nat /\ \A p \in DOMAIN slot : p <= n + from + k
    BY <1>2, <1>8, <2>1
  <2> QED BY <2>2 DEF Bounded
<1>11. Injective(d)
  <2> SUFFICES ASSUME NEW p \in DOMAIN slot, NEW q \in DOMAIN slot,
                      slot[p] = slot[q]
               PROVE  p = q
    BY DEF Injective
  <2>1. CASE p \in window /\ q \in window
    BY <2>1, <1>4
  <2>2. CASE p \notin window /\ q \notin window
    BY <2>2, <1>5 DEF Sound, Injective
  <2>3. CASE p \in window /\ q \notin window
    BY <2>3, <1>2, <1>4, <1>5
  <2>4. CASE p \notin window /\ q \in window
    BY <2>4, <1>2, <1>4, <1>5
  <2> QED BY <2>1, <2>2, <2>3, <2>4
<1>12. IndexSound(d)
  <2> SUFFICES ASSUME NEW i \in DOMAIN index
               PROVE  /\ index[i] \in DOMAIN slot
                      /\ \A p \in DOMAIN slot : slot[p] = i => index[i] = p
    BY DEF IndexSound
  <2>1. CASE i \in DOMAIN b.index
    <3>1. \A p \in window : slot[p] # i
      BY <1>4, <1>7, <2>1
    <3> QED BY <2>1, <3>1, <1>5, <1>7, <1>8 DEF Sound, IndexSound
  <2>2. CASE i \in (c + 1)..(c + k)
    <3>1. \A p \in DOMAIN slot \ window : slot[p] # i
      BY <1>2, <1>5, <2>2
    <3>2. \A p \in window : slot[p] = i => index[i] = p
      BY <1>4, <1>7, <2>2
    <3> QED BY <2>2, <3>1, <3>2, <1>7, <1>8
  <2> QED BY <2>1, <2>2, <1>7
<1>13. Mentioned(d) \subseteq Mentioned(b) \cup (c + 1)..(c + k)
  <2>1. \A p \in DOMAIN slot : slot[p] \in Mentioned(b) \cup (c + 1)..(c + k)
    BY <1>4, <1>5 DEF Mentioned
  <2> QED BY <2>1, <1>7 DEF Mentioned
<1>14. Sound(d, c + k)
  BY <1>9, <1>10, <1>11, <1>12 DEF Sound
<1> HIDE DEF d
<1> QED BY <1>3, <1>13, <1>14 DEF new

\* A grown list: the new instructions in their window, the others from where
\* they were, those behind the window further up by a common distance.
LEMMA ShiftedSlots ==
  ASSUME NEW slot, NEW new, NEW k \in Nat, Len(new) = k, NEW at \in Nat,
         \A p \in DOMAIN slot : p \in Nat
  PROVE  LET s == Shifted(slot, new, at)
             hole == IF at < k THEN k - at ELSE 0
         IN  /\ s = [q \in DOMAIN s |-> s[q]]
             /\ at..(at + k - 1) \subseteq DOMAIN s
             /\ \A q \in at..(at + k - 1) : s[q] = new[q - at + 1]
             /\ \A q \in DOMAIN s \ (at..(at + k - 1)) :
                  \E p \in DOMAIN slot :
                    /\ s[q] = slot[p]
                    /\ \/ p < at /\ q = p
                       \/ p >= at + hole /\ q = p + k - hole /\ q >= at + k
<1> DEFINE hole == IF at < k THEN k - at ELSE 0
           rest == {p \in DOMAIN slot : p < at \/ p >= at + hole}
           moved(p) == IF p < at THEN p ELSE p + k - hole
           came(q) == IF q < at THEN q ELSE q - k + hole
           window == at..(at + k - 1)
           s == [q \in {moved(p) : p \in rest} \cup window |->
                   IF q \in window THEN new[q - at + 1] ELSE slot[came(q)]]
<1>1. Shifted(slot, new, at) = s
  BY DEF Shifted
<1>2. hole \in Nat /\ hole <= k
  OBVIOUS
<1> HIDE DEF hole
<1>3. \A p \in rest : came(moved(p)) = p
  BY <1>2
<1>4. ASSUME NEW q \in DOMAIN s \ window
      PROVE  \E p \in DOMAIN slot :
               /\ s[q] = slot[p]
               /\ \/ p < at /\ q = p
                  \/ p >= at + hole /\ q = p + k - hole /\ q >= at + k
  <2>1. PICK p \in rest : q = moved(p)
    BY <1>4
  <2>2. came(q) = p
    BY <1>3, <2>1
  <2>3. s[q] = slot[p]
    BY <1>4, <2>2
  <2>4. \/ p < at /\ q = p
        \/ p >= at + hole /\ q = p + k - hole /\ q >= at + k
    BY <1>2, <2>1
  <2> QED BY <2>3, <2>4
<1>5. window \subseteq DOMAIN s /\ \A q \in window : s[q] = new[q - at + 1]
  OBVIOUS
<1>6. s = [q \in DOMAIN s |-> s[q]]
  OBVIOUS
<1> HIDE DEF s
<1> QED BY <1>1, <1>4, <1>5, <1>6 DEF hole

\* The instructions of b that d still has are in the order b has them in.
Ordered(b, d) ==
    \A p, q \in DOMAIN b.slot, m, n \in DOMAIN d.slot :
        p < q /\ d.slot[m] = b.slot[p] /\ d.slot[n] = b.slot[q] => m < n

\* Growing the list at a position.
LEMMA SpliceSound ==
  ASSUME NEW c \in Nat, NEW k \in Nat, NEW b, Sound(b, c), NEW at \in Nat
  PROVE  LET d == Splice(b, NewInstrs(c, k), at)
         IN  /\ Sound(d, c + k) /\ Ordered(b, d)
             /\ Mentioned(d) \subseteq Mentioned(b) \cup (c + 1)..(c + k)
<1> DEFINE new == NewInstrs(c, k)
           window == at..(at + k - 1)
           slot == Shifted(b.slot, new, at)
           hole == IF at < k THEN k - at ELSE 0
           d == [slot |-> slot, pointer |-> b.pointer + k,
                 index |-> IndexOfSlots(slot)]
<1>1. Len(new) = k /\ \A j \in 1..k : new[j] = c + j
  BY NewInstrsAre
<1>2. /\ \A p \in DOMAIN b.slot : p \in Nat /\ b.slot[p] \in 1..c
      /\ b.pointer \in Nat
  BY PartsOfBlock DEF Sound
<1>3. Splice(b, new, at) = d
  BY <1>1 DEF Splice
<1> HIDE DEF new
<1>4. /\ slot = [q \in DOMAIN slot |-> slot[q]]
      /\ \A q \in window : q \in DOMAIN slot /\ slot[q] = c + (q - at + 1)
      /\ \A q \in DOMAIN slot \ window : \E p \in DOMAIN b.slot :
           /\ slot[q] = b.slot[p]
           /\ \/ p < at /\ q = p
              \/ p >= at + hole /\ q = p + k - hole /\ q >= at + k
  <2>1. \A q \in window : q - at + 1 \in 1..k
    OBVIOUS
  <2>2. \A p \in DOMAIN b.slot : p \in Nat
    BY <1>2
  <2>3. /\ slot = [q \in DOMAIN slot |-> slot[q]]
        /\ window \subseteq DOMAIN slot
        /\ \A q \in window : slot[q] = new[q - at + 1]
        /\ \A q \in DOMAIN slot \ window : \E p \in DOMAIN b.slot :
             /\ slot[q] = b.slot[p]
             /\ \/ p < at /\ q = p
                \/ p >= at + hole /\ q = p + k - hole /\ q >= at + k
    <3>1. Len(new) = k
      BY <1>1
    <3> QED BY ONLY <3>1, <2>2, k \in Nat, at \in Nat, ShiftedSlots, SMTT(20)
  <2> HIDE DEF slot, hole
  <2> QED BY <1>1, <2>1, <2>3
<1>5. hole \in Nat /\ hole <= k
  OBVIOUS
<1> HIDE DEF slot, hole
<1>6. \A q \in window : q \in Nat /\ slot[q] \in (c + 1)..(c + k)
  BY <1>4
<1>7. \A q \in DOMAIN slot \ window : q \in Nat /\ slot[q] \in 1..c
  BY <1>2, <1>4, <1>5
<1>8. ASSUME NEW p \in DOMAIN b.slot, NEW q \in DOMAIN b.slot, p < q,
             NEW m \in DOMAIN slot, NEW n \in DOMAIN slot,
             slot[m] = b.slot[p], slot[n] = b.slot[q]
      PROVE  m < n
  <2>1. m \notin window /\ n \notin window
    BY <1>2, <1>6, <1>8
  <2>2. \/ p < at /\ m = p
        \/ p >= at + hole /\ m = p + k - hole /\ m >= at + k
    BY <1>4, <1>8, <2>1 DEF Sound, Injective
  <2>3. \/ q < at /\ n = q
        \/ q >= at + hole /\ n = q + k - hole /\ n >= at + k
    BY <1>4, <1>8, <2>1 DEF Sound, Injective
  <2> QED BY <1>2, <1>5, <1>8, <2>2, <2>3
<1>9. ASSUME NEW m \in DOMAIN slot, NEW n \in DOMAIN slot, slot[m] = slot[n]
      PROVE  m = n
  <2>1. CASE m \in window /\ n \in window
    BY <2>1, <1>4, <1>9
  <2>2. CASE m \notin window /\ n \notin window
    <3>1. PICK p \in DOMAIN b.slot :
            /\ slot[m] = b.slot[p]
            /\ \/ p < at /\ m = p
               \/ p >= at + hole /\ m = p + k - hole /\ m >= at + k
      BY <1>4, <2>2
    <3>2. PICK q \in DOMAIN b.slot :
            /\ slot[n] = b.slot[q]
            /\ \/ q < at /\ n = q
               \/ q >= at + hole /\ n = q + k - hole /\ n >= at + k
      BY <1>4, <2>2
    <3>3. p = q
      BY <1>9, <3>1, <3>2 DEF Sound, Injective
    <3> QED BY <1>2, <1>5, <3>1, <3>2, <3>3
  <2>3. CASE m \in window /\ n \notin window
    BY <2>3, <1>6, <1>7, <1>9
  <2>4. CASE m \notin window /\ n \in window
    BY <2>4, <1>6, <1>7, <1>9
  <2> QED BY <2>1, <2>2, <2>3, <2>4
<1>10. PICK top \in Nat : \A q \in DOMAIN slot : q <= top
  <2>1. PICK n \in Nat : \A p \in DOMAIN b.slot : p <= n
    BY DEF Sound, Bounded
  <2>2. \A q \in DOMAIN slot : q <= n + at + k
    BY <1>2, <1>4, <1>5, <2>1
  <2> QED BY <2>2
<1>11. Sound(d, c + k)
  <2>1. \A q \in DOMAIN slot : q \in Nat /\ q <= top /\ slot[q] \in 1..(c + k)
    BY <1>6, <1>7, <1>10
  <2>2. c + k \in Nat /\ b.pointer + k \in Nat
    BY <1>2
  <2> QED BY <1>4, <1>9, <2>1, <2>2, RebuiltSound
<1>12. Mentioned(d) \subseteq Mentioned(b) \cup (c + 1)..(c + k)
  <2>1. \A q \in DOMAIN slot : slot[q] \in Mentioned(b) \cup (c + 1)..(c + k)
    BY <1>4, <1>6 DEF Mentioned
  <2>2. DOMAIN IndexOfSlots(slot) = {slot[p] : p \in DOMAIN slot}
    BY <1>9, RebuiltIndex
  <2> QED BY <2>1, <2>2 DEF Mentioned
<1>13. Ordered(b, d)
  BY <1>8 DEF Ordered
<1> HIDE DEF d
<1> QED BY <1>3, <1>11, <1>12, <1>13 DEF new

\* Placing keeps the position of whatever it does not overwrite.
LEMMA PlaceOrdered ==
  ASSUME NEW c \in Nat, NEW k \in Nat, NEW b, Sound(b, c), NEW from \in Nat,
         NEW pointer \in Nat
  PROVE  Ordered(b, [Place(b, NewInstrs(c, k), from) EXCEPT !.pointer = pointer])
<1> DEFINE new == NewInstrs(c, k)
           d == [Place(b, new, from) EXCEPT !.pointer = pointer]
<1>1. Len(new) = k /\ \A j \in 1..k : new[j] = c + j
  BY NewInstrsAre
<1>2. /\ b = [slot |-> b.slot, pointer |-> b.pointer, index |-> b.index]
      /\ \A p \in DOMAIN b.slot : p \in Nat /\ b.slot[p] \in 1..c
  BY PartsOfBlock DEF Sound
<1> HIDE DEF new
<1>3. d.slot = [p \in DOMAIN b.slot \cup from..(from + k - 1) |->
                  IF p \in from..(from + k - 1) THEN new[p - from + 1]
                  ELSE b.slot[p]]
  BY <1>1, <1>2 DEF Place
<1>4. ASSUME NEW p \in DOMAIN b.slot, NEW m \in DOMAIN d.slot,
             d.slot[m] = b.slot[p]
      PROVE  m = p
  <2>1. CASE m \in from..(from + k - 1)
    <3>1. m - from + 1 \in 1..k /\ d.slot[m] = c + (m - from + 1)
      BY <1>1, <1>3, <2>1
    <3> QED BY <1>2, <1>4, <3>1
  <2>2. CASE m \notin from..(from + k - 1)
    <3>1. m \in DOMAIN b.slot /\ d.slot[m] = b.slot[m]
      BY <1>3, <2>2
    <3> QED BY <1>4, <3>1 DEF Sound, Injective
  <2> QED BY <2>1, <2>2
<1> HIDE DEF d
<1>5. Ordered(b, d)
  BY <1>4 DEF Ordered
<1> QED BY <1>5 DEF d, new

\* insert_instr, at the pointer, over free positions or by growing the list:
\* the block stays sound, and the instructions it keeps stay in order.
LEMMA InsertInstrSound ==
  ASSUME NEW c \in Nat, NEW k \in Nat, NEW b, Sound(b, c),
         NEW before, NEW after
  PROVE  LET d == InsertInstr(b, NewInstrs(c, k), before, after)
         IN  /\ Sound(d, c + k) /\ Ordered(b, d)
             /\ Mentioned(d) \subseteq Mentioned(b) \cup (c + 1)..(c + k)
<1> DEFINE new == NewInstrs(c, k)
           at == IndexOf(b, after) + 1
           Goal(d) == /\ Sound(d, c + k) /\ Ordered(b, d)
                      /\ Mentioned(d) \subseteq Mentioned(b) \cup (c + 1)..(c + k)
<1>1. /\ b = [slot |-> b.slot, pointer |-> b.pointer, index |-> b.index]
      /\ b.pointer \in Nat
      /\ \A i \in DOMAIN b.index : b.index[i] \in Nat
  BY PartsOfBlock DEF Sound
<1>2. at \in Nat
  BY <1>1 DEF IndexOf, None
<1>3. Len(new) = k
  BY NewInstrsAre
<1> HIDE DEF at
<1>4. Goal(AppendInstrs(b, new))
  <2>1. b.pointer + k \in Nat
    BY <1>1
  <2>2. AppendInstrs(b, new) =
          [Place(b, new, b.pointer) EXCEPT !.pointer = b.pointer + k]
    BY <1>3 DEF AppendInstrs
  <2> HIDE DEF new
  <2> QED BY <1>1, <2>1, <2>2, PlaceSound, PlaceOrdered DEF new
<1>5. Goal(Place(b, new, at))
  <2>1. Place(b, new, at) = [Place(b, new, at) EXCEPT !.pointer = b.pointer]
    <3> HIDE DEF new
    <3>1. PICK slot, index : Place(b, new, at) =
                               [b EXCEPT !.slot = slot, !.index = index]
      BY DEF Place
    <3>2. Place(b, new, at) =
            [slot |-> slot, pointer |-> b.pointer, index |-> index]
      BY <1>1, <3>1
    <3> QED BY <3>2
  <2> HIDE DEF new
  <2> QED BY <1>1, <1>2, <2>1, PlaceSound, PlaceOrdered DEF new
<1>6. Goal(Splice(b, new, at))
  BY <1>2, SpliceSound
<1>7. \/ InsertInstr(b, new, before, after) = AppendInstrs(b, new)
      \/ InsertInstr(b, new, before, after) = Place(b, new, at)
      \/ InsertInstr(b, new, before, after) = Splice(b, new, at)
  BY DEF InsertInstr, at
<1> HIDE DEF new, Goal
<1>8. Goal(InsertInstr(b, new, before, after))
  BY <1>4, <1>5, <1>6, <1>7
<1> QED BY <1>8 DEF Goal, new

\* reset_instruction: the new instruction is unknown to the dictionary.
LEMMA ResetSound ==
  ASSUME NEW c \in Nat, NEW b, Sound(b, c), NEW i \in DOMAIN b.index
  PROVE  LET d == ResetInstr(b, i, c + 1)
         IN  /\ Sound(d, c + 1) /\ Ordered(b, d)
             /\ Mentioned(d) \subseteq Mentioned(b) \cup {c + 1}
<1> DEFINE at == b.index[i]
           slot == [b.slot EXCEPT ![at] = c + 1]
           d == [slot |-> slot, pointer |-> b.pointer, index |-> b.index]
<1>1. /\ b = [slot |-> b.slot, pointer |-> b.pointer, index |-> b.index]
      /\ b.slot = [p \in DOMAIN b.slot |-> b.slot[p]]
      /\ \A p \in DOMAIN b.slot : p \in Nat /\ b.slot[p] \in 1..c
      /\ b.pointer \in Nat
      /\ b.index = [j \in DOMAIN b.index |-> b.index[j]]
      /\ \A j \in DOMAIN b.index : j \in 1..c /\ b.index[j] \in Nat
  BY PartsOfBlock DEF Sound
<1>2. ResetInstr(b, i, c + 1) = d
  BY <1>1 DEF ResetInstr
<1>3. at \in DOMAIN b.slot
  BY DEF Sound, IndexSound
<1>4. /\ DOMAIN slot = DOMAIN b.slot /\ slot = [p \in DOMAIN slot |-> slot[p]]
      /\ \A p \in DOMAIN b.slot :
           slot[p] = IF p = at THEN c + 1 ELSE b.slot[p]
  BY <1>1, <1>3
<1> HIDE DEF slot, at
<1>5. d \in Block(c + 1)
  <2>1. \A p \in DOMAIN slot : p \in Nat /\ slot[p] \in 1..(c + 1)
    BY <1>1, <1>4
  <2>2. \A j \in DOMAIN b.index : j \in 1..(c + 1) /\ b.index[j] \in Nat
    BY <1>1
  <2>3. c + 1 \in Nat
    OBVIOUS
  <2> QED BY <2>1, <2>2, <2>3, <1>1, <1>4, BlockOfParts
<1>6. Bounded(d)
  BY <1>4 DEF Sound, Bounded
<1>7. Injective(d)
  BY <1>1, <1>4 DEF Sound, Injective
<1>8. IndexSound(d)
  BY <1>1, <1>4 DEF Sound, IndexSound
<1>9. Ordered(b, d)
  <2>1. \A p, m \in DOMAIN b.slot : slot[m] = b.slot[p] => m = p
    BY <1>1, <1>4 DEF Sound, Injective
  <2> QED BY <2>1, <1>4 DEF Ordered
<1>10. Mentioned(d) \subseteq Mentioned(b) \cup {c + 1}
  BY <1>4 DEF Mentioned
<1>11. Sound(d, c + 1)
  BY <1>5, <1>6, <1>7, <1>8 DEF Sound
<1> HIDE DEF d
<1> QED BY <1>2, <1>9, <1>10, <1>11

\* replicate: the copies are new, and the dictionary knows none of them.
LEMMA ReplicaSound ==
  ASSUME NEW c \in Nat, NEW k \in Nat, NEW b
  PROVE  LET d == Replica(b, NewInstrs(c, k), NewInstrs(c + k, k))
         IN  /\ Sound(d, c + 2 * k)
             /\ Mentioned(d) \subseteq (c + 1)..(c + 2 * k)
<1> DEFINE old == NewInstrs(c, k)
           new == NewInstrs(c + k, k)
           fresh == NewBlock(old)
           slot == [p \in DOMAIN fresh.slot |->
                      new[CHOOSE j \in 1..k : old[j] = fresh.slot[p]]]
           d == [slot |-> slot, pointer |-> fresh.pointer, index |-> fresh.index]
<1>1. /\ Len(old) = k /\ \A j \in 1..k : old[j] = c + j
      /\ \A j \in 1..k : new[j] = c + k + j
  <2>1. Len(old) = k /\ \A j \in 1..k : old[j] = c + j
    BY NewInstrsAre
  <2>2. c + k \in Nat
    OBVIOUS
  <2>3. \A j \in 1..k : new[j] = c + k + j
    BY <2>2, NewInstrsAre
  <2> QED BY <2>1, <2>3
<1>2. Sound(fresh, c + k) /\ Mentioned(fresh) \subseteq (c + 1)..(c + k)
  BY NewBlockSound
<1> HIDE DEF old, new
<1>3. /\ DOMAIN fresh.slot = {Stride * j : j \in 1..k}
      /\ \A j \in 1..k : fresh.slot[Stride * j] = old[j]
      /\ fresh = [slot |-> fresh.slot, pointer |-> fresh.pointer,
                  index |-> fresh.index]
  BY <1>1, NewBlockSlots
<1> HIDE DEF fresh
<1>4. Replica(b, old, new) = d
  <2>1. Replica(b, old, new) = [fresh EXCEPT !.slot = slot]
    BY <1>1 DEF Replica, fresh
  <2> HIDE DEF slot
  <2> QED BY <1>3, <2>1
<1>5. /\ \A p \in DOMAIN fresh.slot : p \in Nat /\ fresh.slot[p] \in 1..(c + k)
      /\ fresh.pointer \in Nat
      /\ fresh.index = [j \in DOMAIN fresh.index |-> fresh.index[j]]
      /\ \A j \in DOMAIN fresh.index : j \in 1..(c + k) /\ fresh.index[j] \in Nat
  <2>1. c + k \in Nat
    OBVIOUS
  <2> QED BY <1>2, <2>1, PartsOfBlock DEF Sound
<1>6. ASSUME NEW p \in DOMAIN fresh.slot
      PROVE  \E j \in 1..k : fresh.slot[p] = c + j /\ slot[p] = c + k + j
  <2>1. PICK j \in 1..k : p = Stride * j
    BY <1>3
  <2>2. fresh.slot[p] = c + j
    BY <1>1, <1>3, <2>1
  <2>3. (CHOOSE i \in 1..k : old[i] = fresh.slot[p]) = j
    <3>1. \A i \in 1..k : old[i] = fresh.slot[p] <=> i = j
      BY <1>1, <2>2
    <3> QED BY <3>1
  <2> QED BY <1>1, <2>2, <2>3
<1>7. DOMAIN slot = DOMAIN fresh.slot /\ slot = [p \in DOMAIN slot |-> slot[p]]
  OBVIOUS
<1> HIDE DEF slot
<1>8. \A p \in DOMAIN slot : slot[p] \in (c + k + 1)..(c + 2 * k)
  BY <1>6, <1>7
<1>9. d \in Block(c + 2 * k)
  <2>1. \A p \in DOMAIN slot : p \in Nat /\ slot[p] \in 1..(c + 2 * k)
    BY <1>5, <1>7, <1>8
  <2>2. \A j \in DOMAIN fresh.index : j \in 1..(c + 2 * k)
                                      /\ fresh.index[j] \in Nat
    BY <1>5
  <2>3. c + 2 * k \in Nat
    OBVIOUS
  <2> QED BY <2>1, <2>2, <2>3, <1>5, <1>7, BlockOfParts
<1>10. Bounded(d)
  BY <1>2, <1>7 DEF Sound, Bounded
<1>11. Injective(d)
  <2>1. ASSUME NEW p \in DOMAIN fresh.slot, NEW q \in DOMAIN fresh.slot,
               slot[p] = slot[q]
        PROVE  fresh.slot[p] = fresh.slot[q]
    BY <1>6, <2>1
  <2> QED BY <2>1, <1>2, <1>7 DEF Sound, Injective
<1>12. IndexSound(d)
  BY <1>2, <1>5, <1>7, <1>8 DEF Sound, IndexSound
<1>13. Mentioned(d) \subseteq (c + 1)..(c + 2 * k)
  BY <1>2, <1>8 DEF Mentioned
<1>14. Sound(d, c + 2 * k)
  BY <1>9, <1>10, <1>11, <1>12 DEF Sound
<1> HIDE DEF d
<1> QED BY <1>4, <1>13, <1>14 DEF old, new

-----------------------------------------------------------------------------
\* Every block is sound, and no two blocks ever heard of the same instruction.
LayoutInv ==
    /\ created \in Nat
    /\ blocks \in Seq(Block(created))
    /\ \A n \in DOMAIN blocks : Sound(blocks[n], created)
    /\ \A m, n \in DOMAIN blocks :
         m # n => Mentioned(blocks[m]) \cap Mentioned(blocks[n]) = {}

\* One block is updated with instructions that did not exist before.
Updated(n) ==
    /\ n \in DOMAIN blocks
    /\ created' \in Nat /\ created <= created'
    /\ \E d : /\ blocks' = [blocks EXCEPT ![n] = d]
              /\ Sound(d, created') /\ Ordered(blocks[n], d)
              /\ Mentioned(d) \subseteq Mentioned(blocks[n])
                                        \cup (created + 1)..created'

\* A block of instructions that did not exist before is appended.
Extended ==
    /\ created' \in Nat /\ created <= created'
    /\ \E d : /\ blocks' = Append(blocks, d)
              /\ Sound(d, created')
              /\ Mentioned(d) \subseteq (created + 1)..created'

----------------------------------------------------------------------------
\* A block stays sound while instructions are created elsewhere.
LEMMA SoundLater ==
  ASSUME NEW c \in Nat, NEW e \in Nat, c <= e, NEW b, Sound(b, c)
  PROVE  Sound(b, e) /\ Mentioned(b) \subseteq 1..c
<1>1. /\ b = [slot |-> b.slot, pointer |-> b.pointer, index |-> b.index]
      /\ b.slot = [p \in DOMAIN b.slot |-> b.slot[p]]
      /\ \A p \in DOMAIN b.slot : p \in Nat /\ b.slot[p] \in 1..c
      /\ b.pointer \in Nat
      /\ b.index = [i \in DOMAIN b.index |-> b.index[i]]
      /\ \A i \in DOMAIN b.index : i \in 1..c /\ b.index[i] \in Nat
  BY PartsOfBlock DEF Sound
<1>2. /\ \A p \in DOMAIN b.slot : p \in Nat /\ b.slot[p] \in 1..e
      /\ \A i \in DOMAIN b.index : i \in 1..e /\ b.index[i] \in Nat
  BY <1>1
<1>3. b \in Block(e)
  BY <1>1, <1>2, BlockOfParts
<1>4. Mentioned(b) \subseteq 1..c
  BY <1>1 DEF Mentioned
<1> QED BY <1>3, <1>4 DEF Sound

\* The number of instructions of a block is a natural number.
LEMMA SizeOfBlock ==
  ASSUME NEW c \in Nat, NEW b, Sound(b, c)
  PROVE  Cardinality(Live(b)) \in Nat
<1>1. PICK n \in Nat : \A p \in DOMAIN b.slot : p <= n
  BY DEF Sound, Bounded
<1>2. \A p \in DOMAIN b.slot : p \in Nat
  BY PartsOfBlock DEF Sound
<1>3. Live(b) \subseteq 0..n
  BY <1>1, <1>2 DEF Live
<1>4. IsFiniteSet(0..n)
  BY FS_Interval
<1> QED BY <1>3, <1>4, FS_Subset, FS_CardinalityType

\* Both kinds of step keep the invariant.
LEMMA UpdatedKeeps ==
  ASSUME LayoutInv, NEW n, Updated(n)
  PROVE  LayoutInv'
<1>1. PICK d : /\ blocks' = [blocks EXCEPT ![n] = d]
               /\ Sound(d, created')
               /\ Mentioned(d) \subseteq Mentioned(blocks[n])
                                         \cup (created + 1)..created'
  BY DEF Updated
<1>2. /\ n \in DOMAIN blocks /\ created \in Nat /\ created' \in Nat
      /\ created <= created'
  BY DEF Updated, LayoutInv
<1>3. \A m \in DOMAIN blocks : Sound(blocks[m], created')
                               /\ Mentioned(blocks[m]) \subseteq 1..created
  BY <1>2, SoundLater DEF LayoutInv
<1>4. DOMAIN blocks' = DOMAIN blocks
      /\ \A m \in DOMAIN blocks : blocks'[m] = IF m = n THEN d ELSE blocks[m]
  BY <1>1
<1>5. \A m \in DOMAIN blocks' : Sound(blocks'[m], created')
  BY <1>1, <1>3, <1>4
<1>6. blocks' \in Seq(Block(created'))
  <2>1. \A m \in DOMAIN blocks' : blocks'[m] \in Block(created')
    BY <1>5 DEF Sound
  <2>2. Len(blocks) \in Nat /\ DOMAIN blocks = 1..Len(blocks)
    BY DEF LayoutInv
  <2>3. blocks' = [m \in 1..Len(blocks) |-> blocks'[m]]
    BY <1>1, <1>4, <2>2
  <2> QED BY <1>4, <2>1, <2>2, <2>3
<1>7. ASSUME NEW m \in DOMAIN blocks', NEW q \in DOMAIN blocks', m # q
      PROVE  Mentioned(blocks'[m]) \cap Mentioned(blocks'[q]) = {}
  <2>1. CASE m # n /\ q # n
    BY <1>4, <1>7, <2>1 DEF LayoutInv
  <2>2. \A r \in DOMAIN blocks : r # n =>
          Mentioned(d) \cap Mentioned(blocks[r]) = {}
    <3> SUFFICES ASSUME NEW r \in DOMAIN blocks, r # n,
                        NEW i \in Mentioned(d), i \in Mentioned(blocks[r])
                 PROVE  FALSE
      OBVIOUS
    <3>1. i \in Mentioned(blocks[n]) \cup (created + 1)..created'
      BY <1>1
    <3>2. i \in 1..created
      BY <1>3
    <3>3. i \in Mentioned(blocks[n])
      BY <1>2, <3>1, <3>2
    <3> QED BY <1>2, <3>3 DEF LayoutInv
  <2> QED BY <1>4, <1>7, <2>1, <2>2
<1> QED BY <1>2, <1>5, <1>6, <1>7 DEF LayoutInv

\* A block appended to the benchmark, made of new instructions.
LEMMA ExtendedKeeps ==
  ASSUME LayoutInv, Extended
  PROVE  LayoutInv'
<1>1. PICK d : /\ blocks' = Append(blocks, d)
               /\ Sound(d, created')
               /\ Mentioned(d) \subseteq (created + 1)..created'
  BY DEF Extended
<1>2. created \in Nat /\ created' \in Nat /\ created <= created'
  BY DEF Extended, LayoutInv
<1>3. \A m \in DOMAIN blocks : Sound(blocks[m], created')
                               /\ Mentioned(blocks[m]) \subseteq 1..created
  BY <1>2, SoundLater DEF LayoutInv
<1> DEFINE last == Len(blocks) + 1
<1>4. /\ Len(blocks) \in Nat /\ DOMAIN blocks = 1..Len(blocks)
      /\ DOMAIN blocks' = 1..last /\ Len(blocks') = last
      /\ \A m \in DOMAIN blocks : blocks'[m] = blocks[m]
      /\ blocks'[last] = d
      /\ blocks' = [m \in 1..last |-> blocks'[m]]
  <2>1. Len(blocks) \in Nat /\ DOMAIN blocks = 1..Len(blocks)
        /\ blocks = [m \in 1..Len(blocks) |-> blocks[m]]
    BY DEF LayoutInv
  <2>2. \A m \in DOMAIN blocks : blocks[m] \in Block(created')
    BY <1>3 DEF Sound
  <2>3. blocks \in Seq(Block(created')) /\ d \in Block(created')
    BY <1>1, <2>1, <2>2 DEF Sound
  <2>4. /\ blocks' \in Seq(Block(created')) /\ Len(blocks') = last
        /\ \A m \in 1..Len(blocks) : blocks'[m] = blocks[m]
        /\ blocks'[last] = d
    BY <1>1, <2>3, AppendProperties
  <2> HIDE DEF last
  <2>5. DOMAIN blocks' = 1..last /\ blocks' = [m \in 1..last |-> blocks'[m]]
    BY <2>4
  <2> QED BY <2>1, <2>4, <2>5
<1>5. \A m \in DOMAIN blocks' : m = last \/ m \in DOMAIN blocks
  BY <1>4
<1> HIDE DEF last
<1>6. \A m \in DOMAIN blocks' : Sound(blocks'[m], created')
  BY <1>1, <1>3, <1>4, <1>5
<1>7. blocks' \in Seq(Block(created'))
  <2>1. \A m \in 1..last : blocks'[m] \in Block(created')
    BY <1>4, <1>6 DEF Sound
  <2>2. last \in Nat
    BY <1>4 DEF last
  <2> QED BY <1>4, <2>1, <2>2
<1>8. \A m \in DOMAIN blocks : Mentioned(d) \cap Mentioned(blocks[m]) = {}
  <2> SUFFICES ASSUME NEW m \in DOMAIN blocks, NEW i \in Mentioned(d),
                      i \in Mentioned(blocks[m])
               PROVE  FALSE
    OBVIOUS
  <2>1. i \in (created + 1)..created' /\ i \in 1..created
    BY <1>1, <1>3
  <2> QED BY <1>2, <2>1
<1>9. ASSUME NEW m \in DOMAIN blocks', NEW q \in DOMAIN blocks', m # q
      PROVE  Mentioned(blocks'[m]) \cap Mentioned(blocks'[q]) = {}
  <2>1. CASE m \in DOMAIN blocks /\ q \in DOMAIN blocks
    BY <1>4, <1>9, <2>1 DEF LayoutInv
  <2>2. CASE m = last /\ q \in DOMAIN blocks
    BY <1>4, <1>8, <2>2
  <2>3. CASE q = last /\ m \in DOMAIN blocks
    BY <1>4, <1>8, <2>3
  <2> QED BY <1>5, <1>9, <2>1, <2>2, <2>3
<1> QED BY <1>2, <1>6, <1>7, <1>9 DEF LayoutInv

----------------------------------------------------------------------------
\* insert_instr on block n, whatever the anchors.
LEMMA InsertUpdates ==
  ASSUME LayoutInv, NEW n \in DOMAIN blocks, NEW k \in Nat,
         NEW before, NEW after, InsertInto(n, k, before, after)
  PROVE  Updated(n)
<1> DEFINE d == InsertInstr(blocks[n], NewInstrs(created, k), before, after)
<1>1. created \in Nat /\ Sound(blocks[n], created)
  BY DEF LayoutInv
<1>2. /\ Sound(d, created + k) /\ Ordered(blocks[n], d)
      /\ Mentioned(d) \subseteq Mentioned(blocks[n])
                                \cup (created + 1)..(created + k)
  BY <1>1, InsertInstrSound
<1>3. blocks' = [blocks EXCEPT ![n] = d] /\ created' = created + k
  BY DEF InsertInto
<1> HIDE DEF d
<1>4. created' \in Nat /\ created <= created'
  BY <1>1, <1>3
<1> QED BY <1>2, <1>3, <1>4 DEF Updated

\* Every call updates one block, appends one, or does nothing to the code.
LEMMA StepIs ==
  ASSUME LayoutInv, [LayoutNext]_layoutVars
  PROVE  Extended \/ (\E n : Updated(n)) \/ UNCHANGED <<blocks, created>>
<1>0. /\ created \in Nat /\ MaxNew \in Nat /\ MaxCreated \in Nat
      /\ Len(blocks) \in Nat /\ DOMAIN blocks = 1..Len(blocks)
      /\ \A n \in DOMAIN blocks : Sound(blocks[n], created)
  BY BoundsAssumption DEF LayoutInv
<1>1. ASSUME NEW n \in 1..MaxCreated, AddBbl(n) PROVE Extended
  <2> DEFINE d == NewBlock(NewInstrs(created, n))
  <2>1. Sound(d, created + n)
        /\ Mentioned(d) \subseteq (created + 1)..(created + n)
    <3>1. n \in Nat
      BY <1>0
    <3> QED BY <1>0, <3>1, NewBlockSound
  <2>2. blocks' = Append(blocks, d) /\ created' = created + n
    BY <1>1 DEF AddBbl
  <2> HIDE DEF d
  <2> QED BY <1>0, <2>1, <2>2 DEF Extended
<1>2. ASSUME NEW n \in DOMAIN blocks, NEW k \in 1..MaxNew,
             NEW before \in Anchors, NEW after \in Anchors,
             InsertInstrs(n, k, before, after)
      PROVE  Updated(n)
  BY <1>0, <1>2, InsertUpdates DEF InsertInstrs
<1>3. ASSUME NEW k \in 1..MaxNew, NEW before \in Anchors, NEW after \in Anchors,
             AddInstructions(k, before, after)
      PROVE  \E n : Updated(n)
  <2>1. blocks # <<>>
    BY <1>3 DEF AddInstructions
  <2>2. Len(blocks) \in DOMAIN blocks
    BY <1>0, <2>1
  <2>3. GetBbl(CfgIndex(before)) = Len(blocks)
        /\ GetBbl(CfgIndex(after)) = Len(blocks)
    BY <1>0 DEF GetBbl, CfgIndex
  <2>4. InsertInto(Len(blocks), k, before, after)
    BY <1>3, <2>3 DEF AddInstructions
  <2> QED BY <1>0, <2>2, <2>4, InsertUpdates
<1>4. ASSUME NEW n \in DOMAIN blocks, NEW i \in 1..created,
             ResetInstruction(n, i)
      PROVE  Updated(n)
  <2> DEFINE d == ResetInstr(blocks[n], i, created + 1)
  <2>1. i \in DOMAIN blocks[n].index
    BY <1>4 DEF ResetInstruction, IndexOf, None
  <2>2. /\ Sound(d, created + 1) /\ Ordered(blocks[n], d)
        /\ Mentioned(d) \subseteq Mentioned(blocks[n]) \cup {created + 1}
    BY <1>0, <2>1, ResetSound
  <2>3. blocks' = [blocks EXCEPT ![n] = d] /\ created' = created + 1
    BY <1>4 DEF ResetInstruction
  <2> HIDE DEF d
  <2>4. {created + 1} \subseteq (created + 1)..created' /\ created' \in Nat
        /\ created <= created'
    BY <1>0, <2>3
  <2> QED BY <2>2, <2>3, <2>4 DEF Updated
<1>5. ASSUME NEW n \in DOMAIN blocks, ReplicateBlock(n) PROVE Extended
  <2> DEFINE k == Cardinality(Live(blocks[n]))
             d == Replica(blocks[n], NewInstrs(created, k),
                          NewInstrs(created + k, k))
  <2>1. k \in Nat
    BY <1>0, SizeOfBlock
  <2>2. blocks' = Append(blocks, d) /\ created' = created + 2 * k
    BY <1>5 DEF ReplicateBlock
  <2> HIDE DEF k
  <2>3. Sound(d, created + 2 * k)
        /\ Mentioned(d) \subseteq (created + 1)..(created + 2 * k)
    BY <1>0, <2>1, ReplicaSound
  <2> HIDE DEF d
  <2> QED BY <1>0, <2>1, <2>2, <2>3 DEF Extended
<1>6. CASE UNCHANGED layoutVars
  BY <1>6 DEF layoutVars
<1> QED BY <1>1, <1>2, <1>3, <1>4, <1>5, <1>6 DEF LayoutNext

\* The invariant holds in every state.
LEMMA LayoutInvHolds == LayoutSpec => []LayoutInv
<1>1. LayoutInit => LayoutInv
  BY DEF LayoutInit, LayoutInv
<1>2. LayoutInv /\ [LayoutNext]_layoutVars => LayoutInv'
  <2> SUFFICES ASSUME LayoutInv, [LayoutNext]_layoutVars PROVE LayoutInv'
    OBVIOUS
  <2>1. CASE UNCHANGED <<blocks, created>>
    BY <2>1 DEF LayoutInv
  <2> QED BY <2>1, StepIs, UpdatedKeeps, ExtendedKeeps
<1> QED BY <1>1, <1>2, PTL DEF LayoutSpec

----------------------------------------------------------------------------
\* No call puts an instruction in two positions or in two blocks (insert_instr,
\* reset_instruction and replicate, bbl.py 190-209, 236-295 and 321-346).
THEOREM InstructionsInOnePlace == LayoutSpec => []OnePlace
<1>1. LayoutInv => OnePlace
  <2> SUFFICES ASSUME LayoutInv, NEW m \in DOMAIN blocks, NEW n \in DOMAIN blocks,
                      NEW p \in Slots(m), NEW q \in Slots(n),
                      blocks[m].slot[p] = blocks[n].slot[q]
               PROVE  m = n /\ p = q
    BY DEF OnePlace
  <2>1. blocks[m].slot[p] \in Mentioned(blocks[m]) \cap Mentioned(blocks[n])
    BY DEF Mentioned, Slots
  <2>2. m = n
    BY <2>1 DEF LayoutInv
  <2> QED BY <2>2 DEF LayoutInv, Sound, Injective, Slots
<1> QED BY <1>1, LayoutInvHolds, PTL

\* A dictionary never gives a wrong position for an instruction of its block
\* (_instdic against _instrs, bbl.py 199-209 and 263-295).
THEOREM DictionariesRight == LayoutSpec => []IndexRight
<1>1. LayoutInv => IndexRight
  BY DEF LayoutInv, Sound, IndexSound, IndexRight, Slots
<1> QED BY <1>1, LayoutInvHolds, PTL

\* No call changes the order of the instructions a block keeps (bbl.py 236-295).
THEOREM CallsKeepOrder == LayoutSpec => OrderKept
<1> DEFINE Kept == \A n \in DOMAIN blocks :
         LET both == {blocks[n].slot[p] : p \in Slots(n)}
                     \cap {blocks'[n].slot[p] : p \in DOMAIN blocks'[n].slot}
         IN  \A i, j \in both :
               PositionIn(blocks[n], i) < PositionIn(blocks[n], j)
                 => PositionIn(blocks'[n], i) < PositionIn(blocks'[n], j)
<1>1. LayoutInv /\ [LayoutNext]_layoutVars => [Kept]_layoutVars
  <2> SUFFICES ASSUME LayoutInv, [LayoutNext]_layoutVars,
                      NEW n \in DOMAIN blocks,
                      NEW p \in DOMAIN blocks[n].slot,
                      NEW q \in DOMAIN blocks[n].slot,
                      NEW p2 \in DOMAIN blocks'[n].slot,
                      NEW q2 \in DOMAIN blocks'[n].slot,
                      blocks'[n].slot[p2] = blocks[n].slot[p],
                      blocks'[n].slot[q2] = blocks[n].slot[q],
                      PositionIn(blocks[n], blocks[n].slot[p])
                        < PositionIn(blocks[n], blocks[n].slot[q])
               PROVE  PositionIn(blocks'[n], blocks[n].slot[p])
                        < PositionIn(blocks'[n], blocks[n].slot[q])
    BY DEF Slots
  <2>1. LayoutInv'
    <3>1. CASE UNCHANGED <<blocks, created>>
      BY <3>1 DEF LayoutInv
    <3> QED BY <3>1, StepIs, UpdatedKeeps, ExtendedKeeps
  <2>2. Ordered(blocks[n], blocks'[n]) /\ n \in DOMAIN blocks'
    <3>1. ASSUME NEW m, Updated(m) PROVE Ordered(blocks[n], blocks'[n])
                                         /\ n \in DOMAIN blocks'
      <4>1. PICK d : blocks' = [blocks EXCEPT ![m] = d] /\ Ordered(blocks[m], d)
        BY <3>1 DEF Updated
      <4>2. Ordered(blocks[n], blocks[n])
        BY DEF Ordered, LayoutInv, Sound, Injective
      <4> QED BY <4>1, <4>2
    <3>2. CASE Extended
      <4>1. PICK d : blocks' = Append(blocks, d)
        BY <3>2 DEF Extended
      <4>2. Ordered(blocks[n], blocks[n])
        BY DEF Ordered, LayoutInv, Sound, Injective
      <4>3. blocks'[n] = blocks[n] /\ n \in DOMAIN blocks'
        BY <4>1 DEF LayoutInv
      <4> QED BY <4>2, <4>3
    <3>3. CASE UNCHANGED <<blocks, created>>
      BY <3>3 DEF Ordered, LayoutInv, Sound, Injective
    <3> QED BY <3>1, <3>2, <3>3, StepIs
  <2>3. PositionIn(blocks[n], blocks[n].slot[p]) = p
        /\ PositionIn(blocks[n], blocks[n].slot[q]) = q
    BY DEF PositionIn, LayoutInv, Sound, Injective
  <2>4. PositionIn(blocks'[n], blocks[n].slot[p]) = p2
        /\ PositionIn(blocks'[n], blocks[n].slot[q]) = q2
    BY <2>1, <2>2 DEF PositionIn, LayoutInv, Sound, Injective
  <2> QED BY <2>2, <2>3, <2>4 DEF Ordered
<1> QED BY <1>1, LayoutInvHolds, PTL DEF LayoutSpec, OrderKept

-----------------------------------------------------------------------------
\* What a block shows, given an enumeration of its visible positions.
LEMMA Shown ==
  ASSUME NEW b, Live(b) \in SUBSET Nat, NEW M \in Nat, NEW f,
         Ascends(f, M, Live(b))
  PROVE  Instrs(b) = [n \in 1..M |-> b.slot[f[n]]]
<1> DEFINE S == Live(b)
<1>1. Instrs(b) = [n \in 1..Cardinality(S) |-> b.slot[At(S, n)]]
  BY DEF Instrs, At, Below
<1> HIDE DEF S
<1>2. Cardinality(S) = M /\ \A n \in 1..M : f[n] = At(S, n)
  BY OneEnumeration DEF S
<1> QED BY <1>1, <1>2

-----------------------------------------------------------------------------
\* The first m elements of s, then new, then the others.
PutIn(s, m, new) == SubSeq(s, 1, m) \o new \o SubSeq(s, m + 1, Len(s))
Prefix(s, m) == SubSeq(s, 1, m)

\* The elements of a prefix.
LEMMA PrefixElements ==
  ASSUME NEW s \in Seq(Nat), NEW m \in 0..Len(s)
  PROVE  /\ Prefix(s, m) \in Seq(Nat) /\ Len(Prefix(s, m)) = m
         /\ \A n \in 1..m : Prefix(s, m)[n] = s[n]
<1>1. Len(s) \in Nat
  BY LenProperties
<1>2. \A i \in 1..Len(s) : s[i] \in Nat
  BY ElementOfSeq
<1> DEFINE r == 1
<1>3. r \in Int /\ m \in Int /\ \A i \in r..m : s[i] \in Nat
  BY <1>1, <1>2
<1>4. m \in Nat /\ m - r + 1 = m
  BY <1>1
<1>5. Prefix(s, m) = SubSeq(s, r, m)
  BY DEF Prefix
<1>6. \A i \in 1..m : r + i - 1 = i
  BY <1>4
<1> HIDE DEF r
<1>7. /\ SubSeq(s, r, m) \in Seq(Nat)
      /\ Len(SubSeq(s, r, m)) = IF r <= m THEN m - r + 1 ELSE 0
      /\ \A i \in 1..(m - r + 1) : SubSeq(s, r, m)[i] = s[r + i - 1]
  BY <1>3, SubSeqProperties
<1>8. r = 1
  BY DEF r
<1> QED BY <1>4, <1>5, <1>6, <1>7, <1>8

\* The elements of a list with new ones in the middle.
LEMMA PutAtElements ==
  ASSUME NEW s \in Seq(Nat), NEW new \in Seq(Nat), NEW m \in 0..Len(s)
  PROVE  LET t == PutIn(s, m, new)
             k == Len(new)
         IN  /\ t \in Seq(Nat) /\ Len(t) = Len(s) + k
             /\ \A n \in 1..m : t[n] = s[n]
             /\ \A j \in 1..k : t[m + j] = new[j]
             /\ \A n \in (m + 1)..Len(s) : t[n + k] = s[n]
<1> DEFINE x == SubSeq(s, 1, m)
           z == SubSeq(s, m + 1, Len(s))
           k == Len(new)
           xy == x \o new
           t == xy \o z
<1>3. k \in Nat /\ Len(s) \in Nat
  BY LenProperties
<1>a. \A i \in 1..Len(s) : s[i] \in Nat
  BY ElementOfSeq
<1>1. x \in Seq(Nat) /\ Len(x) = m /\ \A n \in 1..m : x[n] = s[n]
  BY PrefixElements DEF Prefix
<1>2. /\ z \in Seq(Nat) /\ Len(z) = Len(s) - m
      /\ \A n \in 1..(Len(s) - m) : z[n] = s[m + n]
  <2> DEFINE r == m + 1
             N == Len(s)
  <2>1. r \in Int /\ N \in Int /\ \A i \in r..N : s[i] \in Nat
    BY <1>3, <1>a
  <2>2. /\ N - r + 1 = N - m /\ \A i \in 1..(N - m) : r + i - 1 = m + i
        /\ (r <= N \/ N - m = 0)
    BY <1>3
  <2> HIDE DEF r, N
  <2>3. /\ SubSeq(s, r, N) \in Seq(Nat)
        /\ Len(SubSeq(s, r, N)) = IF r <= N THEN N - r + 1 ELSE 0
        /\ \A i \in 1..(N - r + 1) : SubSeq(s, r, N)[i] = s[r + i - 1]
    BY <2>1, SubSeqProperties
  <2>4. /\ SubSeq(s, r, N) \in Seq(Nat) /\ Len(SubSeq(s, r, N)) = N - m
        /\ \A i \in 1..(N - m) : SubSeq(s, r, N)[i] = s[m + i]
    BY <2>1, <2>2, <2>3 DEF r
  <2> QED BY <2>4 DEF r, N
<1> HIDE DEF x, z
<1>4. /\ xy \in Seq(Nat) /\ Len(xy) = m + k
      /\ \A n \in 1..m : xy[n] = s[n]
      /\ \A j \in 1..k : xy[m + j] = new[j]
  <2>1. /\ xy \in Seq(Nat) /\ Len(xy) = Len(x) + Len(new)
        /\ \A i \in 1..(Len(x) + Len(new)) :
             xy[i] = IF i <= Len(x) THEN x[i] ELSE new[i - Len(x)]
    BY <1>1, ConcatProperties
  <2>2. /\ \A n \in 1..m : n \in 1..(m + k) /\ n <= m
        /\ \A j \in 1..k : m + j \in 1..(m + k) /\ ~(m + j <= m) /\ m + j - m = j
    BY <1>3
  <2> HIDE DEF xy, k
  <2>3. \A i \in 1..(m + k) : xy[i] = IF i <= m THEN x[i] ELSE new[i - m]
    BY <1>1, <2>1 DEF k
  <2>4. xy \in Seq(Nat) /\ Len(xy) = m + k
    BY <1>1, <2>1 DEF k
  <2>5. ASSUME NEW n \in 1..m
        PROVE  xy[n] = s[n]
    <3>1. xy[n] = x[n]
      BY <2>2, <2>3
    <3> QED BY <1>1, <3>1
  <2>6. ASSUME NEW j \in 1..k
        PROVE  xy[m + j] = new[j]
    <3> DEFINE i == m + j
    <3>1. i \in 1..(m + k) /\ ~(i <= m) /\ i - m = j
      BY <2>2
    <3> HIDE DEF i
    <3>2. xy[i] = new[j]
      BY <2>3, <3>1
    <3> QED BY <3>2 DEF i
  <2> QED BY <2>4, <2>5, <2>6
<1> HIDE DEF xy
<1> DEFINE N == Len(s)
<1>b. /\ t \in Seq(Nat) /\ Len(t) = Len(xy) + Len(z)
      /\ \A i \in 1..(Len(xy) + Len(z)) :
           t[i] = IF i <= Len(xy) THEN xy[i] ELSE z[i - Len(xy)]
  BY <1>2, <1>4, ConcatProperties
<1>c. Len(xy) = m + k /\ Len(z) = N - m /\ k \in Nat /\ N \in Nat /\ m \in 0..N
  BY <1>2, <1>3, <1>4
<1> HIDE DEF t, k, N
<1>d. /\ m + k + (N - m) = N + k
      /\ \A n \in 1..(m + k) : n \in 1..(N + k) /\ n <= m + k
      /\ \A n \in 1..(N - m) : /\ m + k + n \in 1..(N + k)
                              /\ ~(m + k + n <= m + k)
                              /\ m + k + n - (m + k) = n
  BY <1>c
<1>e. /\ Len(t) = N + k
      /\ \A i \in 1..(N + k) : t[i] = IF i <= m + k THEN xy[i] ELSE z[i - (m + k)]
  BY <1>b, <1>c, <1>d
<1>5. t \in Seq(Nat) /\ Len(t) = Len(s) + k
  BY <1>b, <1>e DEF N
<1>6. /\ \A n \in 1..(m + k) : t[n] = xy[n]
      /\ \A n \in 1..(Len(s) - m) : t[m + k + n] = z[n]
  <2>1. \A n \in 1..(m + k) : t[n] = xy[n]
    BY <1>d, <1>e
  <2>2. ASSUME NEW n \in 1..(N - m)
        PROVE  t[m + k + n] = z[n]
    <3> DEFINE i == m + k + n
    <3>1. i \in 1..(N + k) /\ ~(i <= m + k) /\ i - (m + k) = n
      BY <1>c
    <3> HIDE DEF i
    <3>2. t[i] = z[n]
      BY <1>e, <3>1
    <3> QED BY <3>2 DEF i
  <2> QED BY <2>1, <2>2 DEF N
<1>f. \A n \in 1..m : n \in 1..(m + k)
  BY <1>c
<1>g. \A j \in 1..k : m + j \in 1..(m + k)
  BY <1>c
<1>7. ASSUME NEW n \in 1..m
      PROVE  t[n] = s[n]
  <2>1. xy[n] = s[n]
    BY <1>4
  <2>2. t[n] = xy[n]
    BY <1>6, <1>f
  <2> QED BY <2>1, <2>2
<1>8. ASSUME NEW j \in 1..k
      PROVE  t[m + j] = new[j]
  <2> DEFINE n == m + j
  <2>1. n \in 1..(m + k) /\ xy[n] = new[j]
    BY <1>4, <1>g DEF k
  <2> HIDE DEF n
  <2>2. t[n] = xy[n]
    BY <1>6, <2>1
  <2> QED BY <2>1, <2>2 DEF n
<1>9. ASSUME NEW n \in (m + 1)..Len(s)
      PROVE  t[n + k] = s[n]
  <2>1. n - m \in 1..(Len(s) - m) /\ m + k + (n - m) = n + k /\ m + (n - m) = n
    BY <1>3
  <2> QED BY <1>2, <1>6, <2>1
<1> QED BY <1>5, <1>7, <1>8, <1>9 DEF t, xy, x, z, k, PutIn

\* New instructions in a window between two members, with what is behind the
\* window moved up or not: the block shows the list with them in that place.
Inserted(b, d, N, f, new, m, k, from, delta) ==
    /\ Live(b) \in SUBSET Nat /\ Live(d) \in SUBSET Nat
    /\ N \in Nat /\ Ascends(f, N, Live(b))
    /\ \A p \in Live(b) : b.slot[p] \in Nat
    /\ new \in Seq(Nat) /\ m \in 0..N /\ k \in Nat /\ Len(new) = k
    /\ from \in Nat /\ delta \in Nat
    /\ \A n \in 1..m : f[n] < from
    /\ \A n \in (m + 1)..N : f[n] + delta >= from + k
    /\ \A n \in 1..m : f[n] \in Live(d) /\ d.slot[f[n]] = b.slot[f[n]]
    /\ \A j \in 1..k : /\ from + j - 1 \in Live(d)
                       /\ d.slot[from + j - 1] = new[j]
    /\ \A n \in (m + 1)..N : /\ f[n] + delta \in Live(d)
                             /\ d.slot[f[n] + delta] = b.slot[f[n]]
    /\ \A q \in Live(d) : \/ \E n \in 1..m : q = f[n]
                          \/ q \in from..(from + k - 1)
                          \/ \E n \in (m + 1)..N : q = f[n] + delta

LEMMA InsertedAt ==
  ASSUME NEW b, NEW d, NEW N, NEW f, NEW new, NEW m, NEW k, NEW from,
         NEW delta, Inserted(b, d, N, f, new, m, k, from, delta)
  PROVE  /\ Len(Instrs(b)) = N
         /\ Instrs(d) = PutIn(Instrs(b), m, new)
<1>n. /\ N \in Nat /\ m \in 0..N /\ m \in Nat /\ k \in Nat
      /\ from \in Nat /\ delta \in Nat
  BY DEF Inserted
<1>o. /\ Live(b) \in SUBSET Nat /\ Live(d) \in SUBSET Nat
      /\ Ascends(f, N, Live(b)) /\ \A p \in Live(b) : b.slot[p] \in Nat
      /\ new \in Seq(Nat) /\ Len(new) = k
  BY DEF Inserted
<1>p. /\ \A n \in 1..m : f[n] < from
      /\ \A n \in (m + 1)..N : f[n] + delta >= from + k
  BY DEF Inserted
<1>q. /\ \A n \in 1..m : f[n] \in Live(d) /\ d.slot[f[n]] = b.slot[f[n]]
      /\ \A j \in 1..k : /\ from + j - 1 \in Live(d)
                         /\ d.slot[from + j - 1] = new[j]
      /\ \A n \in (m + 1)..N : /\ f[n] + delta \in Live(d)
                               /\ d.slot[f[n] + delta] = b.slot[f[n]]
  BY DEF Inserted
<1>r. \A q \in Live(d) : \/ \E n \in 1..m : q = f[n]
                        \/ q \in from..(from + k - 1)
                        \/ \E n \in (m + 1)..N : q = f[n] + delta
  BY DEF Inserted
<1> USE <1>n
<1> DEFINE g == [n \in 1..(N + k) |-> IF n <= m THEN f[n]
                                      ELSE IF n <= m + k THEN from + (n - m) - 1
                                      ELSE f[n - k] + delta]
           s == Instrs(b)
           t == PutIn(s, m, new)
<1>1. /\ f \in [1..N -> Live(b)]
      /\ \A i, j \in 1..N : i < j => f[i] < f[j]
      /\ \A n \in 1..N : f[n] \in Nat
  <2>1. f \in [1..N -> Live(b)] /\ \A i, j \in 1..N : i < j => f[i] < f[j]
    BY <1>o DEF Ascends
  <2>2. \A n \in 1..N : f[n] \in Live(b)
    BY <2>1
  <2> QED BY <1>o, <2>1, <2>2
<1>2. /\ \A n \in 1..m : n \in 1..(N + k) /\ g[n] = f[n]
      /\ \A j \in 1..k : m + j \in 1..(N + k) /\ g[m + j] = from + j - 1
      /\ \A n \in (m + 1)..N : n + k \in 1..(N + k) /\ g[n + k] = f[n] + delta
  OBVIOUS
<1>3. \A n \in 1..(N + k) : \/ n \in 1..m
                            \/ \E j \in 1..k : n = m + j
                            \/ \E i \in (m + 1)..N : n = i + k
  <2> SUFFICES ASSUME NEW n \in 1..(N + k)
               PROVE  \/ n \in 1..m \/ \E j \in 1..k : n = m + j
                      \/ \E i \in (m + 1)..N : n = i + k
    OBVIOUS
  <2>1. CASE n <= m
    BY <2>1
  <2>2. CASE n > m /\ n <= m + k
    <3>1. n - m \in 1..k /\ n = m + (n - m)
      BY <2>2
    <3> QED BY <3>1
  <2>3. CASE n > m + k
    <3>1. n - k \in (m + 1)..N /\ n = (n - k) + k
      BY <2>3
    <3> QED BY <3>1
  <2> QED BY <2>1, <2>2, <2>3
<1> HIDE DEF g
<1>4. ASSUME NEW n \in 1..(N + k)
      PROVE  g[n] \in Live(d)
  <2>1. CASE n \in 1..m
    BY <1>2, <1>q, <2>1
  <2>2. ASSUME NEW j \in 1..k, n = m + j
        PROVE  g[n] \in Live(d)
    <3>1. g[n] = from + j - 1
      BY <1>2, <2>2
    <3> QED BY <1>q, <3>1
  <2>3. ASSUME NEW i \in (m + 1)..N, n = i + k
        PROVE  g[n] \in Live(d)
    <3>1. g[n] = f[i] + delta
      BY <1>2, <2>3
    <3> QED BY <1>q, <3>1
  <2> QED BY <1>3, <2>1, <2>2, <2>3
<1>5. ASSUME NEW i \in 1..(N + k), NEW j \in 1..(N + k), i < j
      PROVE  g[i] < g[j]
  <2> DEFINE lower(n) == n \in 1..m /\ g[n] = f[n] /\ f[n] \in Nat /\ f[n] < from
             inside(n) == /\ n \in (m + 1)..(m + k) /\ g[n] = from + (n - m) - 1
             upper(n) == /\ n \in (m + k + 1)..(N + k) /\ n - k \in (m + 1)..N
                         /\ g[n] = f[n - k] + delta /\ f[n - k] \in Nat
                         /\ f[n - k] + delta >= from + k
  <2>1. ASSUME NEW n \in 1..(N + k)
        PROVE  lower(n) \/ inside(n) \/ upper(n)
    <3>1. CASE n \in 1..m
      <4>1. n \in 1..N
        BY <3>1
      <4> QED BY <1>1, <1>2, <1>p, <3>1, <4>1
    <3>2. ASSUME NEW x \in 1..k, n = m + x
          PROVE  inside(n)
      <4>1. n - m = x /\ n \in (m + 1)..(m + k)
        BY <3>2
      <4> QED BY <1>2, <3>2, <4>1
    <3>3. ASSUME NEW x \in (m + 1)..N, n = x + k
          PROVE  upper(n)
      <4>1. n - k = x /\ n \in (m + k + 1)..(N + k) /\ x \in 1..N
        BY <3>3
      <4> QED BY <1>1, <1>2, <1>p, <3>3, <4>1
    <3> QED BY <1>3, <3>1, <3>2, <3>3
  <2>2. CASE lower(i) /\ lower(j)
    <3>1. i \in 1..N /\ j \in 1..N
      BY <2>2
    <3> QED BY <1>1, <1>5, <2>2, <3>1
  <2>3. CASE upper(i) /\ upper(j)
    <3>1. i - k \in 1..N /\ j - k \in 1..N /\ i - k < j - k
      BY <1>5, <2>3
    <3>2. f[i - k] < f[j - k]
      BY <1>1, <3>1
    <3> QED BY <2>3, <3>2
  <2>4. CASE inside(i) /\ inside(j)
    BY <1>5, <2>4
  <2>5. CASE lower(i) /\ inside(j)
    <3>1. g[i] \in Nat /\ g[i] < from /\ j - m >= 1 /\ j - m \in Nat
      BY <2>5
    <3>2. g[j] = from + (j - m) - 1
      BY <2>5
    <3> HIDE DEF lower, inside, upper
    <3> QED BY <3>1, <3>2
  <2>6. CASE lower(i) /\ upper(j)
    BY <2>6
  <2>7. CASE inside(i) /\ upper(j)
    BY <2>7
  <2>8. /\ ~(inside(i) /\ lower(j)) /\ ~(upper(i) /\ lower(j))
        /\ ~(upper(i) /\ inside(j))
    BY <1>5
  <2> HIDE DEF lower, inside, upper
  <2> QED BY <2>1, <2>2, <2>3, <2>4, <2>5, <2>6, <2>7, <2>8
<1>6. ASSUME NEW q \in Live(d)
      PROVE  \E n \in 1..(N + k) : g[n] = q
  <2>1. ASSUME NEW n \in 1..m, q = f[n]
        PROVE  \E x \in 1..(N + k) : g[x] = q
    BY <1>2, <2>1
  <2>2. ASSUME q \in from..(from + k - 1)
        PROVE  \E x \in 1..(N + k) : g[x] = q
    <3> DEFINE j == q - from + 1
    <3>1. j \in 1..k /\ from + j - 1 = q
      BY <2>2
    <3> HIDE DEF j
    <3>2. m + j \in 1..(N + k) /\ g[m + j] = from + j - 1
      BY <1>2, <3>1
    <3> QED BY <3>1, <3>2
  <2>3. ASSUME NEW n \in (m + 1)..N, q = f[n] + delta
        PROVE  \E x \in 1..(N + k) : g[x] = q
    <3>1. n + k \in 1..(N + k) /\ g[n + k] = q
      BY <1>2, <2>3
    <3> QED BY <3>1
  <2> QED BY <1>r, <2>1, <2>2, <2>3
<1>7. Ascends(g, N + k, Live(d))
  <2>1. g \in [1..(N + k) -> Live(d)]
    BY <1>4 DEF g
  <2> QED BY <1>5, <1>6, <2>1 DEF Ascends
<1>8. Instrs(d) = [n \in 1..(N + k) |-> d.slot[g[n]]]
  <2> DEFINE M == N + k
  <2>1. M \in Nat /\ Live(d) \in SUBSET Nat /\ Ascends(g, M, Live(d))
    BY <1>7, <1>o
  <2> HIDE DEF M
  <2>2. Instrs(d) = [n \in 1..M |-> d.slot[g[n]]]
    BY <2>1, Shown
  <2> QED BY <2>2 DEF M
<1>9. s = [n \in 1..N |-> b.slot[f[n]]]
  <2>1. Live(b) \in SUBSET Nat /\ N \in Nat /\ Ascends(f, N, Live(b))
    BY <1>o
  <2> QED BY <2>1, Shown
<1>10. /\ s \in Seq(Nat) /\ Len(s) = N /\ \A n \in 1..N : s[n] = b.slot[f[n]]
  <2>1. \A n \in 1..N : b.slot[f[n]] \in Nat
    BY <1>1, <1>o DEF Ascends
  <2> QED BY <1>9, <2>1
<1> HIDE DEF s
<1>11. /\ t \in Seq(Nat) /\ Len(t) = N + k
       /\ \A n \in 1..m : t[n] = s[n]
       /\ \A j \in 1..k : t[m + j] = new[j]
       /\ \A n \in (m + 1)..N : t[n + k] = s[n]
  <2>1. /\ t \in Seq(Nat) /\ Len(t) = Len(s) + Len(new)
        /\ \A n \in 1..m : t[n] = s[n]
        /\ \A j \in 1..Len(new) : t[m + j] = new[j]
        /\ \A n \in (m + 1)..Len(s) : t[n + Len(new)] = s[n]
    <3>1. m \in 0..Len(s)
      BY <1>10
    <3>2. s \in Seq(Nat)
      BY <1>10
    <3> QED BY <1>o, <3>1, <3>2, PutAtElements, Zenon
  <2> HIDE DEF t
  <2> QED BY <1>10, <1>o, <2>1
<1> HIDE DEF t
<1>12. ASSUME NEW n \in 1..(N + k)
       PROVE  d.slot[g[n]] = t[n]
  <2>1. CASE n \in 1..m
    <3>0. n \in 1..N
      BY <2>1
    <3>1. n \in 1..N /\ s[n] = b.slot[f[n]]
      BY <1>10, <3>0
    <3>2. g[n] = f[n] /\ t[n] = s[n] /\ d.slot[f[n]] = b.slot[f[n]]
      BY <1>2, <1>11, <1>q, <2>1
    <3> QED BY <3>1, <3>2
  <2>2. ASSUME NEW j \in 1..k, n = m + j
        PROVE  d.slot[g[n]] = t[n]
    <3>1. g[m + j] = from + j - 1 /\ t[m + j] = new[j]
      BY <1>2, <1>11
    <3>2. d.slot[from + j - 1] = new[j]
      BY <1>q
    <3> QED BY <2>2, <3>1, <3>2
  <2>3. ASSUME NEW i \in (m + 1)..N, n = i + k
        PROVE  d.slot[g[n]] = t[n]
    <3>1. i \in 1..N /\ s[i] = b.slot[f[i]]
      BY <1>10
    <3>2. g[i + k] = f[i] + delta /\ t[i + k] = s[i]
      BY <1>2, <1>11
    <3>3. d.slot[f[i] + delta] = b.slot[f[i]]
      BY <1>q
    <3> QED BY <2>3, <3>1, <3>2, <3>3
  <2> QED BY <1>3, <2>1, <2>2, <2>3
<1>13. Instrs(d) = t
  <2>1. t = [n \in 1..(N + k) |-> t[n]]
    BY <1>11
  <2> QED BY <1>8, <1>12, <2>1
<1> QED BY <1>10, <1>13 DEF s, t

\* A block cut off behind the first m of its visible positions.
LEMMA CutAt ==
  ASSUME NEW b, NEW d, Live(b) \in SUBSET Nat, Live(d) \in SUBSET Nat,
         NEW N \in Nat, NEW f, Ascends(f, N, Live(b)), NEW m \in 0..N,
         \A p \in Live(b) : b.slot[p] \in Nat,
         \A n \in 1..m : f[n] \in Live(d) /\ d.slot[f[n]] = b.slot[f[n]],
         \A q \in Live(d) : \E n \in 1..m : q = f[n]
  PROVE  Instrs(d) = Prefix(Instrs(b), m)
<1> DEFINE g == [n \in 1..m |-> f[n]]
<1>1. \A n \in 1..m : n \in 1..N /\ g[n] = f[n]
  OBVIOUS
<1>2. \A i, j \in 1..m : i < j => g[i] < g[j]
  BY <1>1 DEF Ascends
<1>3. Ascends(g, m, Live(d))
  BY <1>2 DEF Ascends
<1> HIDE DEF g
<1>4. Instrs(d) = [n \in 1..m |-> d.slot[g[n]]]
  BY <1>3, Shown
<1>5. Instrs(b) = [n \in 1..N |-> b.slot[f[n]]]
  BY Shown
<1>6. Instrs(d) = [n \in 1..m |-> Instrs(b)[n]]
  <2>1. \A n \in 1..m : d.slot[g[n]] = Instrs(b)[n]
    BY <1>1, <1>5
  <2> QED BY <1>4, <2>1
<1>7. /\ Instrs(b) \in Seq(Nat) /\ Len(Instrs(b)) = N
  <2>1. \A n \in 1..N : b.slot[f[n]] \in Nat
    BY DEF Ascends
  <2> QED BY <1>5, <2>1
<1> DEFINE s == Instrs(b)
           t == Instrs(d)
<1>8. t \in Seq(Nat) /\ Len(t) = m /\ \A n \in 1..m : t[n] = s[n]
  <2>1. \A n \in 1..m : n \in 1..N /\ s[n] \in Nat
    BY <1>7, ElementOfSeq
  <2> HIDE DEF s, t
  <2>2. t = [n \in 1..m |-> s[n]]
    BY <1>6 DEF s, t
  <2> QED BY <2>1, <2>2
<1> HIDE DEF s, t
<1>9. Prefix(s, m) = t
  <2>1. s \in Seq(Nat) /\ Len(s) = N
    BY <1>7 DEF s
  <2>2. /\ Prefix(s, m) \in Seq(Nat) /\ Len(Prefix(s, m)) = m
        /\ \A n \in 1..m : Prefix(s, m)[n] = s[n]
    BY <2>1, PrefixElements
  <2> HIDE DEF s
  <2> QED BY <1>8, <2>2, SeqEqual
<1> QED BY <1>9 DEF s, t

\* Another instruction at the n-th of the visible positions.
Exchanged(b, d, N, f, m, x) ==
    /\ Live(b) \in SUBSET Nat /\ Live(d) = Live(b)
    /\ N \in Nat /\ Ascends(f, N, Live(b)) /\ m \in 1..N
    /\ \A p \in Live(b) : d.slot[p] = IF p = f[m] THEN x ELSE b.slot[p]

LEMMA ReplacedAt ==
  ASSUME NEW b, NEW d, NEW N, NEW f, NEW m, NEW x,
         Exchanged(b, d, N, f, m, x)
  PROVE  Instrs(d) = [Instrs(b) EXCEPT ![m] = x]
<1> USE DEF Exchanged
<1>1. Instrs(b) = [n \in 1..N |-> b.slot[f[n]]]
  BY Shown
<1>2. Instrs(d) = [n \in 1..N |-> d.slot[f[n]]]
  BY Shown
<1>3. \A n \in 1..N : f[n] \in Live(b) /\ (f[n] = f[m] => n = m)
  <2>1. \A n \in 1..N : f[n] \in Live(b) /\ f[n] \in Nat
    BY DEF Ascends
  <2>2. \A i, j \in 1..N : i < j => f[i] < f[j]
    BY DEF Ascends
  <2>3. ASSUME NEW n \in 1..N, f[n] = f[m]
        PROVE  n = m
    <3>1. ~(f[n] < f[m]) /\ ~(f[m] < f[n])
      BY <2>1, <2>3
    <3>2. ~(n < m) /\ ~(m < n)
      BY <2>2, <3>1
    <3> QED BY <3>2
  <2> QED BY <2>1, <2>3
<1>4. \A n \in 1..N : d.slot[f[n]] = IF n = m THEN x ELSE b.slot[f[n]]
  BY <1>3
<1>5. [Instrs(b) EXCEPT ![m] = x] =
        [n \in 1..N |-> IF n = m THEN x ELSE b.slot[f[n]]]
  BY <1>1
<1>6. Instrs(d) = [n \in 1..N |-> IF n = m THEN x ELSE b.slot[f[n]]]
  BY <1>2, <1>4
<1> QED BY <1>5, <1>6

-----------------------------------------------------------------------------
\* The invariant of a block under disciplined callers: it is sound, nothing is
\* behind the pointer, and the dictionary has one entry for each position.
Visible(b) == \A p \in DOMAIN b.slot : p < b.pointer
Indexed(b) ==
    /\ \A i, j \in DOMAIN b.index : b.index[i] = b.index[j] => i = j
    /\ \A p \in DOMAIN b.slot : \E i \in DOMAIN b.index : b.index[i] = p
BlockInv(b, c) == Sound(b, c) /\ Visible(b) /\ Indexed(b)

CallsInv == created \in Nat /\ BlockInv(block, created)

\* Of a block with the invariant every position is visible, and the visible
\* positions can be enumerated.
LEMMA Enumerated ==
  ASSUME NEW c \in Nat, NEW b, BlockInv(b, c)
  PROVE  /\ Live(b) = DOMAIN b.slot /\ Live(b) \in SUBSET Nat
         /\ IsFiniteSet(Live(b)) /\ Cardinality(Live(b)) \in Nat
         /\ \A p \in Live(b) : b.slot[p] \in 1..c
         /\ \E f : Ascends(f, Cardinality(Live(b)), Live(b))
<1>1. Live(b) = DOMAIN b.slot
  BY DEF Live, BlockInv, Visible
<1>2. \A p \in DOMAIN b.slot : p \in Nat /\ b.slot[p] \in 1..c
  BY PartsOfBlock DEF BlockInv, Sound
<1>3. Live(b) \in SUBSET Nat
  BY <1>1, <1>2
<1>4. IsFiniteSet(Live(b))
  <2>1. PICK n \in Nat : \A p \in DOMAIN b.slot : p <= n
    BY DEF BlockInv, Sound, Bounded
  <2> QED BY <1>1, <1>3, <2>1, FS_BoundedSetOfNaturals
<1>5. /\ Cardinality(Live(b)) \in Nat
      /\ \E f : Ascends(f, Cardinality(Live(b)), Live(b))
  BY <1>3, <1>4, AtAscends
<1> QED BY <1>1, <1>2, <1>3, <1>4, <1>5

\* A dictionary that is rebuilt has one entry for each position.
LEMMA RebuiltIndexed ==
  ASSUME NEW slot, \A p, q \in DOMAIN slot : slot[p] = slot[q] => p = q,
         NEW pointer
  PROVE  Indexed([slot |-> slot, pointer |-> pointer,
                  index |-> IndexOfSlots(slot)])
<1> DEFINE index == IndexOfSlots(slot)
<1>1. /\ DOMAIN index = {slot[p] : p \in DOMAIN slot}
      /\ \A p \in DOMAIN slot : index[slot[p]] = p
  BY RebuiltIndex
<1> HIDE DEF index
<1>2. Indexed([slot |-> slot, pointer |-> pointer, index |-> index])
  BY <1>1 DEF Indexed
<1> QED BY <1>2 DEF index

\* Instructions placed over free positions below the new pointer.
LEMMA PlaceInserts ==
  ASSUME NEW c \in Nat, NEW k \in Nat, NEW b, BlockInv(b, c),
         NEW from \in Nat, WindowFree(b, from, k),
         NEW pointer \in Nat, b.pointer <= pointer, from + k <= pointer,
         NEW f, Ascends(f, Cardinality(Live(b)), Live(b)),
         NEW m \in 0..Cardinality(Live(b)),
         \A n \in 1..m : f[n] < from,
         \A n \in (m + 1)..Cardinality(Live(b)) : f[n] >= from
  PROVE  LET new == NewInstrs(c, k)
             d == [Place(b, new, from) EXCEPT !.pointer = pointer]
         IN  /\ BlockInv(d, c + k)
             /\ Instrs(d) = PutIn(Instrs(b), m, new)
<1> DEFINE new == NewInstrs(c, k)
           d == [Place(b, new, from) EXCEPT !.pointer = pointer]
           window == from..(from + k - 1)
           N == Cardinality(Live(b))
<1>1. /\ new \in Seq(Nat) /\ Len(new) = k /\ \A j \in 1..k : new[j] = c + j
      /\ Elems(new) = (c + 1)..(c + k)
  BY NewInstrsAre
<1>2. Sound(d, c + k)
  BY PlaceSound DEF BlockInv
<1>3. /\ b = [slot |-> b.slot, pointer |-> b.pointer, index |-> b.index]
      /\ \A p \in DOMAIN b.slot : p \in Nat /\ b.slot[p] \in 1..c
      /\ b.pointer \in Nat
      /\ \A i \in DOMAIN b.index : i \in 1..c /\ b.index[i] \in Nat
  BY PartsOfBlock DEF BlockInv, Sound
<1> HIDE DEF new
<1>4. /\ d.slot = [p \in DOMAIN b.slot \cup window |->
                     IF p \in window THEN new[p - from + 1] ELSE b.slot[p]]
      /\ d.pointer = pointer
      /\ d.index = [i \in DOMAIN b.index \cup Elems(new) |->
                      IF i \in DOMAIN b.index THEN b.index[i]
                      ELSE from - 1 + CHOOSE j \in 1..Len(new) : new[j] = i]
  BY <1>1, <1>3 DEF Place
<1> HIDE DEF d
<1>5. \A p \in DOMAIN b.slot : p \notin window
  BY DEF WindowFree
<1>6. /\ DOMAIN d.slot = DOMAIN b.slot \cup window
      /\ \A p \in DOMAIN b.slot : d.slot[p] = b.slot[p]
      /\ \A j \in 1..k : from + j - 1 \in window /\ d.slot[from + j - 1] = new[j]
  <2>1. \A j \in 1..k : /\ from + j - 1 \in window
                        /\ (from + j - 1) - from + 1 = j
    OBVIOUS
  <2> QED BY <1>4, <1>5, <2>1
<1>7. Visible(d)
  <2>1. \A p \in DOMAIN b.slot : p < pointer
    BY <1>3 DEF BlockInv, Visible
  <2>2. \A p \in window : p < pointer
    OBVIOUS
  <2> QED BY <1>4, <1>6, <2>1, <2>2 DEF Visible
<1>8. /\ DOMAIN d.index = DOMAIN b.index \cup (c + 1)..(c + k)
      /\ \A i \in DOMAIN b.index : d.index[i] = b.index[i]
      /\ \A i \in (c + 1)..(c + k) : d.index[i] = from - 1 + (i - c)
  <2>1. ASSUME NEW i \in (c + 1)..(c + k)
        PROVE  i \notin DOMAIN b.index
               /\ (CHOOSE j \in 1..Len(new) : new[j] = i) = i - c
    <3>1. i \notin DOMAIN b.index
      BY <1>3
    <3>2. i - c \in 1..k
      OBVIOUS
    <3>3. \A j \in 1..k : new[j] = i <=> j = i - c
      BY <1>1
    <3>4. (CHOOSE j \in 1..k : new[j] = i) = i - c
      BY <3>2, <3>3
    <3> QED BY <1>1, <3>1, <3>4
  <2>2. DOMAIN d.index = DOMAIN b.index \cup (c + 1)..(c + k)
    BY <1>1, <1>4
  <2>3. \A i \in DOMAIN b.index : d.index[i] = b.index[i]
    BY <1>4
  <2>4. ASSUME NEW i \in (c + 1)..(c + k)
        PROVE  d.index[i] = from - 1 + (i - c)
    <3>1. i \in Elems(new) /\ i \notin DOMAIN b.index
      BY <1>1, <2>1
    <3>2. d.index[i] = from - 1 + CHOOSE j \in 1..Len(new) : new[j] = i
      BY <1>4, <3>1
    <3> QED BY <2>1, <3>2
  <2> QED BY <2>2, <2>3, <2>4
<1>9. Indexed(d)
  <2>1. \A i \in DOMAIN b.index : d.index[i] \in DOMAIN b.slot
    BY <1>8 DEF BlockInv, Sound, IndexSound
  <2>2. \A i \in (c + 1)..(c + k) : d.index[i] \in window
    BY <1>8
  <2>3. ASSUME NEW i \in DOMAIN d.index, NEW j \in DOMAIN d.index,
               d.index[i] = d.index[j]
        PROVE  i = j
    <3>1. CASE i \in DOMAIN b.index /\ j \in DOMAIN b.index
      BY <1>8, <2>3, <3>1 DEF BlockInv, Indexed
    <3>2. CASE i \in (c + 1)..(c + k) /\ j \in (c + 1)..(c + k)
      <4>1. from - 1 + (i - c) = from - 1 + (j - c)
        BY <1>8, <2>3, <3>2
      <4> QED BY <3>2, <4>1
    <3>3. ~(i \in DOMAIN b.index /\ j \in (c + 1)..(c + k))
      BY <1>5, <2>1, <2>2, <2>3
    <3>4. ~(j \in DOMAIN b.index /\ i \in (c + 1)..(c + k))
      BY <1>5, <2>1, <2>2, <2>3
    <3> QED BY <1>8, <3>1, <3>2, <3>3, <3>4
  <2>4. ASSUME NEW p \in DOMAIN d.slot
        PROVE  \E i \in DOMAIN d.index : d.index[i] = p
    <3>1. CASE p \in DOMAIN b.slot
      <4>1. PICK i \in DOMAIN b.index : b.index[i] = p
        BY <3>1 DEF BlockInv, Indexed
      <4> QED BY <1>8, <4>1
    <3>2. CASE p \in window
      <4> DEFINE i == c + (p - from) + 1
      <4>1. i \in (c + 1)..(c + k) /\ from - 1 + (i - c) = p
        BY <3>2
      <4> HIDE DEF i
      <4> QED BY <1>8, <4>1
    <3> QED BY <1>6, <3>1, <3>2
  <2> QED BY <2>3, <2>4 DEF Indexed
<1>10. BlockInv(d, c + k)
  BY <1>2, <1>7, <1>9 DEF BlockInv
<1>11. /\ Live(b) = DOMAIN b.slot /\ Live(b) \in SUBSET Nat /\ N \in Nat
       /\ \A p \in Live(b) : b.slot[p] \in 1..c
  BY Enumerated
<1>12. Live(d) = DOMAIN d.slot /\ Live(d) \in SUBSET Nat
  <2>1. c + k \in Nat
    OBVIOUS
  <2> QED BY <1>10, <2>1, Enumerated
<1>13. \A n \in 1..N : f[n] \in Live(b)
  BY DEF Ascends
<1>14. Instrs(d) = PutIn(Instrs(b), m, new)
  <2> HIDE DEF N, window
  <2>1. \A p \in Live(b) : b.slot[p] \in Nat
    BY <1>11
  <2>2. \A n \in 1..m : f[n] \in Live(d) /\ d.slot[f[n]] = b.slot[f[n]]
    <3>1. \A n \in 1..m : n \in 1..N
      BY <1>11 DEF N
    <3> QED BY <1>6, <1>11, <1>12, <1>13, <3>1
  <2>3. \A j \in 1..k : /\ from + j - 1 \in Live(d)
                        /\ d.slot[from + j - 1] = new[j]
    BY <1>6, <1>12
  <2>4. ASSUME NEW n \in (m + 1)..N
        PROVE  /\ f[n] + 0 \in Live(d) /\ d.slot[f[n] + 0] = b.slot[f[n]]
               /\ f[n] + 0 >= from + k
    <3>1. n \in 1..N /\ f[n] >= from
      BY <1>11 DEF N
    <3>2. f[n] \in DOMAIN b.slot /\ f[n] \in Nat
      BY <1>11, <1>13, <3>1
    <3>3. f[n] + 0 = f[n] /\ f[n] \notin window
      BY <1>5, <3>2
    <3>4. f[n] >= from + k
      BY <3>1, <3>2, <3>3 DEF window
    <3> QED BY <1>6, <1>12, <3>2, <3>3, <3>4
  <2> DEFINE z == 0
  <2>a. z \in Nat
    OBVIOUS
  <2>b. \A n \in (m + 1)..N : f[n] + z >= from + k
    BY <2>4
  <2>c. \A n \in (m + 1)..N : /\ f[n] + z \in Live(d)
                              /\ d.slot[f[n] + z] = b.slot[f[n]]
    BY <2>4
  <2>5. ASSUME NEW q \in Live(d)
        PROVE  \/ \E n \in 1..m : q = f[n]
               \/ q \in from..(from + k - 1)
               \/ \E n \in (m + 1)..N : q = f[n] + 0
    <3>1. CASE q \in window
      BY <3>1 DEF window
    <3>2. CASE q \in Live(b)
      <4>1. PICK n \in 1..N : f[n] = q
        BY <3>2 DEF Ascends, N
      <4>2. f[n] \in Nat /\ f[n] + 0 = f[n]
        BY <1>11, <3>2, <4>1
      <4>3. n \in 1..m \/ n \in (m + 1)..N
        BY <1>11 DEF N
      <4> QED BY <4>1, <4>2, <4>3
    <3> QED BY <1>6, <1>11, <1>12, <3>1, <3>2
  <2>6. Ascends(f, N, Live(b)) /\ m \in 0..N /\ N \in Nat
    BY <1>11 DEF N
  <2>7. \A q \in Live(d) : \/ \E n \in 1..m : q = f[n]
                           \/ q \in from..(from + k - 1)
                           \/ \E n \in (m + 1)..N : q = f[n] + z
    BY <2>5
  <2>8. \A n \in 1..m : f[n] < from
    OBVIOUS
  <2> HIDE DEF z
  <2>9. Inserted(b, d, N, f, new, m, k, from, z)
    BY <1>1, <1>11, <1>12, <2>1, <2>2, <2>3, <2>a, <2>b, <2>c, <2>6, <2>7, <2>8
       DEF Inserted
  <2> QED BY <2>9, InsertedAt
<1> QED BY <1>10, <1>14 DEF d, new

\* The slots before and after the slice assignment where none is overwritten.
Grown(slot, s, new, k, at) ==
    /\ DOMAIN s = {p \in DOMAIN slot : p < at} \cup at..(at + k - 1)
                    \cup {p + k : p \in {q \in DOMAIN slot : q >= at}}
    /\ \A p \in DOMAIN slot : p < at => s[p] = slot[p]
    /\ \A q \in at..(at + k - 1) : s[q] = new[q - at + 1]
    /\ \A p \in DOMAIN slot : p >= at => s[p + k] = slot[p]

LEMMA ShiftedAll ==
  ASSUME NEW slot, NEW new, NEW k \in Nat, Len(new) = k, NEW at \in Nat,
         k <= at, \A p \in DOMAIN slot : p \in Nat
  PROVE  Grown(slot, Shifted(slot, new, at), new, k, at)
<1> DEFINE hole == IF at < k THEN k - at ELSE 0
           rest == {p \in DOMAIN slot : p < at \/ p >= at + hole}
           moved(p) == IF p < at THEN p ELSE p + k - hole
           came(q) == IF q < at THEN q ELSE q - k + hole
           window == at..(at + k - 1)
           D == {moved(p) : p \in rest} \cup window
           s == [q \in D |-> IF q \in window THEN new[q - at + 1]
                             ELSE slot[came(q)]]
<1>1. Shifted(slot, new, at) = s
  BY DEF Shifted
<1>2. hole = 0 /\ rest = DOMAIN slot
  <2>1. hole = 0 /\ at + 0 = at
    OBVIOUS
  <2>2. \A p \in DOMAIN slot : p < at \/ p >= at + hole
    BY <2>1
  <2> HIDE DEF hole
  <2> QED BY <2>1, <2>2
<1>3. /\ \A p \in DOMAIN slot : p < at => moved(p) = p /\ came(p) = p
                                          /\ p \notin window
      /\ \A p \in DOMAIN slot : p >= at => moved(p) = p + k /\ came(p + k) = p
                                           /\ p + k \notin window
  BY <1>2
<1>4. DOMAIN s = D
  OBVIOUS
<1>5. /\ \A p \in DOMAIN slot : moved(p) \in D
      /\ \A q \in D : q \in window \/ \E p \in DOMAIN slot : q = moved(p)
  BY <1>2
<1>6. \A q \in window : q \in D /\ s[q] = new[q - at + 1]
  OBVIOUS
<1>7. \A q \in D : q \notin window => s[q] = slot[came(q)]
  OBVIOUS
<1> HIDE DEF s, D, moved, came, rest, hole
<1>8. ASSUME NEW p \in DOMAIN slot, p < at
      PROVE  p \in D /\ s[p] = slot[p]
  <2>1. moved(p) = p /\ came(p) = p /\ p \notin window
    BY <1>3, <1>8
  <2>2. p \in D
    BY <1>5, <2>1
  <2> QED BY <1>7, <2>1, <2>2
<1>9. ASSUME NEW p \in DOMAIN slot, p >= at
      PROVE  p + k \in D /\ s[p + k] = slot[p]
  <2>1. moved(p) = p + k /\ came(p + k) = p /\ p + k \notin window
    BY <1>3, <1>9
  <2>2. p + k \in D
    BY <1>5, <2>1
  <2> DEFINE q == p + k
  <2>3. q \in D /\ q \notin window /\ came(q) = p
    BY <2>1, <2>2
  <2> HIDE DEF q
  <2>4. s[q] = slot[p]
    BY <1>7, <2>3
  <2> QED BY <2>2, <2>4 DEF q
<1>10. DOMAIN s = {p \in DOMAIN slot : p < at} \cup window
                    \cup {p + k : p \in {q \in DOMAIN slot : q >= at}}
  <2> DEFINE E == {p \in DOMAIN slot : p < at} \cup window
                    \cup {p + k : p \in {q \in DOMAIN slot : q >= at}}
  <2>1. ASSUME NEW q \in D PROVE q \in E
    <3>1. CASE q \in window
      BY <3>1
    <3>2. ASSUME NEW p \in DOMAIN slot, q = moved(p)
          PROVE  q \in E
      <4>1. CASE p < at
        BY <1>3, <3>2, <4>1
      <4>2. CASE p >= at
        <5>1. q = p + k
          BY <1>3, <3>2, <4>2
        <5> QED BY <4>2, <5>1
      <4> QED BY <4>1, <4>2
    <3> QED BY <1>5, <3>1, <3>2
  <2>2. ASSUME NEW q \in E PROVE q \in D
    <3>1. CASE q \in {p \in DOMAIN slot : p < at}
      BY <1>8, <3>1
    <3>2. CASE q \in window
      BY <1>6, <3>2
    <3>3. CASE q \in {p + k : p \in {x \in DOMAIN slot : x >= at}}
      BY <1>9, <3>3
    <3> QED BY <3>1, <3>2, <3>3
  <2> HIDE DEF E
  <2>3. D = E
    BY <2>1, <2>2
  <2> QED BY <1>4, <2>3 DEF E
<1>11. DOMAIN s = {p \in DOMAIN slot : p < at} \cup at..(at + k - 1)
                    \cup {p + k : p \in {q \in DOMAIN slot : q >= at}}
  BY <1>10
<1>12. \A q \in at..(at + k - 1) : s[q] = new[q - at + 1]
  BY <1>6
<1>13. /\ \A p \in DOMAIN slot : p < at => s[p] = slot[p]
       /\ \A p \in DOMAIN slot : p >= at => s[p + k] = slot[p]
  BY <1>8, <1>9
<1> QED BY <1>1, <1>11, <1>12, <1>13 DEF Grown

\* Instructions inserted by the slice assignment behind a member.
LEMMA SpliceInserts ==
  ASSUME NEW c \in Nat, NEW k \in Nat, NEW b, BlockInv(b, c),
         NEW at \in Nat, k <= at, at <= b.pointer,
         NEW f, Ascends(f, Cardinality(Live(b)), Live(b)),
         NEW m \in 0..Cardinality(Live(b)),
         \A n \in 1..m : f[n] < at,
         \A n \in (m + 1)..Cardinality(Live(b)) : f[n] >= at
  PROVE  LET new == NewInstrs(c, k)
             d == Splice(b, new, at)
         IN  BlockInv(d, c + k) /\ Instrs(d) = PutIn(Instrs(b), m, new)
<1> DEFINE new == NewInstrs(c, k)
           slot == Shifted(b.slot, new, at)
           d == Splice(b, new, at)
           window == at..(at + k - 1)
           N == Cardinality(Live(b))
<1>1. new \in Seq(Nat) /\ Len(new) = k
  BY NewInstrsAre
<1>2. Sound(d, c + k)
  BY SpliceSound DEF BlockInv
<1>3. /\ \A p \in DOMAIN b.slot : p \in Nat /\ b.slot[p] \in 1..c
      /\ b.pointer \in Nat
  BY PartsOfBlock DEF BlockInv, Sound
<1> HIDE DEF new
<1>4. d = [slot |-> slot, pointer |-> b.pointer + k, index |-> IndexOfSlots(slot)]
  BY <1>1 DEF Splice
<1>5. /\ DOMAIN slot = {p \in DOMAIN b.slot : p < at} \cup window
                         \cup {p + k : p \in {q \in DOMAIN b.slot : q >= at}}
      /\ \A p \in DOMAIN b.slot : p < at => slot[p] = b.slot[p]
      /\ \A q \in window : slot[q] = new[q - at + 1]
      /\ \A p \in DOMAIN b.slot : p >= at => slot[p + k] = b.slot[p]
  <2>1. Grown(b.slot, slot, new, k, at)
    BY <1>1, <1>3, ShiftedAll
  <2> HIDE DEF slot
  <2> QED BY <2>1 DEF Grown
<1> HIDE DEF d, slot
<1>6. d.slot = slot /\ d.pointer = b.pointer + k
  BY <1>4
<1>7. Visible(d)
  <2>1. \A p \in DOMAIN b.slot : p < b.pointer
    BY DEF BlockInv, Visible
  <2>2. \A q \in window : q < b.pointer + k
    BY <1>3
  <2>3. \A p \in DOMAIN b.slot : p < b.pointer + k /\ p + k < b.pointer + k
    BY <1>3, <2>1
  <2> QED BY <1>5, <1>6, <2>2, <2>3 DEF Visible
<1>8. Indexed(d)
  <2>1. \A p, q \in DOMAIN slot : slot[p] = slot[q] => p = q
    BY <1>2, <1>6 DEF Sound, Injective
  <2> QED BY <1>4, <2>1, RebuiltIndexed
<1>9. BlockInv(d, c + k)
  BY <1>2, <1>7, <1>8 DEF BlockInv
<1>10. /\ Live(b) = DOMAIN b.slot /\ Live(b) \in SUBSET Nat /\ N \in Nat
       /\ \A p \in Live(b) : b.slot[p] \in 1..c
  BY Enumerated
<1>11. Live(d) = DOMAIN d.slot /\ Live(d) \in SUBSET Nat
  <2>1. c + k \in Nat
    OBVIOUS
  <2> QED BY <1>9, <2>1, Enumerated
<1>12. \A n \in 1..N : f[n] \in DOMAIN b.slot /\ f[n] \in Nat
  <2>1. \A n \in 1..N : f[n] \in DOMAIN b.slot
    BY <1>10 DEF Ascends
  <2> QED BY <1>3, <2>1
<1> HIDE DEF N, window
<1>13. m \in Nat /\ m \in 0..N /\ N \in Nat /\ Ascends(f, N, Live(b))
  BY <1>10 DEF N
<1>14. /\ \A n \in 1..m : n \in 1..N /\ f[n] < at
       /\ \A n \in (m + 1)..N : n \in 1..N /\ f[n] >= at
  BY <1>13 DEF N
<1>15. Inserted(b, d, N, f, new, m, k, at, k)
  <2>1. \A p \in Live(b) : b.slot[p] \in Nat
    BY <1>10
  <2>2. \A n \in 1..m : f[n] < at
    BY <1>14
  <2>3. \A n \in (m + 1)..N : f[n] + k >= at + k
    BY <1>12, <1>14
  <2>4. \A n \in 1..m : f[n] \in Live(d) /\ d.slot[f[n]] = b.slot[f[n]]
    BY <1>5, <1>6, <1>11, <1>12, <1>14
  <2>5. ASSUME NEW j \in 1..k
        PROVE  /\ at + j - 1 \in Live(d) /\ d.slot[at + j - 1] = new[j]
    <3> DEFINE q == at + j - 1
    <3>1. q \in window /\ q - at + 1 = j
      BY DEF window
    <3> HIDE DEF q
    <3>2. q \in DOMAIN slot /\ slot[q] = new[j]
      BY <1>5, <3>1
    <3> QED BY <1>6, <1>11, <3>2 DEF q
  <2>6. ASSUME NEW n \in (m + 1)..N
        PROVE  /\ f[n] + k \in Live(d) /\ d.slot[f[n] + k] = b.slot[f[n]]
    <3>1. f[n] \in {q \in DOMAIN b.slot : q >= at}
      BY <1>12, <1>14
    <3>2. f[n] + k \in DOMAIN slot /\ slot[f[n] + k] = b.slot[f[n]]
      BY <1>5, <3>1
    <3> QED BY <1>6, <1>11, <3>2
  <2>7. ASSUME NEW q \in Live(d)
        PROVE  \/ \E n \in 1..m : q = f[n]
               \/ q \in at..(at + k - 1)
               \/ \E n \in (m + 1)..N : q = f[n] + k
    <3>a. ASSUME NEW p \in DOMAIN b.slot
          PROVE  \E n \in 1..N : /\ f[n] = p
                                 /\ p < at => n \in 1..m
                                 /\ p >= at => n \in (m + 1)..N
      <4>1. PICK n \in 1..N : f[n] = p
        BY <1>10 DEF Ascends, N
      <4>2. n \in 1..m \/ n \in (m + 1)..N
        BY <1>13
      <4>3. p \in Nat
        BY <1>3
      <4> QED BY <1>14, <4>1, <4>2, <4>3
    <3>1. CASE q \in {p \in DOMAIN b.slot : p < at}
      BY <3>1, <3>a
    <3>2. CASE q \in window
      BY <3>2 DEF window
    <3>3. ASSUME NEW p \in DOMAIN b.slot, p >= at, q = p + k
          PROVE  \E n \in (m + 1)..N : q = f[n] + k
      BY <3>3, <3>a
    <3> QED BY <1>5, <1>6, <1>11, <3>1, <3>2, <3>3
  <2> QED BY <1>1, <1>10, <1>11, <1>13, <2>1, <2>2, <2>3, <2>4, <2>5, <2>6, <2>7
          DEF Inserted
<1>16. Instrs(d) = PutIn(Instrs(b), m, new)
  BY <1>15, InsertedAt
<1> QED BY <1>9, <1>16 DEF d, new

\* A member of the block, as one of the visible positions.
LEMMA MemberAt ==
  ASSUME NEW c \in Nat, NEW b, BlockInv(b, c), NEW i \in DOMAIN b.index,
         NEW f, Ascends(f, Cardinality(Live(b)), Live(b))
  PROVE  /\ i \in Nat /\ b.index[i] \in Nat /\ b.index[i] \in DOMAIN b.slot
         /\ b.index[i] < b.pointer
         /\ \E m \in 1..Cardinality(Live(b)) :
              /\ f[m] = b.index[i]
              /\ \A n \in 1..m : f[n] < b.index[i] + 1
              /\ \A n \in (m + 1)..Cardinality(Live(b)) : f[n] >= b.index[i] + 1
              /\ \A n \in 1..(m - 1) : f[n] < b.index[i]
<1> DEFINE N == Cardinality(Live(b))
           at == b.index[i]
<1>1. /\ Live(b) = DOMAIN b.slot /\ Live(b) \in SUBSET Nat /\ N \in Nat
  BY Enumerated
<1>2. /\ f \in [1..N -> Live(b)] /\ \A x, y \in 1..N : x < y => f[x] < f[y]
      /\ \A p \in Live(b) : \E n \in 1..N : f[n] = p
  BY DEF Ascends
<1>3. i \in Nat /\ at \in Nat /\ at \in DOMAIN b.slot /\ at < b.pointer
  <2>1. \A j \in DOMAIN b.index : j \in 1..c /\ b.index[j] \in Nat
    BY PartsOfBlock DEF BlockInv, Sound
  <2>2. at \in DOMAIN b.slot
    BY DEF BlockInv, Sound, IndexSound
  <2> QED BY <2>1, <2>2 DEF BlockInv, Visible
<1> HIDE DEF N, at
<1>4. PICK m \in 1..N : f[m] = at
  BY <1>1, <1>2, <1>3
<1>5. \A n \in 1..N : f[n] \in Nat
  <2>1. \A n \in 1..N : f[n] \in Live(b)
    BY <1>2
  <2> QED BY <1>1, <2>1
<1>6. \A n \in 1..(m - 1) : f[n] < at
  <2>1. \A n \in 1..(m - 1) : n \in 1..N /\ n < m
    BY <1>1
  <2> QED BY <1>2, <1>4, <2>1
<1>7. \A n \in (m + 1)..N : f[n] >= at + 1
  <2>1. \A n \in (m + 1)..N : n \in 1..N /\ m < n
    BY <1>1
  <2>2. \A n \in (m + 1)..N : f[n] \in Nat /\ at < f[n]
    BY <1>2, <1>4, <1>5, <2>1
  <2> QED BY <1>3, <2>2
<1>8. ASSUME NEW n \in 1..m
      PROVE  f[n] < at + 1
  <2>1. CASE n = m
    BY <1>3, <1>4, <2>1
  <2>2. CASE n # m
    <3>1. n \in 1..(m - 1) /\ n \in 1..N
      BY <1>1, <2>2
    <3> QED BY <1>3, <1>5, <1>6, <3>1
  <2> QED BY <2>1, <2>2
<1> QED BY <1>3, <1>4, <1>6, <1>7, <1>8 DEF N, at

\* A new block shows its instructions in the order of their creation.
LEMMA NewBlockShows ==
  ASSUME NEW c \in Nat, NEW k \in Nat
  PROVE  LET b == NewBlock(NewInstrs(c, k))
         IN  /\ BlockInv(b, c + k)
             /\ Ascends([j \in 1..k |-> Stride * j], k, Live(b))
             /\ Instrs(b) = [j \in 1..k |-> c + j]
<1> DEFINE new == NewInstrs(c, k)
           b == NewBlock(new)
           f == [j \in 1..k |-> Stride * j]
<1>1. Len(new) = k /\ \A j \in 1..k : new[j] = c + j
  BY NewInstrsAre
<1>2. Sound(b, c + k)
  BY NewBlockSound
<1> HIDE DEF new
<1>3. /\ DOMAIN b.slot = {Stride * j : j \in 1..k}
      /\ \A j \in 1..k : b.slot[Stride * j] = c + j
      /\ b.pointer = Stride * (k + 1) /\ b.index = IndexOfSlots(b.slot)
      /\ b = [slot |-> b.slot, pointer |-> b.pointer, index |-> b.index]
  BY <1>1, NewBlockSlots
<1> HIDE DEF b
<1>4. /\ \A j \in 1..k : Stride * j \in Nat /\ Stride * j < Stride * (k + 1)
      /\ \A i, j \in 1..k : i < j => Stride * i < Stride * j
  BY StrideAssumption
<1>5. Visible(b)
  BY <1>3, <1>4 DEF Visible
<1>6. Indexed(b)
  <2>1. \A p, q \in DOMAIN b.slot : b.slot[p] = b.slot[q] => p = q
    BY <1>2 DEF Sound, Injective
  <2>2. Indexed([slot |-> b.slot, pointer |-> b.pointer,
                 index |-> IndexOfSlots(b.slot)])
    BY <2>1, RebuiltIndexed
  <2> QED BY <1>3, <2>2
<1>7. BlockInv(b, c + k)
  BY <1>2, <1>5, <1>6 DEF BlockInv
<1>8. Live(b) = {Stride * j : j \in 1..k}
  BY <1>3, <1>5 DEF Live, Visible
<1>9. Ascends(f, k, Live(b))
  BY <1>4, <1>8 DEF Ascends
<1>10. Instrs(b) = [j \in 1..k |-> b.slot[f[j]]]
  <2>1. Live(b) \in SUBSET Nat
    BY <1>4, <1>8
  <2> HIDE DEF f
  <2> QED BY <1>9, <2>1, Shown
<1>11. Instrs(b) = [j \in 1..k |-> c + j]
  BY <1>3, <1>10
<1> QED BY <1>7, <1>9, <1>11 DEF b, new

\* replicate: copies at the positions of the placeholders, which the dictionary
\* still names.
LEMMA ReplicaShows ==
  ASSUME NEW c \in Nat, NEW k \in Nat, NEW b
  PROVE  LET d == Replica(b, NewInstrs(c, k), NewInstrs(c + k, k))
         IN  /\ BlockInv(d, c + 2 * k)
             /\ Instrs(d) = [j \in 1..k |-> c + k + j]
<1> DEFINE old == NewInstrs(c, k)
           new == NewInstrs(c + k, k)
           fresh == NewBlock(old)
           d == Replica(b, old, new)
           f == [j \in 1..k |-> Stride * j]
<1>1. /\ Len(old) = k /\ \A j \in 1..k : old[j] = c + j
      /\ \A j \in 1..k : new[j] = c + k + j
  <2>1. Len(old) = k /\ \A j \in 1..k : old[j] = c + j
    BY NewInstrsAre
  <2>2. c + k \in Nat
    OBVIOUS
  <2>3. \A j \in 1..k : new[j] = c + k + j
    BY <2>2, NewInstrsAre
  <2> QED BY <2>1, <2>3
<1>2. Sound(d, c + 2 * k)
  BY ReplicaSound
<1>3. BlockInv(fresh, c + k) /\ Ascends(f, k, Live(fresh))
  <2> HIDE DEF d
  <2> QED BY NewBlockShows
<1> HIDE DEF old, new
<1>4. /\ DOMAIN fresh.slot = {Stride * j : j \in 1..k}
      /\ \A j \in 1..k : fresh.slot[Stride * j] = c + j
      /\ fresh = [slot |-> fresh.slot, pointer |-> fresh.pointer,
                  index |-> fresh.index]
  <2> HIDE DEF d, f
  <2>1. /\ DOMAIN fresh.slot = {Stride * j : j \in 1..k}
        /\ \A j \in 1..k : fresh.slot[Stride * j] = old[j]
        /\ fresh = [slot |-> fresh.slot, pointer |-> fresh.pointer,
                    index |-> fresh.index]
    BY <1>1, NewBlockSlots
  <2> HIDE DEF fresh
  <2> QED BY <1>1, <2>1
<1> HIDE DEF fresh, f
<1>5. /\ d.slot = [p \in DOMAIN fresh.slot |->
                     new[CHOOSE j \in 1..k : old[j] = fresh.slot[p]]]
      /\ d.pointer = fresh.pointer /\ d.index = fresh.index
  BY <1>1, <1>4 DEF Replica, fresh
<1> HIDE DEF d
<1>6. Visible(d) /\ Indexed(d) /\ Live(d) = Live(fresh)
  BY <1>3, <1>5 DEF BlockInv, Visible, Indexed, Live
<1>7. BlockInv(d, c + 2 * k)
  BY <1>2, <1>6 DEF BlockInv
<1>8. ASSUME NEW j \in 1..k
      PROVE  d.slot[Stride * j] = c + k + j
  <2>1. Stride * j \in DOMAIN fresh.slot /\ fresh.slot[Stride * j] = c + j
    BY <1>4
  <2>2. d.slot[Stride * j] = new[CHOOSE i \in 1..k : old[i] = c + j]
    <3> DEFINE p == Stride * j
    <3>1. p \in DOMAIN fresh.slot /\ fresh.slot[p] = c + j
      BY <2>1
    <3> HIDE DEF p
    <3>2. d.slot[p] = new[CHOOSE i \in 1..k : old[i] = c + j]
      BY <1>5, <3>1
    <3> QED BY <3>2 DEF p
  <2>3. ASSUME NEW i \in 1..k
        PROVE  old[i] = c + j <=> i = j
    <3>1. old[i] = c + i
      BY <1>1
    <3> QED BY <3>1
  <2>4. (CHOOSE i \in 1..k : old[i] = c + j) = j
    BY <2>3
  <2> QED BY <1>1, <2>2, <2>4
<1>9. Instrs(d) = [j \in 1..k |-> d.slot[f[j]]]
  <2>1. c + 2 * k \in Nat
    OBVIOUS
  <2>2. Live(d) \in SUBSET Nat
    BY <1>7, <2>1, Enumerated
  <2> QED BY <1>3, <1>6, <2>2, Shown
<1>10. Instrs(d) = [j \in 1..k |-> c + k + j]
  BY <1>8, <1>9 DEF f
<1> QED BY <1>7, <1>10 DEF d, old, new

\* reset_instruction: one slot changes, and the dictionary does not.
LEMMA ResetShows ==
  ASSUME NEW c \in Nat, NEW b, BlockInv(b, c), NEW i \in DOMAIN b.index,
         NEW f, Ascends(f, Cardinality(Live(b)), Live(b)),
         NEW m \in 1..Cardinality(Live(b)), f[m] = b.index[i]
  PROVE  LET d == ResetInstr(b, i, c + 1)
         IN  /\ BlockInv(d, c + 1)
             /\ Instrs(d) = [Instrs(b) EXCEPT ![m] = c + 1]
<1> DEFINE d == ResetInstr(b, i, c + 1)
           at == b.index[i]
           N == Cardinality(Live(b))
<1>1. Sound(d, c + 1)
  BY ResetSound DEF BlockInv
<1>2. /\ b = [slot |-> b.slot, pointer |-> b.pointer, index |-> b.index]
      /\ b.slot = [p \in DOMAIN b.slot |-> b.slot[p]]
  BY PartsOfBlock DEF BlockInv, Sound
<1>3. at \in DOMAIN b.slot
  BY DEF BlockInv, Sound, IndexSound
<1>4. /\ d.slot = [b.slot EXCEPT ![at] = c + 1] /\ d.pointer = b.pointer
      /\ d.index = b.index
  BY <1>2 DEF ResetInstr
<1> HIDE DEF d
<1>5. /\ DOMAIN d.slot = DOMAIN b.slot
      /\ \A p \in DOMAIN b.slot : d.slot[p] = IF p = at THEN c + 1 ELSE b.slot[p]
  BY <1>2, <1>3, <1>4
<1>6. Visible(d) /\ Indexed(d) /\ Live(d) = Live(b)
  BY <1>4, <1>5 DEF BlockInv, Visible, Indexed, Live
<1>7. BlockInv(d, c + 1)
  BY <1>1, <1>6 DEF BlockInv
<1>8. /\ Live(b) = DOMAIN b.slot /\ Live(b) \in SUBSET Nat /\ N \in Nat
  BY Enumerated
<1>9. \A p \in Live(b) : d.slot[p] = IF p = f[m] THEN c + 1 ELSE b.slot[p]
  BY <1>5, <1>8
<1>10. Instrs(d) = [Instrs(b) EXCEPT ![m] = c + 1]
  <2> HIDE DEF N
  <2>1. Ascends(f, N, Live(b)) /\ m \in 1..N
    BY DEF N
  <2> DEFINE x == c + 1
  <2>2. \A p \in Live(b) : d.slot[p] = IF p = f[m] THEN x ELSE b.slot[p]
    BY <1>9
  <2>3. /\ Live(b) \in SUBSET Nat /\ Live(d) = Live(b) /\ N \in Nat
    BY <1>6, <1>8
  <2> HIDE DEF x, at
  <2>4. Exchanged(b, d, N, f, m, x)
    BY <2>1, <2>2, <2>3 DEF Exchanged
  <2> QED BY <2>4, ReplacedAt DEF x
<1> QED BY <1>7, <1>10 DEF d

\* remove_instructions_from: what the dictionary keeps is in front of the cut.
LEMMA RemoveShows ==
  ASSUME NEW c \in Nat, NEW b, BlockInv(b, c), NEW i \in DOMAIN b.index,
         \A p \in Live(b) : p >= b.index[i] => b.slot[p] \in DOMAIN b.index,
         NEW f, Ascends(f, Cardinality(Live(b)), Live(b)),
         NEW m \in 1..Cardinality(Live(b)), f[m] = b.index[i],
         \A n \in 1..(m - 1) : f[n] < b.index[i]
  PROVE  LET d == RemoveFrom(b, i)
         IN  BlockInv(d, c) /\ Instrs(d) = Prefix(Instrs(b), m - 1)
<1> DEFINE idx == b.index[i]
           tail == {p \in Live(b) : p >= idx}
           popped == {b.slot[p] : p \in tail}
           slot == [p \in {q \in DOMAIN b.slot : q < idx} |-> b.slot[p]]
           index == [j \in DOMAIN b.index \ popped |-> b.index[j]]
           d == [slot |-> slot, pointer |-> idx, index |-> index]
           N == Cardinality(Live(b))
<1>1. RemoveFrom(b, i) = d
  <2> DEFINE unknown == {p \in tail : b.slot[p] \notin DOMAIN b.index}
             behind == {q \in tail : \A u \in unknown : q < u}
  <2>1. unknown = {}
    OBVIOUS
  <2>2. behind = tail
    BY <2>1
  <2>3. RemoveFrom(b, i) =
          IF unknown # {}
            THEN [b EXCEPT !.index = [j \in DOMAIN b.index
                                        \ {b.slot[p] : p \in behind} |-> b.index[j]]]
            ELSE [slot |-> slot, pointer |-> idx,
                  index |-> [j \in DOMAIN b.index
                               \ {b.slot[p] : p \in behind} |-> b.index[j]]]
    BY DEF RemoveFrom
  <2> HIDE DEF unknown, behind, tail, slot, idx
  <2> QED BY <2>1, <2>2, <2>3
<1>2. /\ \A p \in DOMAIN b.slot : p \in Nat /\ b.slot[p] \in 1..c
      /\ \A j \in DOMAIN b.index : j \in 1..c /\ b.index[j] \in Nat
  BY PartsOfBlock DEF BlockInv, Sound
<1>3. /\ Live(b) = DOMAIN b.slot /\ Live(b) \in SUBSET Nat /\ N \in Nat
      /\ \A p \in Live(b) : b.slot[p] \in 1..c
  BY Enumerated
<1>4. /\ \A p, q \in DOMAIN b.slot : b.slot[p] = b.slot[q] => p = q
      /\ \A j \in DOMAIN b.index :
           /\ b.index[j] \in DOMAIN b.slot
           /\ \A p \in DOMAIN b.slot : b.slot[p] = j => b.index[j] = p
      /\ \A j, l \in DOMAIN b.index : b.index[j] = b.index[l] => j = l
      /\ \A p \in DOMAIN b.slot : \E j \in DOMAIN b.index : b.index[j] = p
  BY DEF BlockInv, Sound, Injective, IndexSound, Indexed
<1>5. idx \in Nat
  BY <1>2
<1>6. /\ DOMAIN slot = {q \in DOMAIN b.slot : q < idx}
      /\ \A p \in DOMAIN slot : slot[p] = b.slot[p]
      /\ slot = [p \in DOMAIN slot |-> slot[p]]
      /\ DOMAIN index = DOMAIN b.index \ popped
      /\ \A j \in DOMAIN index : index[j] = b.index[j]
      /\ index = [j \in DOMAIN index |-> index[j]]
      /\ d.slot = slot /\ d.pointer = idx /\ d.index = index
  OBVIOUS
<1>7. ASSUME NEW j \in DOMAIN index
      PROVE  b.index[j] \in DOMAIN slot
  <2> DEFINE q == b.index[j]
  <2>1. j \in DOMAIN b.index /\ j \notin popped /\ q \in DOMAIN b.slot /\ q \in Nat
    BY <1>2, <1>4, <1>6
  <2>2. ~(q >= idx)
    <3> SUFFICES ASSUME q >= idx PROVE FALSE
      OBVIOUS
    <3>1. q \in tail
      BY <1>3, <2>1
    <3>2. b.slot[q] \in DOMAIN b.index /\ b.slot[q] \in popped
      BY <1>3, <2>1, <3>1
    <3>3. b.index[b.slot[q]] = q
      BY <1>4, <2>1, <3>2
    <3>4. b.slot[q] = j
      BY <1>4, <2>1, <3>2, <3>3
    <3> QED BY <2>1, <3>2, <3>4
  <2> HIDE DEF idx, slot, q
  <2>3. q < idx
    BY <1>5, <2>1, <2>2
  <2> QED BY <1>6, <2>1, <2>3 DEF q
<1>8. ASSUME NEW p \in DOMAIN slot
      PROVE  \E j \in DOMAIN index : b.index[j] = p
  <2>1. p \in DOMAIN b.slot /\ p < idx /\ p \in Nat
    BY <1>2, <1>6
  <2>2. PICK j \in DOMAIN b.index : b.index[j] = p
    BY <1>4, <2>1
  <2>3. j \notin popped
    <3> SUFFICES ASSUME NEW q \in tail, b.slot[q] = j PROVE FALSE
      OBVIOUS
    <3>1. b.index[j] = q /\ q >= idx /\ q \in Nat
      BY <1>2, <1>3, <1>4
    <3> HIDE DEF idx
    <3> QED BY <1>5, <2>1, <2>2, <3>1
  <2> QED BY <1>6, <2>2, <2>3
<1> HIDE DEF idx, slot, index, popped, tail, d
<1>9. Sound(d, c)
  <2>1. d \in Block(c)
    <3>1. \A p \in DOMAIN slot : p \in Nat /\ slot[p] \in 1..c
      BY <1>2, <1>6
    <3>2. \A j \in DOMAIN index : j \in 1..c /\ index[j] \in Nat
      BY <1>2, <1>6
    <3>3. [slot |-> slot, pointer |-> idx, index |-> index] \in Block(c)
      BY <1>5, <1>6, <3>1, <3>2, BlockOfParts
    <3> QED BY <3>3 DEF d
  <2>2. Bounded(d)
    <3>1. PICK n \in Nat : \A p \in DOMAIN b.slot : p <= n
      BY DEF BlockInv, Sound, Bounded
    <3>2. \A p \in DOMAIN d.slot : p <= n
      BY <1>6, <3>1
    <3> QED BY <3>2 DEF Bounded
  <2>3. Injective(d)
    BY <1>4, <1>6 DEF Injective
  <2>4. IndexSound(d)
    BY <1>4, <1>6, <1>7 DEF IndexSound
  <2> QED BY <2>1, <2>2, <2>3, <2>4 DEF Sound
<1>10. Visible(d)
  BY <1>6 DEF Visible
<1>11. Indexed(d)
  BY <1>4, <1>6, <1>8 DEF Indexed
<1>12. BlockInv(d, c)
  BY <1>9, <1>10, <1>11 DEF BlockInv
<1>13. Live(d) = DOMAIN slot /\ Live(d) \in SUBSET Nat
  BY <1>6, <1>12, Enumerated
<1>14. Instrs(d) = Prefix(Instrs(b), m - 1)
  <2> DEFINE l == m - 1
  <2> HIDE DEF N
  <2>1. /\ Ascends(f, N, Live(b)) /\ l \in 0..N /\ l + 1 = m
        /\ \A n \in 1..l : n \in 1..N
    BY <1>3 DEF N
  <2>2. /\ \A n \in 1..N : f[n] \in Live(b)
        /\ \A x, y \in 1..N : x < y => f[x] < f[y]
        /\ \A p \in Live(b) : \E n \in 1..N : f[n] = p
    BY <2>1 DEF Ascends
  <2>3. \A n \in 1..l : f[n] < idx
    BY DEF idx
  <2>a. f[m] = idx /\ m \in 1..N
    BY DEF idx, N
  <2> HIDE DEF l
  <2>4. \A n \in 1..l : f[n] \in Live(d) /\ d.slot[f[n]] = b.slot[f[n]]
    BY <1>3, <1>6, <1>13, <2>1, <2>2, <2>3
  <2>5. ASSUME NEW q \in Live(d)
        PROVE  \E n \in 1..l : q = f[n]
    <3>1. q \in Live(b) /\ q < idx /\ q \in Nat
      BY <1>3, <1>6, <1>13
    <3>2. PICK n \in 1..N : f[n] = q
      BY <2>2, <3>1
    <3>3. ~(m < n) /\ m # n
      <4>1. m # n
        BY <1>5, <2>a, <3>1, <3>2
      <4>2. m < n => idx < q
        BY <2>a, <2>2, <3>2
      <4> QED BY <1>5, <3>1, <4>1, <4>2
    <3>4. n \in 1..l
      BY <1>3, <2>1, <2>a, <3>3
    <3> QED BY <3>2, <3>4
  <2>6. \A p \in Live(b) : b.slot[p] \in Nat
    BY <1>3
  <2>7. Instrs(d) = Prefix(Instrs(b), l)
    BY <1>3, <1>13, <2>1, <2>4, <2>5, <2>6, CutAt
  <2> QED BY <2>7 DEF l
<1> QED BY <1>1, <1>12, <1>14

-----------------------------------------------------------------------------
\* A call that puts k new instructions behind the first m of the list and
\* keeps the invariant.
Inserts(b, d, c, k, m) ==
    /\ BlockInv(d, c + k) /\ m \in 0..Len(Instrs(b))
    /\ Instrs(d) = PutIn(Instrs(b), m, NewInstrs(c, k))

LEMMA ShownLength ==
  ASSUME NEW c \in Nat, NEW b, BlockInv(b, c)
  PROVE  Len(Instrs(b)) = Cardinality(Live(b)) /\ Len(Instrs(b)) \in Nat
<1> DEFINE N == Cardinality(Live(b))
<1>1. Live(b) \in SUBSET Nat /\ N \in Nat /\ \E f : Ascends(f, N, Live(b))
  BY Enumerated
<1>2. PICK f : Ascends(f, N, Live(b))
  BY <1>1
<1> HIDE DEF N
<1>3. Instrs(b) = [n \in 1..N |-> b.slot[f[n]]]
  BY <1>1, <1>2, Shown
<1>4. Len(Instrs(b)) = N
  BY <1>1, <1>3
<1> QED BY <1>1, <1>4 DEF N

\* insert_instr without a known anchor: at the pointer, behind all the others.
LEMMA AppendShows ==
  ASSUME NEW c \in Nat, NEW k \in Nat, NEW b, BlockInv(b, c)
  PROVE  Inserts(b, InsertInstr(b, NewInstrs(c, k), None, None), c, k,
                 Len(Instrs(b)))
<1> DEFINE new == NewInstrs(c, k)
           N == Cardinality(Live(b))
           d == InsertInstr(b, new, None, None)
<1>1. Len(new) = k
  BY NewInstrsAre
<1>2. /\ Live(b) = DOMAIN b.slot /\ Live(b) \in SUBSET Nat /\ N \in Nat
      /\ \E f : Ascends(f, N, Live(b))
  BY Enumerated
<1>3. PICK f : Ascends(f, N, Live(b))
  BY <1>2
<1>4. /\ b.pointer \in Nat /\ \A i \in DOMAIN b.index : i \in 1..c
      /\ \A p \in DOMAIN b.slot : p < b.pointer /\ p \in Nat
  BY PartsOfBlock DEF BlockInv, Sound, Visible
<1> HIDE DEF N, new
<1>5. IndexOf(b, None) = None
  <2>1. None \notin DOMAIN b.index
    BY <1>4 DEF None
  <2> QED BY <2>1 DEF IndexOf
<1>6. d = [Place(b, new, b.pointer) EXCEPT !.pointer = b.pointer + k]
  <2>1. d = AppendInstrs(b, new)
    BY <1>5 DEF InsertInstr, None
  <2> QED BY <1>1, <2>1 DEF AppendInstrs
<1>7. WindowFree(b, b.pointer, k)
  BY <1>4 DEF WindowFree
<1>8. /\ \A n \in 1..N : f[n] < b.pointer
      /\ \A n \in (N + 1)..N : f[n] >= b.pointer
  <2>1. \A n \in 1..N : f[n] \in DOMAIN b.slot
    BY <1>2, <1>3 DEF Ascends
  <2>2. \A n : n \notin (N + 1)..N
    BY <1>2
  <2> QED BY <1>4, <2>1, <2>2
<1>9. BlockInv(d, c + k) /\ Instrs(d) = PutIn(Instrs(b), N, new)
  <2> DEFINE pointer == b.pointer + k
             from == b.pointer
  <2>1. pointer \in Nat /\ b.pointer <= pointer /\ from + k <= pointer
        /\ from \in Nat
    BY <1>4
  <2>2. N \in 0..N
    BY <1>2
  <2>3. WindowFree(b, from, k) /\ \A n \in 1..N : f[n] < from
    BY <1>7, <1>8
  <2>4. \A n \in (N + 1)..N : f[n] >= from
    BY <1>8
  <2>5. d = [Place(b, new, from) EXCEPT !.pointer = pointer]
    BY <1>6
  <2> HIDE DEF d, pointer, from
  <2> QED BY <1>3, <2>1, <2>2, <2>3, <2>4, <2>5, PlaceInserts DEF N, new
<1>10. N = Len(Instrs(b)) /\ N \in 0..Len(Instrs(b))
  BY <1>2, ShownLength DEF N
<1> HIDE DEF d
<1> QED BY <1>9, <1>10 DEF d, new, Inserts

\* insert_instr with a known anchor "after", under RoomAfter: behind it.
LEMMA AfterShows ==
  ASSUME NEW c \in Nat, NEW k \in Nat, NEW b, BlockInv(b, c), NEW before,
         NEW i \in DOMAIN b.index,
         IF WindowFree(b, b.index[i] + 1, k)
           THEN b.index[i] + 1 + k <= b.pointer ELSE k <= b.index[i] + 1,
         NEW f, Ascends(f, Cardinality(Live(b)), Live(b)),
         NEW m \in 1..Cardinality(Live(b)), f[m] = b.index[i]
  PROVE  Inserts(b, InsertInstr(b, NewInstrs(c, k), before, i), c, k, m)
<1> DEFINE new == NewInstrs(c, k)
           N == Cardinality(Live(b))
           at == b.index[i] + 1
           d == InsertInstr(b, new, before, i)
<1>1. Len(new) = k
  BY NewInstrsAre
<1>2. N \in Nat
  BY Enumerated
<1>3. Ascends(f, N, Live(b))
  OBVIOUS
<1>4. /\ b = [slot |-> b.slot, pointer |-> b.pointer, index |-> b.index]
      /\ b.pointer \in Nat
  BY PartsOfBlock DEF BlockInv, Sound
<1>c. \A x, y \in 1..N : x < y => f[x] < f[y]
  BY DEF Ascends
<1>5. /\ b.index[i] \in Nat /\ b.index[i] < b.pointer
      /\ \E l \in 1..N : /\ f[l] = b.index[i]
                         /\ \A n \in 1..l : f[n] < at
                         /\ \A n \in (l + 1)..N : f[n] >= at
  BY <1>3, MemberAt
<1>d. at \in Nat /\ at # 0 /\ at <= b.pointer
  BY <1>4, <1>5
<1>6. /\ \A n \in 1..m : f[n] < at
      /\ \A n \in (m + 1)..N : f[n] >= at
  <2>1. PICK l \in 1..N : /\ f[l] = b.index[i]
                          /\ \A n \in 1..l : f[n] < at
                          /\ \A n \in (l + 1)..N : f[n] >= at
    BY <1>5
  <2>2. ~(l < m) /\ ~(m < l)
    BY <1>c, <1>5, <2>1
  <2>3. l = m
    BY <1>2, <2>2
  <2> QED BY <2>1, <2>3
<1>7. IndexOf(b, i) + 1 = at
  BY DEF IndexOf
<1>8. d = IF WindowFree(b, at, k) THEN Place(b, new, at) ELSE Splice(b, new, at)
  <2> HIDE DEF new, at
  <2> QED BY <1>1, <1>d, <1>7 DEF InsertInstr
<1>a. IF WindowFree(b, at, k) THEN at + k <= b.pointer ELSE k <= at
  OBVIOUS
<1>b. m \in 0..N
  BY <1>2
<1> HIDE DEF N, new, at, d
<1>9. BlockInv(d, c + k) /\ Instrs(d) = PutIn(Instrs(b), m, new)
  <2>1. CASE WindowFree(b, at, k)
    <3> DEFINE pointer == b.pointer
    <3>1. d = [Place(b, new, at) EXCEPT !.pointer = pointer]
      BY <1>4, <1>8, <2>1 DEF Place
    <3>2. pointer \in Nat /\ b.pointer <= pointer /\ at + k <= pointer
      BY <1>4, <1>a, <2>1
    <3> HIDE DEF pointer
    <3> QED BY <1>3, <1>d, <1>6, <1>b, <2>1, <3>1, <3>2, PlaceInserts DEF N, new
  <2>2. CASE ~WindowFree(b, at, k)
    <3>1. d = Splice(b, new, at) /\ k <= at
      BY <1>8, <1>a, <2>2
    <3> QED BY <1>3, <1>d, <1>6, <1>b, <3>1, SpliceInserts DEF N, new
  <2> QED BY <2>1, <2>2
<1>10. m \in 0..Len(Instrs(b))
  BY <1>b, ShownLength DEF N
<1> QED BY <1>9, <1>10 DEF d, new, Inserts

\* insert_instr with "before" alone, under RoomInFront: at the front.
LEMMA FrontShows ==
  ASSUME NEW c \in Nat, NEW k \in Nat, NEW b, BlockInv(b, c),
         NEW i \in DOMAIN b.index, WindowFree(b, 0, k), k <= b.pointer
  PROVE  Inserts(b, InsertInstr(b, NewInstrs(c, k), i, None), c, k, 0)
<1> DEFINE new == NewInstrs(c, k)
           N == Cardinality(Live(b))
           d == InsertInstr(b, new, i, None)
<1>1. Len(new) = k
  BY NewInstrsAre
<1>2. /\ Live(b) \in SUBSET Nat /\ N \in Nat
      /\ \E f : Ascends(f, N, Live(b))
  BY Enumerated
<1>3. PICK f : Ascends(f, N, Live(b))
  BY <1>2
<1>4. /\ b = [slot |-> b.slot, pointer |-> b.pointer, index |-> b.index]
      /\ b.pointer \in Nat
      /\ \A j \in DOMAIN b.index : j \in 1..c /\ b.index[j] \in Nat
  BY PartsOfBlock DEF BlockInv, Sound
<1> HIDE DEF N, new
<1>5. IndexOf(b, None) = None /\ IndexOf(b, i) # None
  <2>1. None \notin DOMAIN b.index
    BY <1>4 DEF None
  <2> QED BY <1>4, <2>1 DEF IndexOf, None
<1> DEFINE z == 0
<1>6. d = Place(b, new, z)
  BY <1>1, <1>5 DEF InsertInstr, None
<1> DEFINE pointer == b.pointer
<1>7. d = [Place(b, new, z) EXCEPT !.pointer = pointer]
  BY <1>4, <1>6 DEF Place
<1>8. /\ z \in Nat /\ WindowFree(b, z, k) /\ pointer \in Nat
      /\ b.pointer <= pointer /\ z + k <= pointer /\ z \in 0..N
  BY <1>2, <1>4
<1>9. \A n \in 1..z : f[n] < z
  OBVIOUS
<1>10. \A n \in (z + 1)..N : f[n] >= z
  <2>1. \A n \in 1..N : f[n] \in Live(b)
    BY <1>3 DEF Ascends
  <2>2. \A n \in (z + 1)..N : n \in 1..N
    OBVIOUS
  <2> QED BY <1>2, <2>1, <2>2
<1> HIDE DEF z, pointer, d
<1>11. BlockInv(d, c + k) /\ Instrs(d) = PutIn(Instrs(b), z, new)
  BY <1>3, <1>7, <1>8, <1>9, <1>10, PlaceInserts DEF N, new
<1>12. z \in 0..Len(Instrs(b))
  BY <1>8, ShownLength DEF N
<1> QED BY <1>11, <1>12 DEF d, new, z, Inserts

-----------------------------------------------------------------------------
\* The invariant holds of every new block, which is the list of its
\* instructions.
LEMMA CallsInit == Init => CallsInv /\ List!Init
<1> SUFFICES ASSUME Init PROVE CallsInv /\ List!Init
  OBVIOUS
<1>1. PICK n \in 1..MaxCreated : /\ created = n
                                 /\ block = NewBlock(NewInstrs(0, n))
                                 /\ call = Call("new", None, None)
  BY DEF Init
<1> DEFINE z == 0
<1>2. z \in Nat /\ n \in Nat \ {0} /\ z + n = n /\ \A j \in 1..n : z + j = j
  BY BoundsAssumption
<1>3. block = NewBlock(NewInstrs(z, n))
  BY <1>1
<1> HIDE DEF z
<1>4. BlockInv(block, z + n) /\ Instrs(block) = [j \in 1..n |-> z + j]
  BY <1>2, <1>3, NewBlockShows
<1>5. CallsInv
  BY <1>1, <1>2, <1>4 DEF CallsInv
<1>6. Instrs(block) = [j \in 1..n |-> j]
  BY <1>2, <1>4
<1>7. List!Init
  BY <1>1, <1>2, <1>6 DEF List!Init, List!Call, Call
<1> QED BY <1>5, <1>7

\* Every call keeps the invariant and is a step of the list.
LEMMA CallsStep == CallsInv /\ [Next]_vars => CallsInv' /\ [List!Next]_List!vars
<1> SUFFICES ASSUME CallsInv, [Next]_vars
             PROVE  CallsInv' /\ [List!Next]_List!vars
  OBVIOUS
<1> DEFINE N == Cardinality(Live(block))
<1>1. created \in Nat /\ BlockInv(block, created)
  BY DEF CallsInv
<1>2. Len(Instrs(block)) = N /\ N \in Nat
  BY <1>1, ShownLength
<1>a. PICK f : Ascends(f, N, Live(block))
  BY <1>1, Enumerated
<1> HIDE DEF N
<1>4. /\ Instrs(block) = [n \in 1..N |-> block.slot[f[n]]]
      /\ \A x, y \in 1..N : x < y => f[x] < f[y]
      /\ \A n \in 1..N : f[n] \in Live(block) /\ f[n] \in Nat
  <2>1. Live(block) \in SUBSET Nat
    BY <1>1, Enumerated
  <2>2. /\ \A x, y \in 1..N : x < y => f[x] < f[y]
        /\ \A n \in 1..N : f[n] \in Live(block)
    BY <1>a DEF Ascends
  <2> QED BY <1>2, <1>a, <2>1, <2>2, Shown
\* A known anchor is the member of the list at its position.
<1>b. ASSUME NEW i, Known(i)
      PROVE  /\ i \in DOMAIN block.index
             /\ \E m \in 1..N : /\ f[m] = block.index[i]
                                /\ Instrs(block)[m] = i
                                /\ \A n \in 1..(m - 1) : f[n] < block.index[i]
  <2>1. i \in DOMAIN block.index /\ i \in Members(block)
    BY <1>b DEF Known
  <2>2. PICK m \in 1..N : /\ f[m] = block.index[i]
                          /\ \A n \in 1..(m - 1) : f[n] < block.index[i]
    BY <1>1, <1>a, <2>1, MemberAt DEF N
  <2>3. block.slot[block.index[i]] = i
    BY <1>1, <2>1 DEF BlockInv, Sound, IndexSound, Members, Live
  <2> QED BY <1>4, <2>1, <2>2, <2>3
<1>3. ASSUME NEW k \in Nat, k >= 1, Fits(k), created' = created + k,
             NEW m, Inserts(block, block', created, k, m)
      PROVE  /\ CallsInv' /\ k \in 1..MaxCreated
             /\ Instrs(block)' = List!PutAt(m, List!Fresh(k))
  <2>1. CallsInv'
    BY <1>1, <1>3 DEF CallsInv, Inserts
  <2>2. k \in 1..MaxCreated
    BY <1>1, <1>3, BoundsAssumption DEF Fits
  <2>3. List!Fresh(k) = NewInstrs(created, k)
    BY DEF List!Fresh, NewInstrs
  <2>4. List!PutAt(m, List!Fresh(k)) = PutIn(Instrs(block), m, NewInstrs(created, k))
    BY <2>3 DEF List!PutAt, PutIn
  <2>5. Instrs(block)' = List!PutAt(m, List!Fresh(k))
    BY <1>3, <2>4 DEF Inserts
  <2> QED BY <2>1, <2>2, <2>5
<1>5. ASSUME NEW k \in 1..MaxNew, InsertAtEnd(k)
      PROVE  CallsInv' /\ List!Next
  <2>1. /\ k \in Nat /\ k >= 1 /\ Fits(k) /\ created' = created + k
        /\ block' = InsertInstr(block, NewInstrs(created, k), None, None)
        /\ call' = Call("insert", None, None)
    BY <1>5, BoundsAssumption DEF InsertAtEnd
  <2>2. Inserts(block, block', created, k, Len(Instrs(block)))
    BY <1>1, <2>1, AppendShows
  <2>3. List!InsertAtEnd(k) /\ k \in 1..MaxCreated /\ CallsInv'
    BY <1>3, <2>1, <2>2 DEF List!InsertAtEnd, List!Call, Call
  <2> QED BY <2>3 DEF List!Next
<1>6. ASSUME NEW i \in 1..created, NEW k \in 1..MaxNew,
             NEW before \in {None} \cup 1..created, InsertAfter(i, before, k)
      PROVE  CallsInv' /\ List!Next
  <2>1. /\ k \in Nat /\ k >= 1 /\ Fits(k) /\ created' = created + k
        /\ Known(i) /\ RoomAfter(i, k)
        /\ before = None \/ Known(before)
        /\ AnchorsInOrder(block, before, i)
        /\ block' = InsertInstr(block, NewInstrs(created, k), before, i)
        /\ call' = Call("insert", before, i)
    BY <1>6, BoundsAssumption DEF InsertAfter
  <2>2. PICK m \in 1..N : f[m] = block.index[i] /\ Instrs(block)[m] = i
    BY <1>b, <2>1
  <2>3. i \in DOMAIN block.index
    BY <1>b, <2>1
  <2>4. IF WindowFree(block, block.index[i] + 1, k)
          THEN block.index[i] + 1 + k <= block.pointer
          ELSE k <= block.index[i] + 1
    BY <2>1 DEF RoomAfter
  <2>5. Inserts(block, block', created, k, m)
    BY <1>1, <1>a, <2>1, <2>2, <2>3, <2>4, AfterShows DEF N
  <2>6. \/ before = None
        \/ \E l \in (m + 1)..Len(Instrs(block)) : Instrs(block)[l] = before
    <3>1. SUFFICES ASSUME Known(before)
                   PROVE  \E l \in (m + 1)..Len(Instrs(block)) :
                            Instrs(block)[l] = before
      BY <2>1
    <3>2. PICK l \in 1..N : /\ f[l] = block.index[before]
                            /\ Instrs(block)[l] = before
      BY <1>b, <3>1
    <3>3. before \in DOMAIN block.index
      BY <1>b, <3>1
    <3>4. f[l] \in Nat /\ f[m] \in Nat
      BY <1>4
    <3>5. f[m] < f[l]
      BY <2>1, <2>2, <2>3, <3>2, <3>3, <3>4 DEF AnchorsInOrder, IndexOf, None
    <3>6. ~(l < m) /\ l # m
      BY <1>4, <3>4, <3>5
    <3>7. l \in (m + 1)..N
      BY <1>2, <3>6
    <3> QED BY <1>2, <3>2, <3>7
  <2>7. List!InsertBehind(m, k)
    BY <1>3, <2>1, <2>2, <2>5, <2>6 DEF List!InsertBehind, List!Call, Call
  <2>8. m \in 1..Len(Instrs(block)) /\ k \in 1..MaxCreated /\ CallsInv'
    BY <1>2, <1>3, <2>1, <2>5
  <2> QED BY <2>7, <2>8 DEF List!Next
<1>7. ASSUME NEW i \in 1..created, NEW k \in 1..MaxNew, InsertInFront(i, k)
      PROVE  CallsInv' /\ List!Next
  <2>1. /\ k \in Nat /\ k >= 1 /\ Fits(k) /\ created' = created + k
        /\ Known(i) /\ RoomInFront(i, k)
        /\ block' = InsertInstr(block, NewInstrs(created, k), i, None)
        /\ call' = Call("insert", i, None)
    BY <1>7, BoundsAssumption DEF InsertInFront
  <2>2. PICK m \in 1..N : f[m] = block.index[i] /\ Instrs(block)[m] = i
    BY <1>b, <2>1
  <2>3. i \in DOMAIN block.index
    BY <1>b, <2>1
  <2>4. /\ WindowFree(block, 0, k) /\ k <= block.pointer
        /\ \A p \in Live(block) : block.index[i] <= p
    BY <2>1 DEF RoomInFront
  <2>5. Inserts(block, block', created, k, 0)
    BY <1>1, <2>1, <2>3, <2>4, FrontShows
  <2>6. m = 1
    <3>1. 1 \in 1..N /\ m \in Nat
      BY <1>2
    <3>2. f[1] \in Nat /\ f[m] \in Nat /\ f[m] <= f[1]
      BY <1>4, <2>2, <2>4, <3>1
    <3>3. ~(1 < m)
      BY <1>4, <3>1, <3>2
    <3> QED BY <3>1, <3>3
  <2>7. Instrs(block) # <<>>
    BY <1>2
  <2>8. List!InsertInFront(k) /\ k \in 1..MaxCreated /\ CallsInv'
    BY <1>3, <2>1, <2>2, <2>5, <2>6, <2>7
       DEF List!InsertInFront, List!Call, Call
  <2> QED BY <2>8 DEF List!Next
<1>8. ASSUME NEW i \in 1..created, Reset(i)
      PROVE  CallsInv' /\ List!Next
  <2>1. /\ Known(i) /\ created' = created + 1
        /\ block' = ResetInstr(block, i, created + 1)
        /\ call' = Call("reset", None, i)
    BY <1>8 DEF Reset
  <2>2. i \in DOMAIN block.index
    BY <1>b, <2>1
  <2>3. PICK m \in 1..N : f[m] = block.index[i] /\ Instrs(block)[m] = i
    BY <1>b, <2>1
  <2>4. /\ BlockInv(block', created + 1)
        /\ Instrs(block') = [Instrs(block) EXCEPT ![m] = created + 1]
    BY <1>1, <1>a, <2>1, <2>2, <2>3, ResetShows DEF N
  <2>5. CallsInv'
    BY <1>1, <2>1, <2>4 DEF CallsInv
  <2>6. List!Replace(m) /\ m \in 1..Len(Instrs(block))
    BY <1>2, <2>1, <2>3, <2>4 DEF List!Replace, List!Call, Call
  <2> QED BY <2>5, <2>6 DEF List!Next
<1>9. ASSUME NEW i \in 1..created, Remove(i)
      PROVE  CallsInv' /\ List!Next
  <2>1. /\ Known(i) /\ Cuttable(i) /\ created' = created
        /\ block' = RemoveFrom(block, i)
        /\ call' = Call("remove", None, i)
    BY <1>9 DEF Remove
  <2>2. i \in DOMAIN block.index
    BY <1>b, <2>1
  <2>3. PICK m \in 1..N : /\ f[m] = block.index[i]
                          /\ Instrs(block)[m] = i
                          /\ \A n \in 1..(m - 1) : f[n] < block.index[i]
    BY <1>b, <2>1
  <2>a. \A p \in Live(block) :
          p >= block.index[i] => block.slot[p] \in DOMAIN block.index
    BY <2>1 DEF Cuttable
  <2>4. /\ BlockInv(block', created)
        /\ Instrs(block') = Prefix(Instrs(block), m - 1)
    BY <1>1, <1>a, <2>1, <2>2, <2>3, <2>a, RemoveShows DEF N
  <2>5. CallsInv'
    BY <1>1, <2>1, <2>4 DEF CallsInv
  <2>6. List!CutFrom(m) /\ m \in 1..Len(Instrs(block))
    BY <1>2, <2>1, <2>3, <2>4 DEF List!CutFrom, List!Call, Call, Prefix
  <2> QED BY <2>5, <2>6 DEF List!Next
<1>10. ASSUME Replicate
       PROVE  CallsInv' /\ List!Next
  <2>1. /\ N >= 1 /\ Fits(2 * N) /\ created' = created + 2 * N
        /\ block' = Replica(block, NewInstrs(created, N),
                            NewInstrs(created + N, N))
        /\ call' = Call("replicate", None, None)
    BY <1>10 DEF Replicate, N
  <2>2. /\ BlockInv(block', created + 2 * N)
        /\ Instrs(block') = [j \in 1..N |-> created + N + j]
    BY <1>1, <1>2, <2>1, ReplicaShows
  <2>3. CallsInv'
    BY <1>1, <1>2, <2>1, <2>2 DEF CallsInv
  <2>4. 2 * N \in 1..MaxCreated
    BY <1>1, <1>2, <2>1, BoundsAssumption DEF Fits
  <2>5. Instrs(block') = [j \in 1..N |-> created' - N + j]
    <3>1. \A j \in 1..N : created + N + j = created' - N + j
      BY <1>1, <1>2, <2>1
    <3> QED BY <2>2, <3>1
  <2>6. List!Copy(2 * N)
    BY <1>2, <2>1, <2>5 DEF List!Copy, List!Call, Call
  <2> QED BY <2>3, <2>4, <2>6 DEF List!Next
<1>11. CASE UNCHANGED vars
  <2>1. block' = block /\ created' = created /\ call' = call
    BY <1>11 DEF vars
  <2> QED BY <1>1, <2>1 DEF CallsInv, List!vars
<1> QED BY <1>5, <1>6, <1>7, <1>8, <1>9, <1>10, <1>11 DEF Next

LEMMA CallsAlways == Spec => []CallsInv
<1>1. Init => CallsInv
  BY CallsInit
<1>2. CallsInv /\ [Next]_vars => CallsInv'
  BY CallsStep
<1> QED BY <1>1, <1>2, PTL DEF Spec

-----------------------------------------------------------------------------
\* Nothing is ever placed behind the pointer, where instrs does not see it.
THEOREM VisibleAlways == Spec => []AllVisible
<1>1. CallsInv => AllVisible
  BY DEF CallsInv, BlockInv, Visible, AllVisible
<1> QED BY <1>1, CallsAlways, PTL

\* The block is the list InstructionList specifies, whatever its stride.
THEOREM BlockIsList == Spec => ImplementsList
<1>1. Init => List!Init
  BY CallsInit
<1>2. CallsInv /\ [Next]_vars => [List!Next]_List!vars
  BY CallsStep
<1> QED BY <1>1, <1>2, CallsAlways, PTL DEF Spec, ImplementsList, List!Spec

\* What distance() counts in the dictionary is the number of instructions.
THEOREM DistanceAlways == Spec => []DistanceAgrees
<1>1. ASSUME CallsInv PROVE DistanceAgrees
  <2> DEFINE seq == Instrs(block)
             N == Cardinality(Live(block))
             index == block.index
  <2>1. created \in Nat /\ BlockInv(block, created)
    BY <1>1 DEF CallsInv
  <2>2. /\ Live(block) = DOMAIN block.slot /\ Live(block) \in SUBSET Nat
        /\ N \in Nat /\ \E f : Ascends(f, N, Live(block))
    BY <2>1, Enumerated
  <2>3. PICK f : Ascends(f, N, Live(block))
    BY <2>2
  <2> HIDE DEF N
  <2>4. seq = [n \in 1..N |-> block.slot[f[n]]]
    BY <2>2, <2>3, Shown
  <2>5. /\ \A n \in 1..N : f[n] \in DOMAIN block.slot /\ f[n] \in Nat
        /\ \A x, y \in 1..N : x < y => f[x] < f[y]
        /\ \A p \in DOMAIN block.slot : \E n \in 1..N : f[n] = p
    <3>1. /\ \A n \in 1..N : f[n] \in DOMAIN block.slot
          /\ \A x, y \in 1..N : x < y => f[x] < f[y]
          /\ \A p \in DOMAIN block.slot : \E n \in 1..N : f[n] = p
      BY <2>2, <2>3 DEF Ascends
    <3>2. \A p \in DOMAIN block.slot : p \in Nat
      BY <2>2
    <3> QED BY <3>1, <3>2
  <2>6. /\ \A i, j \in DOMAIN index : index[i] = index[j] => i = j
        /\ \A p \in DOMAIN block.slot : \E i \in DOMAIN index : index[i] = p
        /\ \A i \in DOMAIN index :
             /\ index[i] \in DOMAIN block.slot
             /\ \A p \in DOMAIN block.slot : block.slot[p] = i => index[i] = p
    BY <2>1 DEF BlockInv, Indexed, Sound, IndexSound
  <2> HIDE DEF seq, index
  <2>7. ASSUME NEW m \in 1..N, NEW n \in 1..N, m <= n,
               seq[m] \in DOMAIN index, seq[n] \in DOMAIN index
        PROVE  Distance(block, seq[m], seq[n]) = n - m
    <3> DEFINE E == {e \in DOMAIN index : f[m] < index[e] /\ index[e] <= f[n]}
               g == [x \in (m + 1)..n |-> CHOOSE e \in DOMAIN index : index[e] = f[x]]
    <3>1. index[seq[m]] = f[m] /\ index[seq[n]] = f[n]
      BY <2>4, <2>5, <2>6, <2>7
    <3>2. f[m] <= f[n] /\ f[m] \in Nat /\ f[n] \in Nat
      <4>1. f[m] \in Nat /\ f[n] \in Nat /\ (m < n => f[m] < f[n])
        BY <2>5
      <4>2. m < n \/ m = n
        BY <2>2, <2>7
      <4> QED BY <4>1, <4>2
    <3>3. Distance(block, seq[m], seq[n]) = Cardinality(E)
      <4>1. IndexOf(block, seq[m]) = f[m] /\ IndexOf(block, seq[n]) = f[n]
        BY <2>7, <3>1 DEF IndexOf, index
      <4>2. (IF f[m] < f[n] THEN f[m] ELSE f[n]) = f[m]
        BY <3>2
      <4>3. Distance(block, seq[m], seq[n]) =
              Cardinality({e \in DOMAIN index :
                             /\ (IF f[m] < f[n] THEN f[m] ELSE f[n]) < index[e]
                             /\ index[e] <=
                                  (IF (IF f[m] < f[n] THEN f[m] ELSE f[n]) = f[m]
                                     THEN f[n] ELSE f[m])})
        BY <4>1 DEF Distance, index
      <4> QED BY <4>2, <4>3
    <3>4. \A x \in (m + 1)..n : x \in 1..N /\ m < x
      BY <2>2
    <3>5. \A x \in (m + 1)..n : g[x] \in DOMAIN index /\ index[g[x]] = f[x]
      BY <2>5, <2>6, <3>4
    <3> DEFINE T == (m + 1)..n
    <3>6. g \in [T -> DOMAIN index]
      BY <3>5
    <3> HIDE DEF g
    <3>7. \A x \in T : g[x] \in E
      <4> SUFFICES ASSUME NEW x \in T PROVE g[x] \in E
        OBVIOUS
      <4>1. x \in 1..N /\ m < x /\ (x < n \/ x = n)
        BY <2>2, <3>4
      <4>2. f[m] < f[x] /\ (f[x] < f[n] \/ f[x] = f[n]) /\ f[x] \in Nat
        BY <2>5, <4>1
      <4>3. f[x] <= f[n]
        BY <3>2, <4>2
      <4> QED BY <3>5, <4>2, <4>3
    <3>8. \A x, y \in T : g[x] = g[y] => x = y
      <4> SUFFICES ASSUME NEW x \in T, NEW y \in T, g[x] = g[y] PROVE x = y
        OBVIOUS
      <4>1. f[x] = f[y] /\ x \in 1..N /\ y \in 1..N /\ f[x] \in Nat
        BY <2>5, <3>4, <3>5
      <4>2. ~(x < y) /\ ~(y < x)
        BY <2>5, <4>1
      <4> QED BY <4>1, <4>2
    <3>9. \A e \in E : \E x \in T : g[x] = e
      <4> SUFFICES ASSUME NEW e \in DOMAIN index, f[m] < index[e],
                          index[e] <= f[n]
                   PROVE  \E x \in T : g[x] = e
        OBVIOUS
      <4>1. PICK x \in 1..N : f[x] = index[e]
        BY <2>5, <2>6
      <4>2. m < x
        BY <2>5, <3>2, <4>1
      <4>3. ~(n < x)
        BY <2>5, <3>2, <4>1
      <4>4. x \in T
        BY <2>2, <4>2, <4>3
      <4>5. g[x] = e
        BY <2>6, <3>5, <4>1, <4>4
      <4> QED BY <4>4, <4>5
    <3>10. IsFiniteSet(T) /\ Cardinality(T) = n - m
      <4> DEFINE lo == m + 1
      <4>1. lo \in Int /\ n \in Int
        BY <2>2
      <4>2. (IF lo > n THEN 0 ELSE n - lo + 1) = n - m
        BY <2>2, <2>7
      <4> HIDE DEF lo
      <4>3. /\ IsFiniteSet(lo..n)
            /\ Cardinality(lo..n) = IF lo > n THEN 0 ELSE n - lo + 1
        BY <4>1, FS_Interval
      <4> QED BY <4>2, <4>3 DEF lo
    <3> HIDE DEF T, E
    <3>11. g \in Bijection(T, E)
      <4>1. g \in [T -> E]
        BY <3>6, <3>7
      <4> QED BY <3>8, <3>9, <4>1
              DEF Bijection, Injection, IsInjective, Surjection
    <3>12. Cardinality(E) = n - m
      <4>1. ExistsBijection(T, E)
        BY <3>11 DEF ExistsBijection
      <4> QED BY <3>10, <4>1, FS_Bijection
    <3> QED BY <3>3, <3>12
  <2>8. DOMAIN seq = 1..N
    BY <2>4
  <2>9. \A m, n \in DOMAIN seq :
          m <= n /\ Known(seq[m]) /\ Known(seq[n])
            => Distance(block, seq[m], seq[n]) = n - m
    BY <2>7, <2>8 DEF Known, index
  <2> QED BY <2>9 DEF DistanceAgrees, seq
<1> QED BY <1>1, CallsAlways, PTL
=============================================================================
