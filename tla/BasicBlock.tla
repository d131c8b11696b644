----------------------------- MODULE BasicBlock -----------------------------
(***************************************************************************)
(* A basic block (class Bbl of code/bbl.py) as a value, and the methods    *)
(* that read or update it as operators on that value.                      *)
(*                                                                         *)
(* A block is a record with the three fields the methods keep in step:     *)
(*   slot     the list _instrs, as the function from the occupied          *)
(*            positions to the instruction there (positions holding None   *)
(*            are absent, so the padding _check_size adds is invisible)    *)
(*   pointer  _pointer: only positions below it belong to the block        *)
(*   index    _instdic: the position each instruction is believed to be at *)
(* Instructions are objects; they are numbered in creation order.          *)
(***************************************************************************)
EXTENDS Integers, Sequences, FiniteSets

CONSTANT Stride  \* distance of two consecutive slots of a new block (10)

ASSUME StrideAssumption == Stride \in Nat \ {0}

None == -1  \* no before/after argument, and _index of an unknown instruction

\* The k instructions created after the first n.
NewInstrs(n, k) == [j \in 1..k |-> n + j]

Elems(s) == {s[j] : j \in 1..Len(s)}

\* A dictionary is rebuilt from the list: every instruction at its position.
IndexOfSlots(slot) ==
    [i \in {slot[p] : p \in DOMAIN slot} |->
        CHOOSE p \in DOMAIN slot : slot[p] = i]

\* Bbl.__init__: instruction j of the block goes to slot Stride * j.
NewBlock(new) ==
    LET slot == [p \in {Stride * j : j \in 1..Len(new)} |->
                    new[CHOOSE j \in 1..Len(new) : p = Stride * j]]
    IN  [slot |-> slot, pointer |-> Stride * (Len(new) + 1),
         index |-> IndexOfSlots(slot)]

\* The positions that are part of the block, and its instructions.
Live(b) == {p \in DOMAIN b.slot : p < b.pointer}
Members(b) == {b.slot[p] : p \in Live(b)}

\* Bbl.instrs: the instructions below the pointer, in position order.
Instrs(b) ==
    [n \in 1..Cardinality(Live(b)) |->
        b.slot[CHOOSE p \in Live(b) :
                 Cardinality({q \in Live(b) : q < p}) = n - 1]]

\* Bbl._index
IndexOf(b, i) == IF i \in DOMAIN b.index THEN b.index[i] ELSE None

\* Slice assignment over free or overwritten positions from..from+k-1, and
\* their entries in the dictionary.
Place(b, new, from) ==
    LET window == from..(from + Len(new) - 1)
    IN  [b EXCEPT
          !.slot = [p \in DOMAIN b.slot \cup window |->
                      IF p \in window THEN new[p - from + 1] ELSE b.slot[p]],
          !.index = [i \in DOMAIN b.index \cup Elems(new) |->
                      IF i \in DOMAIN b.index THEN b.index[i]
                      ELSE from - 1 + CHOOSE j \in 1..Len(new) : new[j] = i]]

WindowFree(b, at, k) == at..(at + k - 1) \cap DOMAIN b.slot = {}

\* Mutant: the pointer moves by one, not by the number of instructions.
AppendPointerByOne(b, new) ==
    [Place(b, new, b.pointer) EXCEPT !.pointer = b.pointer + 1]

\* insert_instr, neither anchor known: at the pointer, which moves past them.
AppendInstrs(b, new) ==
    [Place(b, new, b.pointer) EXCEPT !.pointer = b.pointer + Len(new)]

\* _instrs[at:k] = new, for the k instructions of new. With at >= k the slice
\* is empty and the tail moves up; with at < k positions at..k-1 are replaced.
Shifted(slot, new, at) ==
    LET k == Len(new)
        hole == IF at < k THEN k - at ELSE 0
        rest == {p \in DOMAIN slot : p < at \/ p >= at + hole}
        moved(p) == IF p < at THEN p ELSE p + k - hole
        came(q) == IF q < at THEN q ELSE q - k + hole
    IN  [q \in {moved(p) : p \in rest} \cup at..(at + k - 1) |->
            IF q \in at..(at + k - 1) THEN new[q - at + 1] ELSE slot[came(q)]]

\* Mutants: the dictionary is not rebuilt; the instructions in the way are
\* moved to the end of the block.
SpliceStaleIndex(b, new, at) ==
    [Place(b, new, at) EXCEPT !.slot = Shifted(b.slot, new, at),
                              !.pointer = b.pointer + Len(new)]
SpliceMoveToEnd(b, new, at) ==
    LET k == Len(new)
        window == at..(at + k - 1)
        free == [p \in DOMAIN b.slot \ window |-> b.slot[p]]
        displaced == {p + b.pointer - at : p \in window \cap DOMAIN b.slot}
        slot == [p \in DOMAIN free \cup window \cup displaced |->
                   IF p \in window THEN new[p - at + 1]
                   ELSE IF p \in displaced THEN b.slot[p - b.pointer + at]
                   ELSE free[p]]
    IN  [slot |-> slot, pointer |-> b.pointer + k,
         index |-> IndexOfSlots(slot)]

\* insert_instr, no room behind the anchor: the list grows there and the
\* dictionary is rebuilt from it.
Splice(b, new, at) ==
    LET slot == Shifted(b.slot, new, at)
    IN  [slot |-> slot, pointer |-> b.pointer + Len(new),
         index |-> IndexOfSlots(slot)]

\* Mutant: without room behind the anchor the instructions go to the end.
InsertInstrElsewhere(b, new, before, after) ==
    LET at == IndexOf(b, after) + 1
    IN  IF (IndexOf(b, before) # None \/ at # 0) /\ WindowFree(b, at, Len(new))
          THEN Place(b, new, at)
        ELSE AppendInstrs(b, new)

\* Bbl.insert_instr. The position depends on the anchor "after" alone: with
\* only "before" known, "at" is position 0.
InsertInstr(b, new, before, after) ==
    LET at == IndexOf(b, after) + 1
    IN  IF IndexOf(b, before) = None /\ at = 0 THEN AppendInstrs(b, new)
        ELSE IF WindowFree(b, at, Len(new)) THEN Place(b, new, at)
        ELSE Splice(b, new, at)

\* The assertion insert_instr makes of its two anchors.
AnchorsInOrder(b, before, after) ==
    \/ IndexOf(b, before) > IndexOf(b, after)
    \/ IndexOf(b, before) = None

\* Mutant: the new instruction enters the dictionary beside the old one.
ResetKeepingBoth(b, i, n) ==
    [b EXCEPT !.slot[b.index[i]] = n,
              !.index = [j \in DOMAIN b.index \cup {n} |->
                           IF j = n THEN b.index[i] ELSE b.index[j]]]

\* Bbl.reset_instruction: the slot changes, the dictionary does not.
ResetInstr(b, i, n) == [b EXCEPT !.slot[b.index[i]] = n]

\* Bbl.remove_instructions_from: i and everything behind it. The dictionary is
\* emptied entry by entry first, and an instruction it lacks ends the call.
RemoveFrom(b, i) ==
    LET idx == b.index[i]
        tail == {p \in Live(b) : p >= idx}
        unknown == {p \in tail : b.slot[p] \notin DOMAIN b.index}
        popped == {b.slot[p] : p \in {q \in tail : \A u \in unknown : q < u}}
        index == [j \in DOMAIN b.index \ popped |-> b.index[j]]
    IN  IF unknown # {} THEN [b EXCEPT !.index = index]
        ELSE [slot |-> [p \in {q \in DOMAIN b.slot : q < idx} |-> b.slot[p]],
              pointer |-> idx, index |-> index]

\* Mutant: the replica holds the instructions themselves, not copies.
ReplicaShared(b, placeholders, copies) ==
    LET fresh == NewBlock(placeholders)
    IN  [fresh EXCEPT !.slot =
           [p \in DOMAIN fresh.slot |->
              Instrs(b)[CHOOSE j \in 1..Len(placeholders) :
                          placeholders[j] = fresh.slot[p]]]]

\* Bbl.replicate: a new block of placeholders, each then reset to a copy. The
\* placeholders are the only instructions the new dictionary knows.
Replica(b, placeholders, copies) ==
    LET fresh == NewBlock(placeholders)
    IN  [fresh EXCEPT !.slot =
           [p \in DOMAIN fresh.slot |->
              copies[CHOOSE j \in 1..Len(placeholders) :
                       placeholders[j] = fresh.slot[p]]]]

\* Bbl.distance: dictionary entries behind the first up to the second.
Distance(b, i, j) ==
    LET lo == IF IndexOf(b, i) < IndexOf(b, j) THEN IndexOf(b, i)
              ELSE IndexOf(b, j)
        hi == IF lo = IndexOf(b, i) THEN IndexOf(b, j) ELSE IndexOf(b, i)
    IN  Cardinality({e \in DOMAIN b.index :
                       lo < b.index[e] /\ b.index[e] <= hi})
=============================================================================
