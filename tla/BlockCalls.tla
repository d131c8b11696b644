----------------------------- MODULE BlockCalls -----------------------------
(***************************************************************************)
(* One basic block under the calls for which its methods keep their        *)
(* promise.  The block implements InstructionList as long as its callers   *)
(* respect RoomAfter, RoomInFront and Cuttable; the run layout of          *)
(* CodeLayout shows what is left when they do not.                         *)
(***************************************************************************)
EXTENDS InstructionSupply

VARIABLES
    block,
    call    \* the last call and the instructions it was given as anchors

vars == <<block, created, call>>

Call(op, before, after) == [op |-> op, before |-> before, after |-> after]

\* The call would reach exactly the position of a member of the block.
Known(i) == i \in DOMAIN block.index /\ i \in Members(block)

\* Insertion of k instructions behind i stays below the pointer, or shifts the
\* tail without overwriting any of it.
RoomAfter(i, k) ==
    LET at == block.index[i] + 1
    IN  IF WindowFree(block, at, k) THEN at + k <= block.pointer ELSE k <= at

\* The only "before" without "after" that is honoured: the first instruction,
\* while the positions from 0 are free.
RoomInFront(i, k) ==
    /\ WindowFree(block, 0, k) /\ k <= block.pointer
    /\ \A p \in Live(block) : block.index[i] <= p

Cuttable(i) ==
    \A p \in Live(block) :
        p >= block.index[i] => block.slot[p] \in DOMAIN block.index

Init ==
    \E n \in 1..MaxCreated :
        /\ created = n /\ block = NewBlock(NewInstrs(0, n))
        /\ call = Call("new", None, None)

\* insert_instr(instrs)
InsertAtEnd(k) ==
    /\ Fits(k)
    /\ block' = InsertInstr(block, NewInstrs(created, k), None, None)
    /\ created' = created + k
    /\ call' = Call("insert", None, None)

\* insert_instr(instrs, after=i), alone or with a later member as before
InsertAfter(i, before, k) ==
    /\ Fits(k) /\ Known(i) /\ RoomAfter(i, k)
    /\ before = None \/ Known(before)
    /\ AnchorsInOrder(block, before, i)
    /\ block' = InsertInstr(block, NewInstrs(created, k), before, i)
    /\ created' = created + k
    /\ call' = Call("insert", before, i)

\* insert_instr(instrs, before=i)
InsertInFront(i, k) ==
    /\ Fits(k) /\ Known(i) /\ RoomInFront(i, k)
    /\ block' = InsertInstr(block, NewInstrs(created, k), i, None)
    /\ created' = created + k
    /\ call' = Call("insert", i, None)

\* reset_instruction(i, new)
Reset(i) ==
    /\ Fits(1) /\ Known(i)
    /\ block' = ResetInstr(block, i, created + 1)
    /\ created' = created + 1
    /\ call' = Call("reset", None, i)

\* remove_instructions_from(i)
Remove(i) ==
    /\ Known(i) /\ Cuttable(i)
    /\ block' = RemoveFrom(block, i)
    /\ call' = Call("remove", None, i)
    /\ UNCHANGED created

\* replicate(): the caller goes on with the replica
Replicate ==
    LET n == Cardinality(Live(block))
    IN  /\ n >= 1 /\ Fits(2 * n)
        /\ block' = Replica(block, NewInstrs(created, n),
                            NewInstrs(created + n, n))
        /\ created' = created + 2 * n
        /\ call' = Call("replicate", None, None)

Next ==
    \/ \E k \in 1..MaxNew : InsertAtEnd(k)
    \/ \E i \in 1..created, k \in 1..MaxNew :
         \E before \in {None} \cup 1..created : InsertAfter(i, before, k)
    \/ \E i \in 1..created, k \in 1..MaxNew : InsertInFront(i, k)
    \/ \E i \in 1..created : Reset(i) \/ Remove(i)
    \/ Replicate

Spec == Init /\ [][Next]_vars

----------------------------------------------------------------------------
\* Every occupied position is below the pointer, so that no instruction is
\* placed where instrs (and the file writer) will not see it and where the
\* next append overwrites it (insert_instr, bbl.py lines 255-295).
AllVisible == \A p \in DOMAIN block.slot : p < block.pointer

\* distance(i, j) is the number of instructions from the first to the second:
\* the dictionary it counts in has one entry per instruction of the block in
\* spite of the entries reset_instruction leaves behind.
DistanceAgrees ==
    LET seq == Instrs(block)
    IN  \A m, n \in DOMAIN seq :
          m <= n /\ Known(seq[m]) /\ Known(seq[n])
            => Distance(block, seq[m], seq[n]) = n - m

List == INSTANCE InstructionList
            WITH list <- Instrs(block), MaxGrowth <- MaxCreated

\* The block is a list: each call does to the instructions the block shows
\* what its documentation says and nothing else.  The new instructions are
\* directly behind "after", in front of the first instruction when that is
\* "before", or at the end when there is no anchor; the instruction named is
\* the one replaced, and the one from which the tail is cut off.
ImplementsList == List!Spec
=============================================================================
