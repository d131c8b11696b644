----------------------------- MODULE CodeLayout -----------------------------
(***************************************************************************)
(* The basic blocks of a benchmark (Cfg of code/cfg.py, add_instructions   *)
(* of code/benchmark.py) under every call the passes can make: directly on *)
(* a block, or through the benchmark, which looks the block up with        *)
(* Cfg.index.  No caller discipline is assumed.                            *)
(***************************************************************************)
EXTENDS InstructionSupply

CONSTANT MaxBlocks  \* bound on the blocks of the benchmark

ASSUME BlocksAssumption == MaxBlocks \in Nat

VARIABLES
    blocks,   \* Cfg._cfg_nodes
    added     \* the last add_instructions call that returned normally

layoutVars == <<blocks, created, added>>

NoCall == [new |-> <<>>, after |-> None, before |-> None]

LayoutInit == blocks = <<>> /\ created = 0 /\ added = NoCall

Holders(i) == {n \in DOMAIN blocks : IndexOf(blocks[n], i) >= 0}

\* Cfg.index. The test is inverted: for an instruction some block holds it
\* answers -1, which get_bbl reads as "the last block"; for an unknown one it
\* raises IndexError, so the call has an answer only if a block holds i.
HasCfgIndex(i) == Holders(i) # {}
CfgIndex(i) == -1

\* Cfg.get_bbl, with Python's negative positions, as a position of blocks
GetBbl(n) == IF n < 0 THEN Len(blocks) + n + 1 ELSE n + 1

InsertInto(n, k, before, after) ==
    /\ AnchorsInOrder(blocks[n], before, after)
    /\ blocks' = [blocks EXCEPT ![n] =
                    InsertInstr(@, NewInstrs(created, k), before, after)]
    /\ created' = created + k

\* Cfg.add_bbl
AddBbl(n) ==
    /\ Fits(n) /\ Len(blocks) < MaxBlocks
    /\ blocks' = Append(blocks, NewBlock(NewInstrs(created, n)))
    /\ created' = created + n
    /\ UNCHANGED added

\* A pass calls insert_instr on a block it holds.
InsertInstrs(n, k, before, after) ==
    /\ Fits(k)
    /\ InsertInto(n, k, before, after)
    /\ UNCHANGED added

\* Benchmark.add_instructions. Both indexes are -1 when both anchors are given
\* and known, so the branches for different blocks are never taken.
AddInstructions(k, before, after) ==
    /\ Fits(k) /\ blocks # <<>>
    /\ \A i \in {before, after} \ {None} : HasCfgIndex(i)
    /\ LET n == IF {before, after} = {None} THEN Len(blocks)
                ELSE IF after = None THEN GetBbl(CfgIndex(before))
                ELSE GetBbl(CfgIndex(after))
       IN  InsertInto(n, k, before, after)
    /\ added' = [new |-> NewInstrs(created, k), after |-> after,
                 before |-> before]

\* ReproduceSequencePass and Bbl.replicate put a new instruction in a slot.
ResetInstruction(n, i) ==
    /\ Fits(1) /\ IndexOf(blocks[n], i) >= 0
    /\ blocks' = [blocks EXCEPT ![n] = ResetInstr(@, i, created + 1)]
    /\ created' = created + 1
    /\ UNCHANGED added

\* GenericCodeStructurePass appends a replica of a block to the benchmark.
ReplicateBlock(n) ==
    LET size == Cardinality(Live(blocks[n]))
    IN  /\ size >= 1 /\ Fits(2 * size) /\ Len(blocks) < MaxBlocks
        /\ blocks' = Append(blocks,
                        Replica(blocks[n], NewInstrs(created, size),
                                NewInstrs(created + size, size)))
        /\ created' = created + 2 * size
        /\ UNCHANGED added

Anchors == {None} \cup 1..created

LayoutNext ==
    \/ \E n \in 1..MaxCreated : AddBbl(n)
    \/ \E n \in DOMAIN blocks, k \in 1..MaxNew :
         \E before, after \in Anchors : InsertInstrs(n, k, before, after)
    \/ \E k \in 1..MaxNew :
         \E before, after \in Anchors : AddInstructions(k, before, after)
    \/ \E n \in DOMAIN blocks, i \in 1..created : ResetInstruction(n, i)
    \/ \E n \in DOMAIN blocks : ReplicateBlock(n)

LayoutSpec == LayoutInit /\ [][LayoutNext]_layoutVars

----------------------------------------------------------------------------
Slots(n) == DOMAIN blocks[n].slot

\* An instruction sits at one position of one block, whatever is overwritten,
\* shifted or replaced: no call duplicates a slot (the slice assignments of
\* insert_instr, bbl.py lines 261, 281 and 291).
OnePlace ==
    \A m, n \in DOMAIN blocks : \A p \in Slots(m), q \in Slots(n) :
        blocks[m].slot[p] = blocks[n].slot[q] => m = n /\ p = q

\* The dictionary of a block is never wrong about an instruction the block
\* still has: _index may miss one put there by reset_instruction and may know
\* one that was overwritten, but never points at a neighbour (_instdic against
\* _instrs, bbl.py lines 199-209 and 263-295).
IndexRight ==
    \A n \in DOMAIN blocks : \A i \in DOMAIN blocks[n].index :
        \A p \in Slots(n) : blocks[n].slot[p] = i => blocks[n].index[i] = p

\* No call reorders code: two instructions of a block that survive a call stay
\* in the order they had (bbl.py lines 236-295).
PositionIn(b, i) == CHOOSE p \in DOMAIN b.slot : b.slot[p] = i
OrderKept ==
    [][\A n \in DOMAIN blocks :
         LET both == {blocks[n].slot[p] : p \in Slots(n)}
                     \cap {blocks'[n].slot[p] : p \in DOMAIN blocks'[n].slot}
         IN  \A i, j \in both :
               PositionIn(blocks[n], i) < PositionIn(blocks[n], j)
                 => PositionIn(blocks'[n], i) < PositionIn(blocks'[n], j)]_layoutVars

\* "Adds the given instructions right after the specified instruction and
\* before the specified one" (benchmark.py lines 393-395): when the call
\* returns, some block shows the new instructions right behind "after".
AddedRightAfter ==
    added.after # None =>
        \E n \in DOMAIN blocks :
            LET seq == Instrs(blocks[n])
            IN  \E a \in DOMAIN seq :
                  /\ seq[a] = added.after
                  /\ a + Len(added.new) <= Len(seq)
                  /\ SubSeq(seq, a + 1, a + Len(added.new)) = added.new
=============================================================================
