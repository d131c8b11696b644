------------------------- MODULE InstructionSupply -------------------------
(***************************************************************************)
(* Where the instructions of a block come from: a call hands over new ones *)
(* (Bbl.__init__ and insert_instr make or are given them), numbered here   *)
(* in the order of their creation and bounded for the checks.              *)
(***************************************************************************)
EXTENDS BasicBlock

CONSTANTS
    MaxNew,      \* most instructions one call inserts
    MaxCreated   \* bound on the instructions ever created

ASSUME BoundsAssumption == MaxNew \in Nat /\ MaxCreated \in Nat

VARIABLE created  \* instructions created so far

Fits(k) == created + k <= MaxCreated
=============================================================================
