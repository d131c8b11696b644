------------------------------ MODULE RiscvISA ------------------------------
(***************************************************************************)
(* The code generation helpers of the RISC-V target (targets/riscv/isa)    *)
(* that passes build their code from: instructions that put a number or    *)
(* an address in a register, add to a register, compare and branch; and    *)
(* what these instructions do when they are executed.                      *)
(*                                                                         *)
(* Registers are their numbers.  A value is a number (var 0) or an address *)
(* of a variable, [var, n].  Immediates have ImmBits bits (12 in RISC-V),  *)
(* LUI sets UpperBits bits more (20); the two make half a word (32 bits).  *)
(***************************************************************************)
EXTENDS Integers, Sequences, FiniteSets, SequencesExt

CONSTANTS
    Regs,         \* registers, with register 0 that is always zero
    AddressRegs,  \* those get_register_for_address_arithmetic considers
    Scratch,      \* the scratch register
    ImmBits, UpperBits

ASSUME RiscvAssumption ==
    /\ Regs \subseteq Nat /\ IsFiniteSet(Regs) /\ 0 \in Regs /\ Scratch \in Regs
    /\ AddressRegs \subseteq Regs
    /\ ImmBits \in Nat \ {0, 1} /\ UpperBits \in Nat \ {0} /\ UpperBits + 2 > ImmBits

Half == ImmBits + UpperBits
TwoTo(n) == 2^n

\* The law of powers up to a word; the provers have no theory of them.
ASSUME PowersAssumption ==
    /\ TwoTo(0) = 1 /\ TwoTo(1) = 2
    /\ \A a, b \in 0..(2 * Half) : a + b <= 2 * Half =>
          TwoTo(a) \in Nat \ {0} /\ TwoTo(a + b) = TwoTo(a) * TwoTo(b)

Wrap(n) == n % TwoTo(2 * Half)
ShiftRight(n, k) == n \div TwoTo(k)
Low(n, k) == n % TwoTo(k)
Abs(n) == IF n < 0 THEN -n ELSE n

Number(n) == [var |-> 0, n |-> n]
Garbage == [var |-> -1, n |-> 0]  \* known to nobody
Unset == -1000000                 \* operand without a value, and no operand's value

\* The operands of each kind of instruction, in the order of its format.
\* Immediates and labels are in the first place; their type is not modelled.
Imm == [in |-> FALSE, out |-> FALSE, regs |-> {}]
Use == [in |-> TRUE, out |-> FALSE, regs |-> Regs]
Def == [in |-> FALSE, out |-> TRUE, regs |-> Regs]
Mod == [in |-> TRUE, out |-> TRUE, regs |-> Regs \ {0}]
Stack == [in |-> TRUE, out |-> FALSE, regs |-> {2}]
Compressed == 8..15
UseC == [in |-> TRUE, out |-> FALSE, regs |-> Regs \cap Compressed]
ModC == [in |-> TRUE, out |-> TRUE, regs |-> Regs \cap Compressed]
Operands ==
    [addi |-> <<Imm, Use, Def>>, slli |-> <<Imm, Use, Def>>,
     ori |-> <<Imm, Use, Def>>, lui |-> <<Imm, Def>>,
     auipc |-> <<Imm, Def>>, lo12 |-> <<Imm, Use, Def>>,
     or |-> <<Use, Use, Def>>, blt |-> <<Imm, Use, Use>>, nop |-> <<>>,
     add |-> <<Use, Use, Def>>, caddi |-> <<Imm, Mod>>,
     cand |-> <<ModC, UseC>>,
     addsp |-> <<Imm, Stack, Def>>, load |-> <<Imm, Use, Def>>]

\* An instruction; allow lists the reserved registers it may set.
Instr(kind, val) == [kind |-> kind, val |-> val, allow |-> {}]
Addi(imm, rs, rd) == Instr("addi", <<imm, rs, rd>>)

\* Instructions have the operands of their kind.
IsInstr(i) == /\ DOMAIN i = {"kind", "val", "allow"}
              /\ i.kind \in DOMAIN Operands
              /\ DOMAIN i.val = DOMAIN Operands[i.kind]
IsCode(s) == s \in Seq(ToSet(s)) /\ \A i \in ToSet(s) : IsInstr(i)

\* uses and sets of an instruction: every register operand has an own place.
UsedBy(i) == {i.val[o] : o \in {p \in DOMAIN i.val : Operands[i.kind][p].in}}
                 \ {Unset}
SetBy(i) == {i.val[o] : o \in {p \in DOMAIN i.val : Operands[i.kind][p].out}}
                \ {Unset}

IsImm(n) == -(TwoTo(ImmBits - 1)) <= n /\ n < TwoTo(ImmBits - 1)
Near(n) == Abs(n) < TwoTo(ImmBits - 1)

\* No immediate is the mark of an operand without a value.
ASSUME UnsetAssumption == ~IsImm(Unset)

-----------------------------------------------------------------------------
(* What passes know of the registers: a function from registers to values. *)
(* Where the searches of the context find several registers, they take the *)
(* one that was given its value first; here it is the lowest, which is the *)
(* same for registers initialized in their order.                          *)

First(S) == CHOOSE r \in S : \A q \in S : r <= q
SortedBy(S, rank(_)) ==
    [k \in 1..Cardinality(S) |->
        CHOOSE r \in S : Cardinality({q \in S : rank(q) < rank(r)}) = k - 1]
Sorted(S) == SortedBy(S, LAMBDA r : r)
Holding(known, v) == {r \in DOMAIN known : known[r] = v}

\* get_closest_value and get_closest_address_value among values of one kind
Closest(known, v) ==
    LET like == {r \in DOMAIN known : known[r].var = v.var}
        best == {r \in like : \A q \in like :
                    Abs(known[r].n - v.n) <= Abs(known[q].n - v.n)}
    IN  IF like = {} THEN {} ELSE {First(best)}

\* get_register_for_address_arithmetic: the second list of the code wants a
\* number below 8 and above 15, so only the compressed registers are found.
AddressRegsLeft(reserved) == AddressRegs \ reserved

\* Mutant: the carry of the lower part is not added to the upper part.
UpperLowerNoCarry(value, shift) ==
    <<Low(ShiftRight(value, shift + ImmBits), UpperBits),
      LET low == Low(ShiftRight(value, shift), ImmBits)
      IN  IF low >= TwoTo(ImmBits - 1) THEN low - TwoTo(ImmBits) ELSE low>>

\* The operands of LUI and ADDI for the half word of a value at a shift: the
\* immediate of ADDI is signed, so the upper part makes up for a negative one.
UpperLower(value, shift) ==
    LET upper == Low(ShiftRight(value, shift + ImmBits), UpperBits)
        low == Low(ShiftRight(value, shift), ImmBits)
    IN  IF low >= TwoTo(ImmBits - 1)
        THEN <<Low(upper + 1, UpperBits), low - TwoTo(ImmBits)>>
        ELSE <<upper, low>>

LuiAddi(rd, pair) == <<Instr("lui", <<pair[1], rd>>), Addi(pair[2], rd, rd)>>

\* The long path: the upper half, then the lower half in three pieces, each
\* shifted in and or-ed.
LongSet(rd, value) ==
    LET piece == ImmBits - 1
        last == Half - 2 * piece
        put(k, at) == <<Instr("slli", <<k, rd, rd>>),
                        Instr("ori", <<Low(ShiftRight(value, at), k), rd, rd>>)>>
    IN  LuiAddi(rd, UpperLower(value, Half))
            \o put(piece, piece + last) \o put(piece, last) \o put(last, 0)

\* set_register for an integer register
SetRegister(rd, value, known) ==
    LET current == rd \in DOMAIN known /\ known[rd].var = 0
        closest == Closest(known, Number(value))
        near == {r \in closest : Near(value - known[r].n)}
    IN  IF value = 0 THEN <<Addi(0, 0, rd)>>
        ELSE IF Holding(known, Number(value)) # {}
             THEN <<Addi(0, First(Holding(known, Number(value))), rd)>>
        ELSE IF current /\ Near(value - known[rd].n)
             THEN <<Addi(value - known[rd].n, rd, rd)>>
        ELSE IF near # {}
             THEN <<Addi(value - known[First(near)].n, First(near), rd)>>
        ELSE IF IsImm(value) THEN <<Addi(value, 0, rd)>>
        ELSE IF -(TwoTo(Half - 1)) <= value /\ value < TwoTo(Half - 1)
             THEN LuiAddi(rd, UpperLower(value, 0))
        ELSE LongSet(rd, value)

\* add_to_register: steps of the largest positive immediate, then the rest
AddToRegister(rd, value) ==
    LET most == TwoTo(ImmBits - 1) - 1
        steps == IF value = 0 THEN 0 ELSE (Abs(value) - 1) \div most
        sign == IF value < 0 THEN -1 ELSE 1
    IN  [s \in 1..steps |-> Addi(sign * most, rd, rd)]
            \o IF value = 0 THEN <<>>
               ELSE <<Addi(value - sign * steps * most, rd, rd)>>

\* set_register_to_address, by name: a pair of instructions
SetByName(rd, a) == <<Instr("auipc", <<a, rd>>), Instr("lo12", <<a, rd, rd>>)>>

\* set_register_to_address in a symbolic context: from the register closest
\* to the address or by name, whichever is shorter.
SetRegisterToAddress(rd, a, known) ==
    LET closest == Closest(known, a)
        from == First(closest)
        disp == a.n - known[from].n
        near == IF disp # 0 /\ Near(disp) THEN <<Addi(disp, from, rd)>>
                ELSE (IF from = rd THEN <<>>
                      ELSE <<Instr("or", <<from, from, rd>>)>>)
                         \o AddToRegister(rd, disp)
    IN  IF closest # {} /\ Len(near) < 2 THEN near ELSE SetByName(rd, a)

\* compare_and_branch with "<": the number goes to the scratch register.
CompareAndBranch(reg, value, target, known) ==
    SetRegister(Scratch, value, known)
        \o <<Instr("blt", <<target, Scratch, reg>>)>>

\* MemoryOperand.set_address for a load, a register and an immediate: the
\* register and immediate it may choose, none when it raises an exception.
\* The first register with an address of the variable is given up for a later
\* one only if that is nearer and below.
SetAddress(a, known) ==
    LET own == {r \in DOMAIN known : known[r].var = a.var}
        least == First(own)
        nearer == {r \in own : /\ a.n > known[r].n
                               /\ a.n - known[r].n < Abs(a.n - known[least].n)}
        best == {r \in nearer : \A q \in nearer : known[r].n >= known[q].n}
        chosen == IF nearer = {} THEN known[least] ELSE known[First(best)]
    IN  IF Holding(known, a) # {} THEN {<<r, 0>> : r \in Holding(known, a)}
        ELSE IF own = {} \/ ~IsImm(a.n - chosen.n) THEN {}
        ELSE {<<r, a.n - chosen.n>> : r \in Holding(known, chosen)}

-----------------------------------------------------------------------------
(* Execution.                                                              *)

Signed(n, bits) == IF n >= TwoTo(bits - 1) THEN n - TwoTo(bits) ELSE n
Plus(v, n) == IF v = Garbage THEN v
              ELSE IF v.var = 0 THEN Number(Wrap(v.n + n))
              ELSE [v EXCEPT !.n = @ + n]

\* What an instruction puts in its destination: the loop's own instructions,
\* whose immediate is random, put a value nobody knows. OR is used to copy,
\* and ORI after a shift that cleared the bits it sets.
Result(i, file) ==
    CASE i.kind \in {"addi", "ori"} /\ i.val[1] # Unset ->
            Plus(file[i.val[2]], i.val[1])
      [] i.kind = "lui" -> Number(Wrap(Signed(i.val[1], UpperBits) * TwoTo(ImmBits)))
      [] i.kind = "slli" -> Number(Wrap(file[i.val[2]].n * TwoTo(i.val[1])))
      [] i.kind = "or" -> file[i.val[2]]
      [] i.kind = "lo12" -> i.val[1]
      [] OTHER -> Garbage

\* The register file after an instruction; register 0 stays zero.
Executed(file, i) ==
    IF SetBy(i) \subseteq {0} THEN file
    ELSE [file EXCEPT ![First(SetBy(i))] = Result(i, file)]

\* The register file after some instructions
RunInstrs(file, instrs) ==
    LET after[n \in 0..Len(instrs)] ==
            IF n = 0 THEN file ELSE Executed(after[n - 1], instrs[n])
    IN  after[Len(instrs)]

\* BLT: the outcomes possible, with the registers signed numbers.
Taken(i, file) ==
    LET a == file[i.val[3]] b == file[i.val[2]]
    IN  IF a.var # 0 \/ b.var # 0 THEN BOOLEAN
        ELSE {Signed(a.n, 2 * Half) < Signed(b.n, 2 * Half)}
=============================================================================
