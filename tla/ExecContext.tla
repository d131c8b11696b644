---------------------------- MODULE ExecContext ----------------------------
(***************************************************************************)
(* The execution context passes share (class Context of code/context.py):  *)
(* which value each register and each memory region is known to hold, and  *)
(* the inverse tables passes search for a register or region that already  *)
(* holds a value.                                                          *)
(*                                                                         *)
(* Numbers come as int and as float.  Python finds 1 and 1.0 under the     *)
(* same dictionary key, and the key keeps the type it was first stored     *)
(* with, so an inverse entry has a type of its own.                        *)
(***************************************************************************)
EXTENDS Integers

CONSTANTS
    Regs,      \* registers
    Numbers,   \* numeric values
    Types,     \* Python types of a value: int and float
    NoValue,   \* a register without a known value
    Bases,     \* base addresses: variables or segments
    MaxDisp,   \* bound on the displacement of an address
    MaxLength  \* bound on the length of a region

ASSUME ContextAssumption ==
    /\ MaxDisp \in Nat /\ MaxLength \in Nat
    /\ NoValue \notin [num : Numbers, type : Types]

Value == [num : Numbers, type : Types]
Address == [base : Bases, disp : 0..MaxDisp]
MemoryValue == [address : Address, length : 1..MaxLength, value : Numbers]

VARIABLES
    reserved,        \* _reserved_registers
    registerValues,  \* _register_values
    valueRegisters,  \* _value_registers: the type of the key, the registers
    memoryValues,    \* _memory_values, a set with one value per address
    valueMemorys     \* _value_memorys

contextVars ==
    <<reserved, registerValues, valueRegisters, memoryValues, valueMemorys>>
registerVars == <<registerValues, valueRegisters>>
memoryVars == <<memoryValues, valueMemorys>>

ContextInit ==
    /\ reserved = {}
    /\ registerValues = [r \in Regs |-> NoValue]
    /\ valueRegisters = [n \in {} |-> {}]
    /\ memoryValues = {}
    /\ valueMemorys = [n \in {} |-> {}]

\* add_reserved_registers: a RejectingDict refuses a name it has, and the
\* registers before it in the list stay reserved.
AddReserved(first, second) ==
    /\ reserved' = IF first \in reserved THEN reserved
                   ELSE reserved \cup {first, second}
    /\ UNCHANGED <<registerVars, memoryVars>>

\* remove_reserved_registers
RemoveReserved(r) ==
    /\ r \in reserved
    /\ reserved' = reserved \ {r}
    /\ UNCHANGED <<registerVars, memoryVars>>

\* The inverse table without register r, which holds v.
Dropped(inverse, r, v) ==
    LET left == inverse[v.num].regs \ {r}
        keys == IF left = {} THEN DOMAIN inverse \ {v.num} ELSE DOMAIN inverse
    IN  [n \in keys |-> IF n = v.num THEN [inverse[n] EXCEPT !.regs = left]
                        ELSE inverse[n]]

\* The inverse table with register r holding v.
Recorded(inverse, r, v) ==
    [n \in DOMAIN inverse \cup {v.num} |->
        IF n # v.num THEN inverse[n]
        ELSE IF n \in DOMAIN inverse
             THEN [inverse[n] EXCEPT !.regs = @ \cup {r}]
             ELSE [type |-> v.type, regs |-> {r}]]

\* Mutant: the register stays listed under its old value.
UnlistedNever(r) == valueRegisters

\* The inverse table once the register is unset, if it was set.
Unlisted(r) == IF registerValues[r] = NoValue THEN valueRegisters
               ELSE Dropped(valueRegisters, r, registerValues[r])

\* unset_register, which asserts that the register has a value
UnsetRegister(r) ==
    /\ registerValues[r] # NoValue
    /\ valueRegisters' = Unlisted(r)
    /\ registerValues' = [registerValues EXCEPT ![r] = NoValue]
    /\ UNCHANGED <<reserved, memoryVars>>

\* set_register_value unsets the register first if it has a value
SetRegisterValue(r, v) ==
    /\ valueRegisters' = Recorded(Unlisted(r), r, v)
    /\ registerValues' = [registerValues EXCEPT ![r] = v]
    /\ UNCHANGED <<reserved, memoryVars>>

\* Mutant: a region that starts before the other one is missed.
OverlapsFromBelow(m, a, length) ==
    /\ m.address.base = a.base
    /\ 0 <= m.address.disp - a.disp /\ m.address.disp - a.disp < length

\* unset_memory: a recorded region is dropped if the start of one of the two
\* regions lies in the other.
Overlaps(m, a, length) ==
    /\ m.address.base = a.base
    /\ LET diff == m.address.disp - a.disp
       IN  \/ 0 <= diff /\ diff < length
           \/ 0 <= -diff /\ -diff < m.length

Kept(a, length) == {m \in memoryValues : ~Overlaps(m, a, length)}

\* Mutant: the inverse table is forgotten.
KeptInverseAll(a, length) == valueMemorys

KeptInverse(a, length) ==
    [n \in DOMAIN valueMemorys |->
        {m \in valueMemorys[n] :
            ~(m \in memoryValues /\ Overlaps(m, a, length))}]

UnsetMemory(a, length) ==
    /\ memoryValues' = Kept(a, length)
    /\ valueMemorys' = KeptInverse(a, length)
    /\ UNCHANGED <<reserved, registerVars>>

\* set_memory_value. Whether the value is known already is looked up among the
\* addresses, so the list of its regions is always replaced.
SetMemoryValue(mem) ==
    LET inverse == KeptInverse(mem.address, mem.length)
    IN  /\ memoryValues' = Kept(mem.address, mem.length) \cup {mem}
        /\ valueMemorys' = [n \in DOMAIN inverse \cup {mem.value} |->
                              IF n = mem.value THEN {mem} ELSE inverse[n]]
        /\ UNCHANGED <<reserved, registerVars>>

ContextNext ==
    \/ \E r, s \in Regs : r # s /\ AddReserved(r, s)
    \/ \E r \in Regs : RemoveReserved(r) \/ UnsetRegister(r)
    \/ \E r \in Regs, v \in Value : SetRegisterValue(r, v)
    \/ \E a \in Address, length \in 1..MaxLength : UnsetMemory(a, length)
    \/ \E mem \in MemoryValue : SetMemoryValue(mem)

ContextSpec == ContextInit /\ [][ContextNext]_contextVars

----------------------------------------------------------------------------
ContextTypeOK ==
    /\ reserved \in SUBSET Regs
    /\ registerValues \in [Regs -> Value \cup {NoValue}]
    /\ DOMAIN valueRegisters \in SUBSET Numbers
    /\ valueRegisters \in [DOMAIN valueRegisters ->
                             [type : Types, regs : SUBSET Regs]]
    /\ memoryValues \in SUBSET MemoryValue
    /\ DOMAIN valueMemorys \in SUBSET Numbers
    /\ valueMemorys \in [DOMAIN valueMemorys -> SUBSET MemoryValue]

\* register_has_value and registers_get_value
RegisterHasValue(v) ==
    v.num \in DOMAIN valueRegisters /\ valueRegisters[v.num].type = v.type
RegistersGetValue(v) == valueRegisters[v.num].regs

Holders(n) == {r \in Regs : registerValues[r] # NoValue
                            /\ registerValues[r].num = n}

\* The inverse table is the inverse: after any calls, a number is found in it
\* exactly when a register holds it, with exactly the registers that do, so
\* that the callers that take the first register of the answer (ins.py 1388,
\* passes/branch) find one (context.py lines 133-165 and 316-332).
InverseExact ==
    /\ \A n \in DOMAIN valueRegisters :
         valueRegisters[n].regs = Holders(n) /\ Holders(n) # {}
    /\ \A r \in Regs : registerValues[r] # NoValue
         => registerValues[r].num \in DOMAIN valueRegisters

\* No byte of memory is recorded twice: regions set one over the other, from
\* either side or across each other, never coexist (context.py 381-417).
MemoryDisjoint ==
    \A m, n \in memoryValues :
        m # n /\ m.address.base = n.address.base
          => \/ m.address.disp + m.length <= n.address.disp
             \/ n.address.disp + n.length <= m.address.disp

\* The inverse table of the memory may have lost regions, but every region it
\* lists is recorded and holds that value (context.py 346-364 and 414-415).
MemoryInverseSound ==
    \A n \in DOMAIN valueMemorys : \A m \in valueMemorys[n] :
        m \in memoryValues /\ m.value = n
=============================================================================
