---------------------------- MODULE CodeBuilding ----------------------------
(***************************************************************************)
(* The building block the passes of a policy work on one after another:    *)
(* the loop's basic block, the instructions before it (executed here as    *)
(* soon as they are added) and those at its end, and the context.  The     *)
(* first pass, InitializeRegistersPass, is here too.                       *)
(***************************************************************************)
EXTENDS RiscvISA

CONSTANT Cases  \* what is asked of the policy:
    \* [body, the instructions of the loop before the passes;
    \*  given, the registers to initialize, [reg, value], in the order of
    \*         registers; reserved, those reserved before;
    \*  model, the streams; dd, the dependency distance]

ASSUME CasesAssumption ==
    \A c \in Cases :
        /\ IsCode(c.body)
        /\ c.given \in Seq([reg : Regs, value : Int])
        /\ c.model \in Seq([size : Nat \ {0}, ratio : Nat, stride : Nat,
                            streams : Nat \ {0},
                            shuffle : Nat \cup {-1}])
        /\ c.dd \in Nat /\ c.shift \in Nat

VARIABLES
    case,      \* the case being built
    phase,     \* the pass at work, then "run"; or "error"
    step,      \* where the pass is in its list
    code,      \* all instructions of the loop, known by their number
    block,     \* the basic block
    fini,      \* instructions at the end of the loop
    reserved,  \* context: the reserved registers
    known,     \* context: values of registers, as of where the pass is
    file       \* the registers after the initialization instructions so far

building == <<case, phase, step, code, block, fini, reserved, known, file>>

B == INSTANCE BasicBlock WITH Stride <- 10

Body == B!Instrs(block)

InitBuilding ==
    /\ case \in Cases
    /\ phase = "initialize" /\ step = 1
    /\ code = case.body
    /\ block = B!NewBlock([j \in 1..Len(case.body) |-> j])
    /\ fini = <<>>
    /\ reserved = case.reserved
    /\ known = [r \in {} |-> Number(0)]
    /\ file = [r \in Regs |-> IF r = 0 THEN Number(0) ELSE Garbage]

\* Context.set_register_value
Knowing(k, r, v) == [q \in DOMAIN k \cup {r} |-> IF q = r THEN v ELSE k[q]]

\* One register of InitializeRegistersPass
Initialized(e) ==
    /\ file' = RunInstrs(file, SetRegister(e.reg, e.value, known))
    /\ known' = Knowing(known, e.reg, Number(e.value))

\* InitializeRegistersPass skips the registers reserved by then.
InitializeRegister ==
    /\ phase = "initialize" /\ step <= Len(case.given)
    /\ LET e == case.given[step]
       IN  IF e.reg \in reserved THEN UNCHANGED <<known, file>>
           ELSE Initialized(e)
    /\ step' = step + 1
    /\ UNCHANGED <<case, phase, code, block, fini, reserved>>

\* The next pass starts.
Proceed(to) == phase' = to /\ step' = 1
Fails == phase' = "error" /\ UNCHANGED step
=============================================================================
