-------------------------- MODULE InstructionList --------------------------
(***************************************************************************)
(* What a basic block promises its users: a list of instructions without   *)
(* duplicates that grows at the end, at the front or behind a given        *)
(* instruction, whose members can be replaced one by one and whose tail    *)
(* can be cut off.  Instructions are numbered in creation order; created   *)
(* counts them.  The variable call is the last call with its arguments, so *)
(* that an implementation must act where its anchors say.                  *)
(***************************************************************************)
EXTENDS Integers, Sequences

CONSTANTS
    MaxGrowth,  \* most instructions one step creates
    None        \* no anchor

VARIABLES list, created, call

vars == <<list, created, call>>

\* An anchor the call is not given is None.
Call(op, before, after) == [op |-> op, before |-> before, after |-> after]

Fresh(k) == [j \in 1..k |-> created + j]

\* The first n instructions of the list, then s, then the others.
PutAt(n, s) == SubSeq(list, 1, n) \o s \o SubSeq(list, n + 1, Len(list))

Init ==
    /\ created \in Nat \ {0}
    /\ list = [j \in 1..created |-> j]
    /\ call = Call("new", None, None)

InsertAtEnd(k) ==
    /\ list' = PutAt(Len(list), Fresh(k))
    /\ created' = created + k
    /\ call' = Call("insert", None, None)

InsertInFront(k) ==
    /\ list # <<>>
    /\ list' = PutAt(0, Fresh(k))
    /\ created' = created + k
    /\ call' = Call("insert", list[1], None)

\* Behind list[n], which a second anchor list[m] may follow.
InsertBehind(n, k) ==
    /\ list' = PutAt(n, Fresh(k))
    /\ created' = created + k
    /\ \/ call' = Call("insert", None, list[n])
       \/ \E m \in (n + 1)..Len(list) : call' = Call("insert", list[m], list[n])

Replace(n) ==
    /\ list' = [list EXCEPT ![n] = created + 1]
    /\ created' = created + 1
    /\ call' = Call("reset", None, list[n])

CutFrom(n) ==
    /\ list' = SubSeq(list, 1, n - 1)
    /\ call' = Call("remove", None, list[n])
    /\ UNCHANGED created

\* A copy of the whole list takes its place.
Copy(k) ==
    /\ created' = created + k
    /\ list' = [j \in 1..Len(list) |-> created' - Len(list) + j]
    /\ call' = Call("replicate", None, None)

Next ==
    \/ \E k \in 1..MaxGrowth : InsertAtEnd(k) \/ InsertInFront(k) \/ Copy(k)
    \/ \E n \in 1..Len(list), k \in 1..MaxGrowth : InsertBehind(n, k)
    \/ \E n \in 1..Len(list) : Replace(n) \/ CutFrom(n)

Spec == Init /\ [][Next]_vars
=============================================================================
