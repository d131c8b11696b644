----------------------------- MODULE MCSeqTune -----------------------------
EXTENDS SeqTune

\* A load, an addition, an addition of a number, one to the same register,
\* one that reads the stack pointer, one of compressed registers, and some that
\* have their registers.
L == Instr("load", <<Unset, Unset, Unset>>)
A == Instr("add", <<Unset, Unset, Unset>>)
M == Instr("load", <<Unset, Unset, 6>>)
I == Addi(Unset, Unset, Unset)
J == Addi(Unset, 5, 6)
C == Instr("caddi", <<Unset, Unset>>)
S == Instr("addsp", <<Unset, Unset, Unset>>)
N == Instr("cand", <<Unset, Unset>>)
P == Instr("add", <<5, Unset, 6>>)
F == Instr("add", <<5, 6, 5>>)
G == Instr("add", <<8, 9, 5>>)
H == Instr("add", <<10, 11, 5>>)

MCRegs == {0, 2, 5, 6, 8, 9, 10, 11, 12, 31}
MCAddressRegs == 8..12
Ascending == [r \in MCRegs |-> r]
MCRanks == {Ascending, [r \in MCRegs |-> 31 - r]}

\* Registers given a value, in order
Set(r, n) == [reg |-> r, value |-> n]
Base == [body |-> <<F>>, given |-> <<>>, reserved |-> {0, 31},
         model |-> <<>>, dd |-> 1, shift |-> 0]

\* Initial values that take every way of setting a register: 0, small, near
\* another, equal, half a word with and without a carry, and long.
Numbers == {0, 3, 5, 9, -3, -14, 40, 345, -300}
GivenCases == {[Base EXCEPT !.given = <<Set(5, v), Set(6, w), Set(5, x)>>] :
                 v, w, x \in Numbers}
NotReserved == {[Base EXCEPT !.given = <<Set(0, 9), Set(5, 9), Set(8, 12)>>,
                             !.reserved = r] : r \in {{}, {8}}}

\* Streams: of 3 or more parts, of one, shuffled, gone through more than once,
\* several, and impossible ones
Stream(size, stride) ==
    [size |-> size, ratio |-> 100, stride |-> stride, streams |-> 1,
     shuffle |-> 0]
Walking == Stream(24, 4)
Half1 == [Walking EXCEPT !.ratio = 50]
Half2 == [Stream(12, 4) EXCEPT !.ratio = 50]
WithModel(b, m) == [Base EXCEPT !.body = b, !.model = m]
StreamCases ==
    {WithModel(b, <<m>>) :
        b \in {<<L, M, M>>, <<L, J, M, J, J, M>>, <<L, A, M>>},
        m \in {Walking, Stream(12, 4), Stream(20, 0),
               [Walking EXCEPT !.streams = 2], Stream(30, 3)}}
    \cup {WithModel(<<M, M, M, L>>, <<[Stream(9, 3) EXCEPT !.shuffle = -1]>>),
           WithModel(<<M, M, M, M, L>>, <<[Stream(12, 3) EXCEPT !.shuffle = 4]>>),
           WithModel(<<L, M, M, M>>, <<Stream(6, 3)>>)}
    \cup {[WithModel(<<L, M, J, M, M>>, m) EXCEPT !.shift = d] :
             m \in {<<Half1, Half1>>, <<Half2, Half1>>, <<Half1, Half2>>},
             d \in {0, 8}}
    \cup {WithModel(<<L, M>>, <<[m EXCEPT !.ratio = 50], Half1>>) :
             m \in {[Walking EXCEPT !.streams = 2], [Walking EXCEPT !.streams = 3]}}
    \cup {WithModel(<<L, M>>, <<[Half2 EXCEPT !.shuffle = -1],
                               [Half2 EXCEPT !.shuffle = -1]>>),
           WithModel(<<L, M, M, J, J, M, M>>,
                     <<[Stream(21, 3) EXCEPT !.streams = 2]>>)}
    \cup {WithModel(<<L>>, <<Walking, [Walking EXCEPT !.ratio = 0]>>)}
    \cup {[WithModel(<<L, J, M, A>>, <<Walking>>) EXCEPT !.given = g, !.dd = d] :
             g \in {<<Set(5, 100), Set(11, 40)>>, <<Set(6, 2), Set(31, 3)>>},
             d \in {0, 2}}

\* Registers to choose, with and without a distance
ChoiceCases ==
    {[Base EXCEPT !.body = b, !.dd = 0] :
        b \in {<<A, C>>, <<P, S>>, <<A, F>>, <<I, P, C>>, <<A>>, <<I, I>>,
               <<C, N>>, <<N, A, N>>, <<S, N, C>>}}
    \cup {[Base EXCEPT !.body = <<A, F>>, !.reserved = {0, 5, 31}]}
    \cup {[Base EXCEPT !.body = <<I, G, I, H>>, !.dd = 0, !.reserved = 8..11]}
    \cup {[Base EXCEPT !.body = b, !.dd = d, !.reserved = {0, 5, 31}] :
             b \in {<<A, A, I>>, <<S, P, C, I>>}, d \in {1, 2}}
MCCases == GivenCases \cup NotReserved \cup StreamCases \cup ChoiceCases
=============================================================================
