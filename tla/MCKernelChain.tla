--------------------------- MODULE MCKernelChain ---------------------------
(***************************************************************************)
(* An instance of KernelChain for TLC: two tasks of one priority and one   *)
(* above them, in the order of their numbers.                              *)
(***************************************************************************)
EXTENDS KernelChain

ByNumber(tuple) == [n \in 0 .. Len(tuple) - 1 |-> tuple[n + 1]]

ChainStaticPriority == ByNumber(<<0, 0, 1>>)
ChainMaxActivations == ByNumber(<<1, 1, 1>>)
ChainResourcesMask == ByNumber(<<{}, {0}, {0}>>)
ChainEventsMask == ByNumber(<<{}, {"e"}, {}>>)
ChainResourcesPriority == ByNumber(<<1>>)
ChainAutoStart == <<0, 1>>
=============================================================================
