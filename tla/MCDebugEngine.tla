--------------------------- MODULE MCDebugEngine ---------------------------
(* Instances of DebugEngine for TLC: two addresses, one breakpoint slot (so *)
(* that the table fills up), room for one nested call on the stack.         *)
EXTENDS DebugEngine, TLC

CONSTANTS a1, a2

TwoAddrs == {a1, a2}
OneAddr  == {a1}
AddrSymmetry == Permutations(TwoAddrs)
=============================================================================
