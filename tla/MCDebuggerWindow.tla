-------------------------- MODULE MCDebuggerWindow --------------------------
(* An instance of DebuggerWindow for TLC: two addresses, one breakpoint.    *)
EXTENDS DebuggerWindow, TLC

CONSTANTS a1, a2

TwoAddrs == {a1, a2}
AddrSymmetry == Permutations(TwoAddrs)
=============================================================================
