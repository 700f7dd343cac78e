--------------------------- MODULE MCFujiRuntime ---------------------------
(* An instance of FujiRuntime for TLC.                                      *)
EXTENDS FujiRuntime

CONSTANTS t1, t2, t3

ThreeThreads == {t1, t2, t3}
=============================================================================
