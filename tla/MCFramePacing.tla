--------------------------- MODULE MCFramePacing ---------------------------
(* An instance of FramePacing for TLC: a machine of one address.            *)
EXTENDS FramePacing

CONSTANT a1

OneAddr == {a1}
=============================================================================
