----------------------------- MODULE MCGamepad -----------------------------
(* An instance of Gamepad for TLC: a stick that is centred or pushed.       *)
EXTENDS Gamepad

TwoPositions == {0, 1}
=============================================================================
