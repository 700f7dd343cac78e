----------------------------- MODULE MCSession -----------------------------
(* Instances of Session for TLC.  Two frontend threads contend for the      *)
(* session; neither is distinguished, so their permutations are symmetric   *)
(* in the safety run.                                                       *)
EXTENDS Session, TLC

CONSTANTS c1, c2

TwoCallers == {c1, c2}
OneCaller  == {c1}
CallerSymmetry == Permutations(TwoCallers)

EveryCard == BOOLEAN
WithCard  == {TRUE}
=============================================================================
