----------------------------- MODULE MCSpTrace -----------------------------
(* An instance of SpTrace for TLC: a ring of two entries, which one         *)
(* exchange fills, a packet that folds and one too short to.                *)
EXTENDS SpTrace, TLC

CONSTANTS q1, q2, full, tiny

TwoSeqs   == {q1, q2}
TwoBodies == {full, tiny}
Tiny      == {tiny}

(* Two states that differ only in what was kept of an exchange or a request *)
(* that no longer stands go on alike: the code writes it again before it    *)
(* reads it.                                                                *)
Standing ==
  <<ring, serial, held, IF held THEN held_req ELSE Nothing, cur_req, cur_seq,
    pair_valid, IF pair_valid THEN <<pair_req, pair_rep>> ELSE Nothing,
    pend, counts, seen, shown>>

SeqSymmetry == Permutations(TwoSeqs)
=============================================================================
