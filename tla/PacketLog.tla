----------------------------- MODULE PacketLog -----------------------------
(***************************************************************************)
(* What the debugger's FujiNet trace promises its reader (apple2debug.h,   *)
(* "FujiNet: the SmartPort packets on the SLIP link, both ways"): every    *)
(* packet in the order it came, all of them while there is room, the       *)
(* newest of them afterwards, and how many came since the trace was        *)
(* cleared.  SpTrace folds repeated exchanges and holds requests back;     *)
(* expanded, its ring implements this.                                     *)
(***************************************************************************)
EXTENDS Integers, Sequences

CONSTANTS
  Packets,   (* the packets of the link                                    *)
  Room       (* as many packets as this are kept whatever they are         *)

VARIABLES
  log,       (* the packets still shown, oldest first                      *)
  fed        (* how many came since the last clear                         *)

Init == log = <<>> /\ fed = 0

Feed(p) ==
  LET all == Append(log, p) IN
  /\ fed' = fed + 1
  /\ IF Len(all) <= Room
     THEN log' = all
     ELSE \E first \in 1..Len(all) : log' = SubSeq(all, first, Len(all))

Clear == log' = <<>> /\ fed' = 0

Next == Clear \/ \E p \in Packets : Feed(p)

Spec == Init /\ [][Next]_<<log, fed>>
=============================================================================
