---------------------------- MODULE MCFrameViews ----------------------------
(* Instances of FrameViews for TLC: the frontends and two buffers more than *)
(* the pool keeps.                                                          *)
EXTENDS FrameViews

CONSTANTS b1, b2, b3

TwoViews     == {One, Two}
ThreeBuffers == {b1, b2, b3}
AllFrontends == {"gnome", "kde", "win", "mac"}
=============================================================================
