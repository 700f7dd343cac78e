\* Liveness: one frontend thread, as every frontend has; a core that loads or
\* fails, and a card for FujiNet to attach to.  No warm resets: they may
\* overwrite a latched cold boot.
SPECIFICATION LiveSpec
CONSTANTS
  c1 = c1
  c2 = c2
  NoCaller = NoCaller
  Callers <- OneCaller
  Ops = {"start", "stop", "cold", "free"}
  Modes <- AllModes
  Cards <- WithCard
  LibKinds = {"complete"}
  CoreMayWedge = FALSE
PROPERTIES
  CallsReturn
  FujiNetIsFound
CHECK_DEADLOCK FALSE
