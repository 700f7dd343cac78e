\* A window of each frontend over the engine: opened, closed and opened
\* again while the machine runs, steps, hits its breakpoint and stops.
SPECIFICATION WinSpec
CONSTANTS
  a1 = a1
  a2 = a2
  Nowhere = Nowhere
  Addrs <- TwoAddrs
  StackTop = 0
  Budget = 1
  MaxBreakpoints = 1
  Ops = {"pause", "resume", "into", "bp_set", "bp_clear", "stop"}
  Kinds = {"other"}
  Kits <- AllKits
  MaxWindows = 2
  MaxMail = 1
SYMMETRY AddrSymmetry
INVARIANTS
  WindowShowsTheStop
  MarksAreBreakpoints
  ClosedLetsGo
\* A stopped session takes no more calls here.
CHECK_DEADLOCK FALSE
