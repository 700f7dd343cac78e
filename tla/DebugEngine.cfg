\* Safety: every call, every kind of instruction, a table that fills up.
SPECIFICATION Spec
CONSTANTS
  a1 = a1
  a2 = a2
  Nowhere = Nowhere
  Addrs <- TwoAddrs
  StackTop = 2
  Budget = 2
  MaxBreakpoints = 1
  Ops <- AllOps
  Kinds <- AllKinds
SYMMETRY AddrSymmetry
INVARIANTS
  TypeOK
  BreakpointsArmed
  ParkedWhereReported
PROPERTY PausedIsNotRun
