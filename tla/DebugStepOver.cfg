\* Step over a subroutine call: where does it stop?
SPECIFICATION Spec
CONSTANTS
  a1 = a1
  a2 = a2
  Nowhere = Nowhere
  Addrs <- OneAddr
  StackTop = 4
  Budget = 2
  MaxBreakpoints = 1
  Ops = {"pause", "over"}
  Kinds = {"jsr", "rts", "other"}
PROPERTY StepOverReturns
