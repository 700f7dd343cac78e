\* The engine's calls that set no breakpoint, a session stopped and started
\* again, ticks at any moment and of any interval, time.
SPECIFICATION PacingLiveSpec
CONSTANTS
  a1 = a1
  Nowhere = Nowhere
  Addrs <- OneAddr
  StackTop = 0
  Budget = 1
  MaxBreakpoints = 1
  Ops = {"pause", "resume", "into", "stop", "start"}
  Kinds = {"other"}
  Frame = 2
  TimeOut = 3
  Fresh = 4
  Late = 4
INVARIANT NeverCatchesUp
\* The user need call nothing, and a machine asleep runs no frame.
CHECK_DEADLOCK FALSE
PROPERTIES
  FramesGoOn
  StopReturns
  PauseTakesEffect
  StepIsDone
