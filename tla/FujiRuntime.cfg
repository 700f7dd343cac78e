\* Three lives of the runtime: stops that time out, speech, FujiNet rebooting
\* itself, and whether a stop and a speech ever come back.  Without symmetry:
\* the properties are temporal.
SPECIFICATION LiveSpec
CONSTANTS
  t1 = t1
  t2 = t2
  t3 = t3
  NoThread = NoThread
  Threads <- ThreeThreads
  MaxSamples = 2
  MayTimeOut = TRUE
  Speech = TRUE
  Reboots = TRUE
INVARIANTS
  TypeOK
  RunningIsBacked
  NeverTerminated
  StoppedLeavesNothing
PROPERTIES
  StopReturns
  SubmitReturns
\* The last thread has been used up.
CHECK_DEADLOCK FALSE
