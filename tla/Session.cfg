\* Safety: two frontend threads, every option, every library, a core that may
\* hang.
SPECIFICATION Spec
CONSTANTS
  c1 = c1
  c2 = c2
  NoCaller = NoCaller
  Callers <- TwoCallers
  Ops <- AllOps
  Modes <- AllModes
  Cards <- EveryCard
  LibKinds <- AllLibKinds
  CoreMayWedge = TRUE
SYMMETRY CallerSymmetry
INVARIANTS
  TypeOK
  SettledWhenFree
  MachineBeforeFujiNet
  FujiStartedOnce
  NothingReachesFreed
PROPERTY OneEmulatorThread
\* A freed session takes no more calls.
CHECK_DEADLOCK FALSE
