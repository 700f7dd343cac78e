\* Every order of requests, replies, timeouts, clears and polls.
SPECIFICATION Spec
CONSTANTS
  q1 = q1
  q2 = q2
  full = full
  tiny = tiny
  Nothing = Nothing
  Seqs <- TwoSeqs
  Bodies <- TwoBodies
  Short <- Tiny
  Unfoldable <- Tiny
  RingMax = 2
  MaxSerial = 6
VIEW Standing
SYMMETRY SeqSymmetry
INVARIANTS
  FoldsIntoItsLike
  ReplyNamesItsUnit
  WindowIsCurrent
PROPERTY KeepsItsPromise
