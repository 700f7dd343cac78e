\* Three pads come and go over two lives of the session; two fit.
SPECIFICATION Spec
CONSTANTS
  MaxIds = 3
  MaxPads = 2
  Positions <- TwoPositions
  MaxStarts = 2
INVARIANTS
  TypeOK
  PadDrives
\* The session stops for good, every pad unplugged.
CHECK_DEADLOCK FALSE
