\* Every frontend; away from Windows the focus stays while a key is down, and
\* on macOS the user holds one Option at a time.
SPECIFICATION Spec
CONSTANTS
  Kits <- FourKits
  Strays = FALSE
  Chords = FALSE
INVARIANT NoKeyStuck
