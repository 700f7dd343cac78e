\* Every frontend, two lives of the session, three pictures.
SPECIFICATION LiveSpec
CONSTANTS
  One = One
  Two = Two
  NoView = NoView
  b1 = b1
  b2 = b2
  b3 = b3
  Views <- TwoViews
  Frontends <- AllFrontends
  Buffers <- ThreeBuffers
  PoolKeep = 1
  MaxPictures = 3
  MaxStarts = 2
  MaxPosted = 2
  MaxLosses = 2
INVARIANTS
  TypeOK
  CallbackIsTheActiveViews
  LentIsNotReused
PROPERTY PictureArrives
\* The session is freed, the window gone.
CHECK_DEADLOCK FALSE
