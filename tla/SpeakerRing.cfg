\* A chunk longer than the ring, a short one, and one of another input rate;
\* two generations, any of which may be stopped at any time.
SPECIFICATION FairSpec
CONSTANTS
  Capacity = 2
  RingSize = 2
  BlockSize = 2
  Shapes <- MCShapes
  TailLength = 1
  MaxGenerations = 2
  MaxChunks = 3
INVARIANTS RingIsSound ReceiptsAreHeard
PROPERTIES StoppedIsNotHeard CallsEnd KeepsContract
CHECK_DEADLOCK FALSE
