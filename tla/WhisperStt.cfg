\* Six frames: two turns that end by silence, or a split in the middle of
\* speech, with a partial every two frames and one final that may wait.
SPECIFICATION FairSpec
CONSTANTS
  Hangover = 2
  PreRoll = 1
  PartialInterval = 2
  EndSilence = 2
  MaxUtterance = 4
  MaxPending = 1
  MaxFrames = 6
INVARIANTS TurnsAreRight HypothesesAreRight
PROPERTY StreamEnds
CHECK_DEADLOCK FALSE
