\* Five frames: silence, speech that fires, a dip shorter or one longer than the
\* hangover, through queues short enough to drop at every stage.
SPECIFICATION FairSpec
CONSTANTS
  Hangover = 2
  OnsetFrames = 2
  MicQueue = 1
  SubQueue = 2
  MaxFrames = 5
INVARIANTS DropsAreRight OnsetsAreDebounced
PROPERTY EndIsDelivered
CHECK_DEADLOCK FALSE
