\* Two turns of two tokens against queues of one place and a sink of one chunk:
\* every put can block, one onset can hit any moment of it, and MT, TTS or the
\* device may fail or the session be cancelled.  The pipeline may then really
\* hang (README, section 6), so no deadlock check: PipelineLiveness.cfg
\* shows that nothing hangs without faults.
SPECIFICATION Spec
CONSTANTS
  NumTurns = 2
  MaxTokens = 2
  MaxChunks = 1
  MaxOnsets = 1
  QueueMax = 1
  Capacity = 1
  HasTurnIds = TRUE
  Faults <- AllFaults
INVARIANTS PipelineIsSound SilentAfterBargeIn BargeInEmptiesSink NewSpeechIsOwned
PROPERTIES NeverRetranslated NoGapWithoutBargeIn ImplementsInterpretation
CHECK_DEADLOCK FALSE
