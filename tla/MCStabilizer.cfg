\* Five hypotheses and a window of three: the newest two may agree on what the
\* oldest contradicts, and what was committed may be contradicted, extended and
\* force-committed by a final; or an utterance ends after one hypothesis and the
\* window must not count it for the next one.
SPECIFICATION StabilizerSpec
CONSTANTS
  a = a
  b = b
  Token <- MCToken
  Hypothesis <- MCHypothesis
  Window = 3
  MaxSegment = 2
  ContextTokens = 1
  MaxHypotheses = 5
INVARIANT SegmentsAreRight
PROPERTIES OnlyAgreedIsCommitted NeverRetracts
