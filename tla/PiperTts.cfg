\* Three utterances of up to two blocks against a request queue of two places,
\* which abandoned requests can fill.
SPECIFICATION FairSpec
CONSTANTS
  RequestMax = 2
  MaxUtterances = 3
  MaxBlocks = 2
INVARIANT AnswersAreOwn
PROPERTIES RequestIsAnswered CloseReaps
CHECK_DEADLOCK FALSE
