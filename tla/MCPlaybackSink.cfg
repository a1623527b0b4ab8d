\* Three generations, two places and two blocked callers: a stop can hit the
\* sounding chunk, a queued one, and a blocked call of either generation.
SPECIFICATION FairCallersSpec
CONSTANTS
  a = a
  b = b
  Unit <- MCUnit
  Capacity = 2
  MaxGenerations = 3
  MaxBlocked = 2
  MaxAccepted = 4
INVARIANT PlaybackIsSound
PROPERTIES StoppedCallReturns ImplementsContract
