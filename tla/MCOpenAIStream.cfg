SPECIFICATION FairOpenAISpec
CONSTANTS
    MaxEvents = 2
    MaxPings = 1
INVARIANTS ChunksWellFormed StreamAgrees
PROPERTIES StreamReturns
\* A request that has returned stops.
CHECK_DEADLOCK FALSE
