SPECIFICATION Spec
CONSTANTS
    ShortNames <- MCShortNames
    ActiveTools <- MCActiveTools
    DeferredTools <- MCDeferredTools
    Queries <- MCQueries
    Outputs <- MCOutputs
    MaxChat = 3
    MaxMessages = 3
    MaxBlocks = 3
    MaxRequests = 2
INVARIANTS PayloadWellFormed NothingLost FoundToolsOffered OwnNames
PROPERTIES AnsweredOnce
\* A conversation stops at its bound.
CHECK_DEADLOCK FALSE
