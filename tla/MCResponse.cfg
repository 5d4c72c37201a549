SPECIFICATION ResponseSpec
CONSTANTS
  MaxEvents = 2
  MaxPings = 1
  OpenTag <- MCOpenTag
  CloseTag <- MCCloseTag
  RunesPerToken = 2
  Pieces <- MCPieces
  Thoughts <- MCThoughts
  Inputs = {3}
  ModelRequests <- MCRequests
  MaxText = 5
  MaxThought = 1
  MaxTools = 3
INVARIANTS EnvelopeOK NeverHalfAnswered CompleteOnlyAtEOF CutsAreInvisible StopsExactly BudgetCounts
PROPERTIES RetryIsInvisible RequestEnds
\* An answered request stops.
CHECK_DEADLOCK FALSE
