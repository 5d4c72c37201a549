SPECIFICATION FairOpenAISpec
CONSTANTS
    MaxEvents = 1
    MaxPings = 0
PROPERTIES PipelineEnds
\* A request that has returned stops.
CHECK_DEADLOCK FALSE
