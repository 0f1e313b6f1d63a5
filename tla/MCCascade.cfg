\* The deployed settings: 0.70, 0.90 and 0.75.
SPECIFICATION JourneySpec
CHECK_DEADLOCK FALSE
CONSTANTS
    LlmThreshold     = 7000
    LlmCap           = 90
    RoutingThreshold = 7500
INVARIANT LlmScoreCapped AutoSaveComplete BlockDominates
INVARIANT PublishedIsReal ValidatedLostForYear
