SPECIFICATION FairSpec
CONSTANTS
    Interval = 5
    MaxBackoff = 12
    MaxStaleness = 8
    EvaluationTimeout = 1
    FetchTime = 2
    Pause = 2
    MaxFailures = 3
    MaxSetBack = 2
    AgeCap = 60
INVARIANTS
    TypeOK
    BackoffIsBounded
    PollingBoundsAge
    DecisionAgeIsBounded
PROPERTIES
    BecomesReady
