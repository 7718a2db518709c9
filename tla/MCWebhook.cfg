CONSTANTS
    Configs <- MCConfigs
    Responses <- MCResponses
    MaxInt <- MCMaxInt
    Second <- MCSecond
    DefaultLimit <- MCDefaultLimit
SPECIFICATION Spec
INVARIANTS
    InvalidNeverSent
    BoundedCapture
    LogsDiscreet
    RetryAfterKept
PROPERTIES
    ImplementsAttempt
