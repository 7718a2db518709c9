CONSTANTS
    Configs <- MCConfigs
    Responses <- MCResponses
    MaxInt <- MCMaxInt
    Second <- MCSecond
    DefaultLimit <- MCDefaultLimit
SPECIFICATION Spec
INVARIANTS
    Http2xxSucceeds
