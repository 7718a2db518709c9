CONSTANTS
    Plans <- MCPlans
    MaxInt <- MCMaxInt
    Failures <- MCFailures
SPECIFICATION RSpecHonorCtx
INVARIANTS
    SendsAreBounded
    ReportTruthful
    NilMeansReached
    DuplicatesNeedRetries
PROPERTIES
    RetryOnlyIfAllowed
    ImplementsWorker
    TargetsKeepPromise
    DeliveryMovesOn
    DeliveryEnds
