CONSTANTS
    a = a
    Nil = Nil
    Ids = {0, 1, 2}
    Targets = {a}
    Base <- MCBase
    MaxReceivers = 2
    MaxTargets = 2
    MaxIDs = 2
    Absent = Absent
    Names <- MCNames
    DefaultNames <- MCDefaultNames
    Fns <- MCFns
    Maps <- MCMaps
    Options <- MCOptions
    MaxOptions = 3
    StatusCodes <- MCStatusCodes
    MaxErrors = 5
    MaxDuration <- MCMaxDuration
    MaxRetries = 7
    Backoffs <- MCBackoffs
    MaxBackoffs <- MCMaxBackoffs
    RetryAfters <- MCRetryAfters
SPECIFICATION MCSpec
INVARIANTS
    RoutedAsDocumented
    OptionsAsDocumented
    MarksDecide
    PoliciesAsDocumented
    WaitsAsDocumented
PROPERTIES
    ConfigFrozen
    MapsUntouched
