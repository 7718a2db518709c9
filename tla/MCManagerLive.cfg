CONSTANTS
    Calls = {c1, c2, c3}
    Workers = {w1}
    Starts = {s1}
    Shutdowns = {d1}
    Capacity = 1
    NoCall = NoCall
SPECIFICATION SpecHonorCtx
PROPERTIES
    NobodyWaitsForever
    ProducersReleased
    AbortCompletes
