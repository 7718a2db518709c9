CONSTANTS
    Calls = {c1, c2}
    Workers = {w1}
    Starts = {s1}
    Shutdowns = {d1}
    Capacity = 2
    NoCall = NoCall
SPECIFICATION SpecTargetsReturn

PROPERTIES
    AbortDiscardsQueued
