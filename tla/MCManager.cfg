CONSTANTS
    Calls = {c1, c2, c3}
    Workers = {w1, w2}
    Starts = {s1, s2}
    Shutdowns = {d1, d2}
    Capacity = 2
    NoCall = NoCall
SPECIFICATION Spec
SYMMETRY MCSymmetry
INVARIANTS
    TypeOK
    SlotAccounting
    ChannelsAreSafe
    StoreMatchesQueue
    DoneMeansDone
PROPERTIES
    ImplementsContract
    ComesToRest
