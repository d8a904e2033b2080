SPECIFICATION Spec
CONSTANTS
    Instances = {p1, p2}
    Names = {cfg, log}
    NoName = NoName
    Damaged = Damaged
    emptyKey = emptyKey
    long = long
    Keys = {k1, k2}
    Values = {short, long}
    KeyLen <- MCKeyLen
    DataLen <- MCDataLen
    RegionSize = 14
SYMMETRY MCSymmetry
INVARIANTS  PendingIsMarked
PROPERTIES   CallsImplementStore
