SPECIFICATION Spec
CONSTANTS
    Instances = {p1}
    Names = {cfg, log}
    NoName = NoName
    Damaged = Damaged
    emptyKey = emptyKey
    long = long
    Keys = {k1, k2, emptyKey}
    Values = {short, long}
    KeyLen <- MCKeyLen
    DataLen <- MCDataLen
    RegionSize = 18
PROPERTY ReadOnlyKeepsStored
