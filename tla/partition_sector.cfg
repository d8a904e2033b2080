SPECIFICATION PartitionSpec
CONSTANTS
    SectorSize = 2
    Partition = 4
    Sizes = {3}
    Erased = Erased
    Values = {Erased, b0}
    NoData = NoData
    Names = {cfg}
    NoName = NoName
    Keys = {k1}
    PrefValues = {v1}
    Damaged = Damaged
PROPERTY StoreUndisturbed
