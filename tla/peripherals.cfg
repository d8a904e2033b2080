SPECIFICATION MCSpec
CONSTANTS
    Pins = {3, 13, 4, 14}
    Free = 255
    Channels = 5
    AdcPins = {3}
    Values = {100, 300}
    Freqs = {2000, 5000}
    SpiBus = {3}
    Selects = {4, 14}
    Clocks = {1, 2}
    Modes = {0, 1}
    I2cBus = {3}
    TxSize = 2
    RxSize = 4
    Byte = {0, 1}
    MaxOffered = 3
    Periods = {1, 2}
    SSIDs = {home, work}
    None = None
    MaxEvents = 4
INVARIANTS
    QueueIsHonest
    ReplyIsFresh
    CacheTellsDirection
    ChannelFollowsOwner
    ControllerFollowsSettings
    OneSlaveListens
    FlagsTellTheTimer
    ChangesAreSeen
    FindableWhileOpen
    ConnectedIsTheLink
    SSIDNamesTheNetwork
