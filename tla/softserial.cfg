SPECIFICATION Spec
CONSTANTS
    RxSize = 2
    DataBits = 2
    Sent <- MCSent
    Pins = {}
    NoPin = NoPin
    Halves = {0, 1}
    Cycles = {0, 2}
PROPERTY ReceivesWhatWasSent
