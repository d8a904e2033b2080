SPECIFICATION Spec
CONSTANTS
    Ports = {0, 1}
    RxSize = 4
    FifoDepth = 2
    FifoReq = 1
    MaxBytes <- MCMaxBytes
INVARIANTS
    RingHoldsAccepted
    PromiseKept
PROPERTIES
    ImplementsStream
    IrqQuiesces
    PollingCatchesUp
