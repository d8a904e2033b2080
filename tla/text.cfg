SPECIFICATION MCSpec
CONSTANTS
    Char = {1, 2}
    Blank = 2
    FirstCap = 2
    Heap = {0, 3, 10}
    MaxLen = 4
    Longs = 32
    LongLongs = 256
    Timeout = 1
    Numbers <- MCNumbers
    Thousandths <- MCThousandths
    Places = {0, 1, 2}
    Sent <- MCSent
    Targets <- MCTargets
    Terminators <- MCTerminators
    Lengths <- MCLengths
    MaxEnds = 2
INVARIANTS
    StringIsText
    
    AnswersAreExact
    
    
PROPERTIES
    EveryCallReturns
