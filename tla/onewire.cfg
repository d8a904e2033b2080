SPECIFICATION Spec
CONSTANTS
    Bits = 4
    FamilyBits = 2
    Devices <- MCDevices
INVARIANTS WalksEveryROM
PROPERTIES ReportsOnlyDevices NeverTwice
