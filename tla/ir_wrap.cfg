SPECIFICATION Spec
CONSTANTS
    BufSize = 12
    IndexSize = 24
    FrameBits = 2
    Sent = {{0}, Repeat}
    Repeat = Repeat
    None = None
    MaxFrames = 3
INVARIANT DecodesFrames
