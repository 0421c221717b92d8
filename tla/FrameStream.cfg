\* A connection and the next one; a ring of 36 bytes, a base of 12.
SPECIFICATION LiveSpec
CONSTANTS
    Size = 36
    Small = 3
    MinZip = 1
    Greeting = 1
    Lens = {1, 35}
    RawBodies <- RawShort
    ZipBodies <- ZipMixed
    Pieces = {1}
    MaxFrames = 2
    MaxConns = 2
    Fragile = TRUE
INVARIANTS
    StreamInv
    HeaderFits
    TicksCounted
PROPERTIES
    FrameArrives
    IsChannel
\* With the last connection allowed gone nothing is left to do.
CHECK_DEADLOCK FALSE
