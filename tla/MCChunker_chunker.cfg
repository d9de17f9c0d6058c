SPECIFICATION Spec
CONSTANTS
    FpBits = 4
    ByteBits = 1
    Poly = 11
    TargetSize = 4
    MaxLen = 8
    WindowSize = 2
    Byte <- Bytes
    Word <- Words
    Streams <- MCStreams
    Limits <- MCLimits
    Roll <- Slide
    Hit <- IsMagic
CHECK_DEADLOCK FALSE
INVARIANT TypeOK
INVARIANT CoversDisk
INVARIANT SizesBounded
INVARIANT ContentDefined
