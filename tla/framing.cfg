SPECIFICATION FramingSpec
CONSTANTS
    MinLen = 3
    MaxLen = 5
    Inputs <- MCInputs
    MaxChunk = 3
    SmpStart = 2
    SmpMax = 6
    SmpChunk = 3
    SmpStreams <- SmpAnyStream
INVARIANTS
    FramingTypeOK
    SplitIndependent
    Framing
    SmpPackets
