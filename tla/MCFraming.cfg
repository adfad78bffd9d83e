SPECIFICATION FairSpec
CONSTANTS
    Payloads <- MCPayloads
    Base = 2
    PipeSize = 3
    MaxFrames = 3
PROPERTIES
    ImplementsChannel
    ReaderCatchesUp
CHECK_DEADLOCK FALSE
