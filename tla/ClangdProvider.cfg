SPECIFICATION FairSpec
CONSTANTS
    s = s
    None = None
    NDocs = 3
    Symbols = {s}
    SymbolsOf <- MCSymbolsOf
    MaxOpenDocuments = 2
    PipeCapacity = 2
    MaxCalls = 2
    MaxFaults = 1
CHECK_DEADLOCK FALSE
INVARIANTS
    ProviderTypeOK
    FramesFindDocument
    WindowHolds
    ExitAfterShutdown
    CloseReleases
PROPERTIES
    EveryCallEnds
