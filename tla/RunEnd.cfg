SPECIFICATION MCSpec
CONSTANTS
    NEvents = 3
    NItems = 3
    Interval = 3
INVARIANTS
    ExitRecorded
    ProviderClosedFirst
PROPERTIES
    FinalizerWritesAlone
    DisconnectSettles
    TeardownEnds
    ChunksInLockstep
    ChunkDelivered
    NeverSilentForEver
