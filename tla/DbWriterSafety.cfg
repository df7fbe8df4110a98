SPECIFICATION FairSpec
CONSTANTS
    w1 = w1
    w2 = w2
    Consumer <- MCConsumer
    BatchSize = 2
    BufferMax = 3
    MaxAttempts = 2
    MaxLen = 2
    MaxEntries = 3
    MaxConnects = 2
    MaxFaults = 2
INVARIANTS
    TypeOK
    NoSilentLoss
    HeldIsPending
PROPERTIES
    PendingIsWritten
    EveryEntryIsRead
CHECK_DEADLOCK FALSE
