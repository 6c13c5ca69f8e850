\* Reliable transport, no server restart: workers may crash and one result
\* write may fail, leaving nothing or a truncated file.
CONSTANTS
    RowIds = {r1, r2}
    r1 = r1
    r2 = r2
    Rows <- MCRows
    Samples = 2
    DefaultScheme = TRUE
    MinDataLen = 25
    PriorFiles = {"none", "stored"}
    MaxWriteFail = 1
    None = None
    PcapWorkers = {w1}
    TorWorkers = {w2}
    Attempts = 5
    MaxPackets = 1
    PacketLen = 60
    TorLogLengths = {100}
    MaxLoss = 0
    MaxCrash = 1
    MaxRestart = 0
SPECIFICATION Spec
INVARIANT TypeOK
INVARIANT NoDuplicateWork
INVARIANT DoneCountsStored
INVARIANT CompletionSound
PROPERTY CompletedStaysCompleted
