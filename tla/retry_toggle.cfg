\* Short results are re-queued with the www. prefix toggled; the default
\* scheme is http.
CONSTANTS
    RowIds = {r1, r2}
    r1 = r1
    r2 = r2
    Rows <- MCRows
    Samples = 1
    DefaultScheme = TRUE
    MinDataLen = 25
    PriorFiles = {"none", "stored"}
    MaxWriteFail = 0
    None = None
    PcapWorkers = {w1}
    TorWorkers = {w2}
    Attempts = 5
    MaxPackets = 1
    PacketLen = 60
    TorLogLengths = {100}
    MaxLoss = 0
    MaxCrash = 0
    MaxRestart = 0
SPECIFICATION Spec
INVARIANT RetryTargetsWellFormed
