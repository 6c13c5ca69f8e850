\* Lost replies, worker crashes and server restarts; no failed writes
\* (those are the truncated_write run).
CONSTANTS
    RowIds = {r1, r2}
    r1 = r1
    r2 = r2
    Rows <- MCRows
    Samples = 1
    DefaultScheme = TRUE
    MinDataLen = 25
    PriorFiles = {"none", "stored"}
    MaxWriteFail = 0
    None = None
    PcapWorkers = {w1}
    TorWorkers = {w2}
    Attempts = 5
    MaxPackets = 1
    PacketLen = 60
    TorLogLengths = {100}
    MaxLoss = 1
    MaxCrash = 1
    MaxRestart = 1
SPECIFICATION Spec
INVARIANT UnitAccounted
