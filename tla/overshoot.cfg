\* One lost reply under fair scheduling: the resent result is counted again.
CONSTANTS
    RowIds = {r1, r2}
    r1 = r1
    r2 = r2
    Rows <- MCRows
    Samples = 1
    DefaultScheme = TRUE
    MinDataLen = 25
    PriorFiles = {"none", "stored"}
    MaxWriteFail = 0
    None = None
    PcapWorkers = {w1}
    TorWorkers = {w2}
    Attempts = 5
    MaxPackets = 1
    PacketLen = 60
    TorLogLengths = {100}
    MaxLoss = 1
    MaxCrash = 0
    MaxRestart = 0
SPECIFICATION FairSpec
PROPERTY CompletionExits
