SPECIFICATION FairSpec
CONSTANTS
    a = a
    b = b
    e = e
    Files = {a, e}
    NoFile = NoFile
    NumSegs <- MC_NumSegs
    SegNums = {0, 1, 2}
    MaxRetries = 2
    RetryInterval = 2
    MaxRetrySegs = 2
    Faulty = {"open", "read", "write", "close", "apply"}
INVARIANTS
    TypeOK
    ReadyToApply
    NeverRestsComplete
    TransferHearsServer
    UplinkIsTrue
    QuietCoversWait
PROPERTIES
    NoEarlyGiveUp
    NoActionChangesNothing
    ProgressIsKept
    ImplementsTransfer
    SilenceEndsInIdle
