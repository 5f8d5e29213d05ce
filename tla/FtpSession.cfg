SPECIFICATION SessionSpec
CONSTANTS
    a = a
    Files = {a}
    NoFile = NoFile
    NumSegs <- MC_NumSegs
    SegNums = {0, 1}
    MaxRetries = 2
    RetryInterval = 2
    MaxRetrySegs = 2
    Faulty = {"open", "read", "write", "apply"}
INVARIANTS
    TransferOwnsFile
    IdleRestoresDownlink
    SilenceHasCause
PROPERTIES
    GivesUpOnlyUnheard
