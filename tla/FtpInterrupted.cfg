SPECIFICATION Spec
CONSTANTS
    a = a
    b = b
    e = e
    Files = {a, b}
    NoFile = NoFile
    NumSegs <- MC_NumSegs
    SegNums = {0, 1, 2}
    MaxRetries = 1
    RetryInterval = 2
    MaxRetrySegs = 2
    Faulty = {}
INVARIANTS
    InterruptedIsClosed
