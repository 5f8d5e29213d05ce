SPECIFICATION Spec
CONSTANTS
    WordBits = 3
    NumWords = 3
    MaxRetrySegs = 3
    FileIdBits = {0, 2}
INVARIANTS
    TypeOK
    MapIsReceived
    CompleteIsExact
    RequestIsExact
    CountIsExact
