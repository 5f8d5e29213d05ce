SPECIFICATION Spec
CONSTANTS
    WordBits = 3
    NumWords = 2
    MaxRetrySegs = 2
    FileIdBits = {1}
INVARIANTS
    OnlyTheMapChanges
