SPECIFICATION Spec
CONSTANTS
    NumBlocks = 2
    NumMod = 256
    MaxAttempts = 16
    MaxChatter = 3
    MaxMisreads = 0
    Faults = {}
INVARIANTS
    NotDownloadedIsTrue
