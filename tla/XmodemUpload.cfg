SPECIFICATION FairSpec
CONSTANTS
    NumBlocks = 7
    NumMod = 6
    MaxAttempts = 2
    MaxChatter = 5
    MaxMisreads = 1
    Faults = {"late", "lose", "noise", "write", "read", "flash"}
INVARIANTS
    TypeOK
    ImageIsPrefix
    OffsetIsEarned
    SuccessIsInstalled

    
