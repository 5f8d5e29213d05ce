SPECIFICATION FairSpec
CONSTANTS
    Ops <- MC_Ops
    OutLen <- MC_OutLen
    Bootloader = 3
    ExactOps = {1}
    Nacks = {6}
    AckPayloads <- MC_OnePayload
    NackPayloads <- MC_NoPayload
    SOF = 9
    NumMod = 2
    MaxCalls = 2
    MaxBoots = 1
    CutPoints = {5}
    Faults = {"late", "lose", "clock", "hangup"}
INVARIANTS
    TypeOK
    SuccessIsTheAnswer
PROPERTIES
    InSyncCallIsFaithful
    ImplementsChannel
    CallReturns
