SPECIFICATION Spec
CONSTANTS
    Ops <- MC_Ops
    OutLen <- MC_OutLen
    Bootloader = 3
    ExactOps = {1}
    Nacks = {6}
    AckPayloads <- MC_NoPayload
    NackPayloads <- MC_NoPayload
    SOF = 9
    NumMod = 3
    MaxCalls = 2
    MaxBoots = 1
    CutPoints = {}
    Faults = {"late"}
PROPERTIES
    NackIsOfThisCall
