SPECIFICATION Spec
CONSTANTS
    ByteMod = 128
    ReadsLeftToRight = TRUE
    Scenarios <- MCTtyScenarios
    Defaults <- MCDefaults
    Flags = {"RESET", "RX_DONE"}
    ErrorCodes <- MCErrorCodes
    Unknown = Unknown
    FlashFields <- MCFlashFields
    BodyLen <- MCBodyLen
    MaxEvents = 2
INVARIANTS
    OneTtyIsOpen
CHECK_DEADLOCK FALSE
