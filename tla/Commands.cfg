SPECIFICATION Spec
CONSTANTS
    ByteMod = 128
    ReadsLeftToRight = TRUE
    Scenarios <- MCScenarios
    Defaults <- MCDefaults
    Flags = {"RESET", "RX_DONE"}
    ErrorCodes <- MCErrorCodes
    Unknown = Unknown
    FlashFields <- MCFlashFields
    BodyLen <- MCBodyLen
    MaxEvents = 2
INVARIANTS
    TypeOK
    BeliefIsSetting
    GetIsWhatWasSet
    ConfigInOrder
    ErrorIsReported
    FlagIsNotLost
    MessagesOnceInOrder
    ReservedPortIsFtps
CHECK_DEADLOCK FALSE
