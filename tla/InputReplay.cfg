SPECIFICATION FairSpec
CONSTANTS
    Inputs <- AllInputs
    Text <- MCText
    GuestHold = 1
    Agent = TRUE
    SingleButton = TRUE
    ExternalPower = FALSE
    ExternalPort = TRUE
    BusyTicks = {2}
    kDetachRetries = 1
    HoldClk = 1
    LeadClk = 0
    GapClk = 1
    MaxPosts = 3
    MaxTicks = 3
    MaxStalls = 2
INVARIANTS
    TypeOK
    ReplayFaithful
    RecordingsReplay
    TypedKeysReleased
PROPERTIES
    DetachAnswered
CHECK_DEADLOCK FALSE
