SPECIFICATION Spec
CONSTANTS
    Inputs <- ResetInputs
    Text <- MCText
    GuestHold = 1
    Agent = FALSE
    SingleButton = FALSE
    ExternalPower = FALSE
    ExternalPort = TRUE
    BusyTicks = {2}
    kDetachRetries = 1
    HoldClk = 1
    LeadClk = 0
    GapClk = 1
    MaxPosts = 3
    MaxTicks = 4
    MaxStalls = 2
INVARIANTS ReplayExact
CHECK_DEADLOCK FALSE
