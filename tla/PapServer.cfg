SPECIFICATION FairSpec
CONSTANTS
    Doc <- MCDoc
    Ends <- MCEnds
    Queries <- MCQueries
    XoFuncs = {"open", "read", "close"}
    kQuantum = 8
    kAnswers = 1
    kTries = 3
    kClientTries = 3
    MaxLoss = 1
    MaxUpsets = 1
INVARIANTS TypeOK JobsExact SpooledOnce EofMeansSpooled
PROPERTIES ReadsEnd JobsArrive
