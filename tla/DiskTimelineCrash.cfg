SPECIFICATION Spec
CONSTANTS
    N = 2
    Values = {v0, v1}
    Facade = {}
    Faults = {"chunk"}
    JournalCap = 2
    MaxRecords = 3
    MaxSaves = 1
SYMMETRY ValueSymmetry
INVARIANTS
    TypeOK
    DigestTracksImage
    EpochsRewind
    EpochStatesRestorable
    SessionStatesRestorable
    RollbackLands
    AppendsParseable
    NoStaleLoadOrder
PROPERTIES
    RejectedLoadLeavesDisk
    RestoredContentExact
