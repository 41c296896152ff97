SPECIFICATION Spec
CONSTANTS
    N = 2
    Values = {v0, v1}
    Facade = {0}
    Faults = {"journal", "file", "open", "edit", "lose"}
    JournalCap = 1
    MaxRecords = 2
    MaxSaves = 1
SYMMETRY ValueSymmetry
INVARIANTS
    EpochsRewind
    BackingFileFollows
PROPERTIES
    RestoredContentExact
