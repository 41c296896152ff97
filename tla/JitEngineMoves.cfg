SPECIFICATION Spec
CONSTANTS
    c = c
    d = d
    p = p
    q = q
    v0 = v0
    v1 = v1
    LPages = {c, d}
    PPages = {p, q}
    PageWords = 8
    SliceWords = 4
    SubWords = 2
    Values = {v0, v1}
    Rom = Rom
    Stores <- MCAcross
    Entries <- MCBoth
    Images <- MCImages
    maxInstrs = 2
    maxBlocks = 1
    kMaxHits = 1
    Slots <- MCSlots
    linkIndex <- MCIndex
    dispatchIndex <- MCIndex
    maskAware = TRUE
    BackPatch = FALSE
    NoBlock = NoBlock
    NoKey = NoKey
    NoWindow = NoWindow
    NoHit = NoHit
    NoEntry = NoEntry
    Refused = Refused
    Taken = Taken
    Quiet = Quiet
SYMMETRY MCSymmetry
INVARIANTS
    TypeOK
    CodeCurrent
    MaskCoversCode
PROPERTIES
    ImplementsInterpreter
