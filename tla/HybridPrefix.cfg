SPECIFICATION Spec
CONSTANTS
    Reqs = {r1,r2,r3}
    Blocks = {b1,b2,b3,b4,b5}
    Slots = {s1,s2,s3,s4,s5}
    NoSlot = NoSlot
    NoHash = NoHash
    Garbage = Garbage
    GROUP = 2
    TPR = 2
    PromptLens = {5,7}
    SharedLen = 4
    MaxModelLen = 8
    MaxNumSeqs = 2
    MaxTokens = 5
    NumSpec = 0
    Caching = TRUE
    Hybrid = TRUE
    Throttle = {TRUE,FALSE}
SYMMETRY Symmetry
VIEW View
INVARIANTS TypeOK NoSlotShared NoSlotLeaked RetiredAreFullSinks ReadsCorrect CachedBlocksValid NeverExhausted
PROPERTIES SinkKeepsSlot NoOrphanSlots DecodePeak
