SPECIFICATION Spec
CONSTANTS
    Reqs = {r1,r2,r3}
    Blocks = {b1,b2,b3,b4}
    Slots = {s1,s2,s3}
    NoSlot = NoSlot
    NoHash = NoHash
    Garbage = Garbage
    GROUP = 2
    TPR = 2
    PromptLens = {5,7}
    SharedLen = 4
    MaxModelLen = 8
    MaxNumSeqs = 1
    MaxTokens = 3
    NumSpec = 0
    Caching = TRUE
    Hybrid = TRUE
    Throttle = {FALSE}
SYMMETRY Symmetry
VIEW View
INVARIANTS ReadsCorrect CachedBlocksValid NeverExhausted
PROPERTY SinkKeepsSlot
