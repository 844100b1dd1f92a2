SPECIFICATION Spec
CONSTANTS
    Reqs = {r1,r2}
    Blocks = {b1,b2,b3,b4,b5}
    Slots = {s1,s2,s3,s4,s5,s6}
    NoSlot = NoSlot
    NoHash = NoHash
    Garbage = Garbage
    GROUP = 2
    TPR = 1
    PromptLens = {1, 5}
    SharedLen = 4
    MaxModelLen = 6
    MaxNumSeqs = 2
    MaxTokens = 4
    NumSpec = 0
    Caching = FALSE
    Hybrid = FALSE
    Throttle = {TRUE, FALSE}
SYMMETRY Symmetry
VIEW View
INVARIANTS LiveTailResident
