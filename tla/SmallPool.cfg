SPECIFICATION Spec
CONSTANTS
    Reqs = {r1,r2}
    Blocks = {b1,b2,b3,b4,b5}
    Slots = {s1, s2}
    NoSlot = NoSlot
    NoHash = NoHash
    Garbage = Garbage
    GROUP = 2
    TPR = 1
    PromptLens = {1,5}
    SharedLen = 4
    MaxModelLen = 8
    MaxNumSeqs = 2
    MaxTokens = 6
    NumSpec = 2
    Caching = FALSE
    Hybrid = FALSE
    Throttle = {FALSE}
SYMMETRY Symmetry
VIEW View
INVARIANT NoFalseExhaustion
PROPERTY TailKeepsSlot
CHECK_DEADLOCK FALSE
