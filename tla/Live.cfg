SPECIFICATION LiveSpec
CONSTANTS
    Reqs = {r1,r2}
    Blocks = {b1,b2,b3}
    Slots = {s1,s2,s3,s4,s5}
    NoSlot = NoSlot
    NoHash = NoHash
    Garbage = Garbage
    GROUP = 2
    TPR = 1
    PromptLens = {3, 5}
    SharedLen = 2
    MaxModelLen = 6
    MaxNumSeqs = 2
    MaxTokens = 3
    NumSpec = 0
    Caching = TRUE
    Hybrid = TRUE
    Throttle = {TRUE, FALSE}
INVARIANT PromptTailsStay
PROPERTY EveryRequestFinishes
