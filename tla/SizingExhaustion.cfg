SPECIFICATION Spec
CONSTANTS
    GROUP = 4
    MaxTokens = 12
    NumSpec = 3
    Budgets <- AroundOne
    Requested = {1,4,12}
    Positions <- TwoTiles
INVARIANTS ExhaustionSafe
